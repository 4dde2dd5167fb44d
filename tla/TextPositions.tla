----------------------------- MODULE TextPositions -----------------------------
(***************************************************************************)
(* Byte offsets and the positions of the language server protocol: a line  *)
(* and a column in UTF-16 code units (syntaqlite/src/lsp/source_map.rs),   *)
(* and the delta encoding of semantic tokens (semantic_tokens_codec.rs).   *)
(*                                                                         *)
(* A text is a sequence of characters; Bytes and Units give their lengths  *)
(* in UTF-8 and in UTF-16; some spaces are taken as one character.         *)
(***************************************************************************)
EXTENDS Integers, Sequences, SequencesExt

CONSTANTS
  Accented,  \* characters of two bytes
  Wide       \* characters outside the Basic Multilingual Plane

Bytes(c) == IF c \in Wide \cup {"    "} THEN 4
            ELSE IF c \in Accented \cup {"  "} THEN 2 ELSE 1

Units(c) == IF c \in Wide THEN 2 ELSE 1

BytesOf(text) == FoldLeft(LAMBDA n, c : n + Bytes(c), 0, text)

(* The offset at which the k-th character starts, or the text ends.        *)
Start(text, k) == BytesOf(SubSeq(text, 1, k - 1))

(* A walk over the text: characters passed, bytes passed, position.        *)
Origin == [at |-> 0, pos |-> 0, line |-> 0, col |-> 0]

Advance(w, c) ==
  [at |-> w.at + 1, pos |-> w.pos + Bytes(c),
   line |-> IF c = "nl" THEN w.line + 1 ELSE w.line,
   col  |-> IF c = "nl" THEN 0 ELSE w.col + Units(c)]

(* One walk serves offsets in ascending order: each starts where the last  *)
(* one ended.                                                              *)
WalkTo(text, w, offset) ==
  FoldLeft(LAMBDA v, c : IF v.pos < offset THEN Advance(v, c) ELSE v,
           w, SubSeq(text, w.at + 1, Len(text)))

Position(w) == <<w.line, w.col>>

(* byte_offsets_to_utf16 of a sorted batch.                                *)
Positions(text, offsets) ==
  FoldLeft(LAMBDA r, o :
             LET w == WalkTo(text, r.walk, o)
             IN [walk |-> w, found |-> Append(r.found, Position(w))],
           [walk |-> Origin, found |-> <<>>], offsets).found

(* A plausible slip: a column past the end of a line runs on.              *)
OffsetUnclamped(text, line, col) ==
  LET start == FoldLeft(LAMBDA w, c : IF w.line < line THEN Advance(w, c) ELSE w,
                        Origin, text)
  IN FoldLeft(LAMBDA w, c : IF w.col < col THEN Advance(w, c) ELSE w,
              start, SubSeq(text, start.at + 1, Len(text))).pos

(* utf16_to_byte_offset: to the start of the line, then along it.          *)
Offset(text, line, col) ==
  LET start == FoldLeft(LAMBDA w, c : IF w.line < line THEN Advance(w, c) ELSE w,
                        Origin, text)
  IN FoldLeft(LAMBDA w, c : IF w.line = start.line /\ w.col < col /\ c # "nl"
                            THEN Advance(w, c) ELSE [w EXCEPT !.col = col],
              start, SubSeq(text, start.at + 1, Len(text))).pos

-----------------------------------------------------------------------------
(* encode_semantic_tokens: what is out of range or of no interest to the   *)
(* client is stepped over, and the next delta is from the last one sent.   *)

Sent(token, range) ==
  /\ range[1] <= token.offset /\ token.offset < range[2]
  /\ token.category # "punctuation"

(* A plausible slip: the delta is from the last token looked at.           *)
EncodeNextFromLast(text, range, r, token) ==
  LET w == WalkTo(text, r.walk, token.offset)
  IN [walk |-> w, last |-> Position(w), deltas |->
       IF ~Sent(token, range) THEN r.deltas
       ELSE Append(r.deltas,
              [line |-> w.line - r.last[1],
               start |-> IF w.line = r.last[1] THEN w.col - r.last[2] ELSE w.col])]

EncodeNext(text, range, r, token) ==
  LET w == WalkTo(text, r.walk, token.offset)
  IN IF ~Sent(token, range) THEN [r EXCEPT !.walk = w]
     ELSE [walk |-> w, last |-> Position(w), deltas |->
            Append(r.deltas,
              [line |-> w.line - r.last[1],
               start |-> IF w.line = r.last[1] THEN w.col - r.last[2] ELSE w.col])]

Encode(text, tokens, range) ==
  FoldLeft(LAMBDA r, token : EncodeNext(text, range, r, token),
           [walk |-> Origin, last |-> <<0, 0>>, deltas |-> <<>>], tokens).deltas

(* What the protocol says a client makes of the deltas.                    *)
Decoded(deltas) ==
  FoldLeft(LAMBDA r, d :
             LET p == <<r.at[1] + d.line, IF d.line = 0 THEN r.at[2] + d.start ELSE d.start>>
             IN [at |-> p, found |-> Append(r.found, p)],
           [at |-> <<0, 0>>, found |-> <<>>], deltas).found
=============================================================================
