------------------------------ MODULE FmtComments ------------------------------
(***************************************************************************)
(* A statement's text, the side of a token the parser attaches a comment   *)
(* to (synq_parser_record_comment in csrc/parser.c), and what the walk     *)
(* over the tokens emits for the comments it passes                        *)
(* (syntaqlite/src/fmt/comment.rs).                                        *)
(*                                                                         *)
(* A text is a sequence of words, line and block comments and newlines;    *)
(* an offset is a position in it.  A line comment has a newline or the end *)
(* of the document after it.  A statement's text ends with the comments    *)
(* that follow its semicolon on the same line.                             *)
(***************************************************************************)
EXTENDS FmtDoc, FiniteSets

IsComment(e) == e.k \in {"line", "block"}

Offsets(text, Test(_)) ==
  SelectSeq([i \in DOMAIN text |-> i], LAMBDA i : Test(text[i]))
Tokens(text)   == Offsets(text, LAMBDA e : e.k = "word")
Comments(text) == Offsets(text, IsComment)

Gap(text, from, to)      == SubSeq(text, from, to - 1)
SpansLine(text, from, to) ==
  \E i \in DOMAIN Gap(text, from, to) : Gap(text, from, to)[i] = Nl
SpansBlank(text, from, to) ==
  LET g == Gap(text, from, to) IN
  \E i \in DOMAIN g : i + 1 \in DOMAIN g /\ g[i] = Nl /\ g[i + 1] = Nl

(* A comment trails the token before it on its line, if no token follows   *)
(* it there.                                                               *)
Trailing(text, c) ==
  LET before == {t \in 1..(c - 1) : text[t].k = "word"}
      after  == {t \in (c + 1)..Len(text) : text[t].k = "word"}
      prev   == CHOOSE t \in before : \A u \in before : u <= t
      next   == CHOOSE t \in after : \A u \in after : t <= u
  IN /\ before # {} /\ ~SpansLine(text, prev + 1, c)
     /\ \/ text[c].k = "line"
        \/ after = {}
        \/ SpansLine(text, c + 1, next)

-----------------------------------------------------------------------------
(* The number of comments the walk has passed once it has emitted those    *)
(* before an offset.                                                       *)
PassedBefore(text, cursor, before) ==
  LET n == Cardinality({i \in DOMAIN Comments(text) : Comments(text)[i] < before})
  IN IF n > cursor THEN n ELSE cursor

(* emit_comments_before: the documents for the comments after the first    *)
(* `cursor` ones that lie before an offset, where `from` is the end of the *)
(* token before the token cursor.                                          *)
EmitCommentsBefore(text, cursor, from, before) ==
  LET at == SubSeq(Comments(text), cursor + 1, PassedBefore(text, cursor, before))
      Next(i) == IF i < Len(at) THEN at[i + 1] ELSE before
      LastEnd(i) == IF i = 1 THEN from ELSE at[i - 1] + 1
      Elem(i) == Text(<<text[at[i]]>>)
      LineChunk(i, first) ==
        LET blank_after == SpansBlank(text, at[i] + 1, Next(i))
            joined == i < Len(at) /\ ~blank_after
                      /\ SpansLine(text, at[i] + 1, Next(i))
        IN (IF SpansBlank(text, LastEnd(i), at[i]) /\ ~first
            THEN BlankLine ELSE CommentBreak)
           \o Elem(i)
           \o (IF joined THEN NIL
               ELSE IF blank_after THEN BlankLine ELSE CommentBreak)
      Step(out, i) ==
        IF Trailing(text, at[i])
        THEN [out EXCEPT !.trailing = @ \o
                IF text[at[i]].k = "line"
                THEN LineSuffix(Text(<<Sp>>) \o Elem(i)) \o BreakParent
                ELSE Text(<<Sp>>) \o Elem(i)]
        ELSE [out EXCEPT !.leading = @ \o
                IF text[at[i]].k = "line"
                THEN LineChunk(i, out.leading = NIL)
                ELSE HardLine \o Elem(i) \o Text(<<Sp>>)]
  IN FoldLeft(Step, [trailing |-> NIL, leading |-> NIL], [i \in DOMAIN at |-> i])

(* drain_gap_comments: the comments before a statement, each on a line of  *)
(* its own, with the blank lines the source has after them.                *)
GapComments(text, before) ==
  LET n == PassedBefore(text, 0, before)
      at == Comments(text)
      Next(i) == IF i < Len(at) THEN at[i + 1] ELSE before
      Chunk(i) == Text(<<text[at[i]]>>) \o HardLine
                  \o (IF SpansBlank(text, at[i] + 1, Next(i)) THEN HardLine ELSE NIL)
  IN FlattenSeq([i \in 1..n |-> Chunk(i)])
=============================================================================
