--------------------------------- MODULE FmtDoc --------------------------------
(***************************************************************************)
(* The document algebra of the formatter and its renderer                  *)
(* (syntaqlite/src/fmt/doc.rs).                                            *)
(*                                                                         *)
(* A document is the sequence of the nodes a tree of Cat nodes joins, with *)
(* NIL_DOC the empty one; the nodes of a Nest, Group or LineSuffix are the *)
(* document `child`.  Text is a sequence of source elements: a token, a    *)
(* comment, a space or a newline, each one column wide.                    *)
(***************************************************************************)
EXTENDS Integers, Sequences, SequencesExt

CONSTANTS IndentWidth, \* FormatConfig::indent_width
          Punctuation  \* the token texts that are not word-class

ASSUME DocAssumption == IndentWidth \in Nat

Nl == [k |-> "nl"]
Sp == [k |-> "sp"]
Word(w) == [k |-> "word", w |-> w]

NIL == <<>>
Text(s)           == <<[k |-> "text", s |-> s]>>
Keyword(s)        == <<[k |-> "keyword", s |-> s]>>
Line              == <<[k |-> "line"]>>
HardLine          == <<[k |-> "hardline"]>>
CommentBreak      == <<[k |-> "commentbreak"]>>
BreakParent       == <<[k |-> "breakparent"]>>
BlankLine         == HardLine \o CommentBreak
Node(k, child)    == IF child = NIL THEN NIL ELSE <<[k |-> k, child |-> child]>>
Nest(child)       == Node("nest", child)
Group(child)      == Node("group", child)

(* A plausible slip: a trailing comment is written where it stands.        *)
LineSuffixInPlace(child) == child
LineSuffix(child) == Node("suffix", child)

-----------------------------------------------------------------------------
IsWord(e) == e.k = "word" /\ e.w \notin Punctuation

(* maybe_emit_auto_space between what is out and what comes next.          *)
Spaced(out, s) ==
  IF out # <<>> /\ s # <<>> /\ IsWord(out[Len(out)]) /\ IsWord(s[1])
  THEN <<Sp>> \o s ELSE s

RECURSIVE NoForcedBreak(_)
NoForcedBreak(doc) == \A i \in DOMAIN doc :
  /\ doc[i].k \notin {"hardline", "commentbreak", "breakparent"}
  /\ doc[i].k \in {"nest", "group"} => NoForcedBreak(doc[i].child)

(* What a document prints when nothing in it breaks.  A line suffix takes  *)
(* no room on the line it is deferred to.                                  *)
RECURSIVE Flat(_, _)
Flat(before, doc) == FoldLeft(
  LAMBDA out, n :
    CASE n.k \in {"text", "keyword"} -> out \o Spaced(out, n.s)
      [] n.k = "line" -> Append(out, Sp)
      [] n.k \in {"nest", "group"} -> Flat(out, n.child)
      [] OTHER -> out,
  before, doc)

FitsWith(doc, remaining) == NoForcedBreak(doc) /\ Len(Flat(<<>>, doc)) <= remaining

-----------------------------------------------------------------------------
(* The state of one render: the text so far, the column, the line suffixes *)
(* deferred and the two flags that keep breaks from stacking.              *)
Blank == [out |-> <<>>, pos |-> 0, held |-> <<>>,
          just_emitted_comment_break |-> FALSE, last_emitted_break |-> FALSE]

Flags(r, comment, any) ==
  [r EXCEPT !.just_emitted_comment_break = comment, !.last_emitted_break = any]

Push(r, s) == [r EXCEPT !.out = @ \o s, !.pos = @ + Len(s)]

(* A keyword that is a space does not double the one already out.          *)
PushNode(r, n) ==
  IF n.k = "keyword" /\ n.s = <<Sp>> /\ r.out # <<>> /\ r.out[Len(r.out)] = Sp
  THEN [r EXCEPT !.pos = @ + 1]
  ELSE Push(r, Spaced(r.out, n.s))

(* flush_line_suffixes renders the deferred documents where the line ends. *)
FlushSuffixes(r) ==
  FoldLeft(PushNode, [r EXCEPT !.held = <<>>],
           SelectSeq(FlattenSeq(r.held), LAMBDA n : n.k = "text"))

RECURSIVE Trim(_, _)
Trim(out, space) ==
  IF out # <<>> /\ out[Len(out)] \in space THEN Trim(Front(out), space) ELSE out

(* flush_line_suffixes and emit_newline.                                   *)
NewLine(r, indent) ==
  LET f == FlushSuffixes(r) IN
  [f EXCEPT !.out = Append(Trim(@, {Sp}), Nl), !.pos = indent]

(* Line in break mode, SoftLine in break mode and HardLine.                *)
Break(r, indent) ==
  IF r.just_emitted_comment_break THEN Flags(r, FALSE, FALSE)
  ELSE [NewLine(r, indent) EXCEPT !.last_emitted_break = TRUE]

(* A plausible slip: only a comment's own break is elided.                 *)
BreakAfterBreak(r, indent) ==
  IF r.just_emitted_comment_break THEN r
  ELSE Flags(NewLine(r, indent), TRUE, TRUE)

BreakForComment(r, indent) ==
  IF r.just_emitted_comment_break \/ r.last_emitted_break THEN r
  ELSE Flags(NewLine(r, indent), TRUE, TRUE)

RECURSIVE RenderDoc(_, _, _, _, _)
RenderDoc(start, doc, indent, flat, width) == FoldLeft(
  LAMBDA r, n :
    CASE n.k \in {"text", "keyword"} -> PushNode(Flags(r, FALSE, FALSE), n)
      [] n.k = "line" /\ flat -> Push(Flags(r, FALSE, FALSE), <<Sp>>)
      [] n.k = "softline" /\ flat -> r
      [] n.k \in {"line", "softline"} /\ ~flat -> Break(r, indent)
      [] n.k = "hardline" -> Break(r, indent)
      [] n.k = "commentbreak" -> BreakForComment(r, indent)
      [] n.k = "nest" ->
           RenderDoc(r, n.child, indent + IndentWidth, flat, width)
      [] n.k = "group" ->
           RenderDoc(r, n.child, indent, FitsWith(n.child, width - r.pos), width)
      [] n.k = "suffix" -> [r EXCEPT !.held = Append(@, n.child)]
      [] n.k = "breakparent" -> r,
  start, doc)

Render(doc, width) == FlushSuffixes(RenderDoc(Blank, doc, 0, FALSE, width)).out
=============================================================================
