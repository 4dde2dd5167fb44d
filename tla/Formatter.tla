------------------------------- MODULE Formatter -------------------------------
(***************************************************************************)
(* Formatting a document (Formatter::format in syntaqlite/src/fmt/         *)
(* formatter.rs) by interpreting the bytecode of each statement            *)
(* (fmt/interpret.rs).                                                     *)
(*                                                                         *)
(* The syntax tree decides which instructions run; a statement's `ops` are *)
(* those that do, in order, with "ret" where a child's bytecode ends.  Two *)
(* cursors move through the statement as it is written out: one over its   *)
(* tokens, one over its comments, and what lies between them decides where *)
(* a comment lands.                                                        *)
(***************************************************************************)
EXTENDS FmtComments

CONSTANTS Documents,  \* sequences of statements [text, ops, null]
          LineWidths  \* FormatConfig::line_width

VARIABLES
  statements,  \* the statements of the document
  line_width,
  at,          \* the statement being formatted, 0 before the first
  phase,       \* "statement", "ops" or "done"
  ip,
  running, pending,   \* what is written, and the separator held back
  group_nest, calls,  \* the enclosing groups and nests, and call frames
  cursor, token_cursor,
  parts,       \* what precedes the statement itself
  result, stmt_num,
  given,       \* the document before it was stripped of its comments
  commented    \* what it became with them

history == <<given, commented>>
walk == <<ip, running, pending, group_nest, calls, cursor, token_cursor>>
vars == <<statements, line_width, at, phase, walk, parts, result, stmt_num, history>>

Op   == statements[at].ops[ip]
Txt  == statements[at].text
Toks == Tokens(Txt)
HasComments == Comments(Txt) # <<>>
AtOp(k) == phase = "ops" /\ ip <= Len(statements[at].ops) /\ Op.k = k

Begin(doc) ==
  /\ statements' = doc
  /\ at' = 0 /\ phase' = "statement"
  /\ ip' = 1 /\ running' = NIL /\ pending' = NIL
  /\ group_nest' = <<>> /\ calls' = <<>> /\ cursor' = 0 /\ token_cursor' = 0
  /\ parts' = NIL /\ result' = <<>> /\ stmt_num' = 0

Init ==
  /\ statements \in Documents /\ line_width \in LineWidths
  /\ at = 0 /\ phase = "statement"
  /\ ip = 1 /\ running = NIL /\ pending = NIL
  /\ group_nest = <<>> /\ calls = <<>> /\ cursor = 0 /\ token_cursor = 0
  /\ parts = NIL /\ result = <<>> /\ stmt_num = 0
  /\ given = <<>> /\ commented = <<>>

-----------------------------------------------------------------------------
(* The comments the walk passes (CommentCtx)                               *)

NoDrain == [trailing |-> NIL, leading |-> NIL]
PrevTokenEnd == IF token_cursor = 0 THEN 1 ELSE Toks[token_cursor] + 1
Drained(before) == EmitCommentsBefore(Txt, cursor, PrevTokenEnd, before)

AtToken(w) == token_cursor < Len(Toks) /\ Txt[Toks[token_cursor + 1]] = Word(w)

(* take_comments: those before the token at the cursor.                    *)
AtEnd == token_cursor = Len(Toks)
TakeComments == IF AtEnd THEN NoDrain ELSE Drained(Toks[token_cursor + 1])
CursorTaken ==
  IF AtEnd THEN cursor ELSE PassedBefore(Txt, cursor, Toks[token_cursor + 1])

(* A plausible slip: leading comments take the place of the trailing ones. *)
FlushedLeading(drain) ==
  running \o (IF drain.leading = NIL THEN drain.trailing \o pending
              ELSE drain.leading)

(* flush_drain: trailing comments go before the separator held back,       *)
(* leading ones take its place.                                            *)
Flushed(drain) == running \o drain.trailing
                  \o (IF drain.leading = NIL THEN pending ELSE drain.leading)

-----------------------------------------------------------------------------
(* The instructions                                                        *)

Step == /\ ip' = ip + 1
        /\ UNCHANGED <<statements, line_width, at, phase, parts, result,
                       stmt_num, history>>

(* A keyword that is not the next token, a space say, passes nothing.      *)
OpKeyword ==
  /\ AtOp("keyword")
  /\ running' = Flushed(IF AtToken(Op.w) THEN TakeComments ELSE NoDrain)
                \o Keyword(IF Op.w = " " THEN <<Sp>> ELSE <<Word(Op.w)>>)
  /\ pending' = NIL
  /\ cursor' = IF AtToken(Op.w) THEN CursorTaken ELSE cursor
  /\ token_cursor' = IF AtToken(Op.w) THEN token_cursor + 1 ELSE token_cursor
  /\ UNCHANGED <<group_nest, calls>>
  /\ Step

(* A span of tokens is written as it stands, comments included.            *)
OpSpan ==
  /\ AtOp("span")
  /\ running' = Flushed(Drained(Toks[Op.first]))
                \o Text(SubSeq(Txt, Toks[Op.first], Toks[Op.last]))
  /\ pending' = NIL
  /\ cursor' = PassedBefore(Txt, cursor, Toks[Op.last])
  /\ token_cursor' = IF Op.last > token_cursor THEN Op.last ELSE token_cursor
  /\ UNCHANGED <<group_nest, calls>>
  /\ Step

(* A separator steps over its token and leaves the comments before it to   *)
(* the next instruction that takes some.                                   *)
OpForEachSep ==
  /\ AtOp("sep")
  /\ running' = running \o Text(<<Word(Op.w)>>)
  /\ token_cursor' = IF AtToken(Op.w) THEN token_cursor + 1 ELSE token_cursor
  /\ UNCHANGED <<pending, group_nest, calls, cursor>>
  /\ Step

OpLine ==
  /\ AtOp("line") \/ AtOp("softline") \/ AtOp("hardline")
  /\ LET doc == <<[k |-> Op.k]>> IN
       IF HasComments
       THEN pending' = pending \o doc /\ UNCHANGED running
       ELSE running' = running \o doc /\ UNCHANGED pending
  /\ UNCHANGED <<group_nest, calls, cursor, token_cursor>>
  /\ Step

OpChild ==
  /\ AtOp("child")
  /\ calls' = Append(calls, Flushed(TakeComments))
  /\ running' = NIL /\ pending' = NIL
  /\ cursor' = CursorTaken
  /\ UNCHANGED <<group_nest, token_cursor>>
  /\ Step

OpReturn ==
  /\ AtOp("ret")
  /\ running' = Last(calls) \o running \o pending
  /\ pending' = NIL
  /\ calls' = Front(calls)
  /\ UNCHANGED <<group_nest, cursor, token_cursor>>
  /\ Step

(* Comments before a group's first token stay outside the group.           *)
OpGroupStart ==
  /\ AtOp("group")
  /\ LET takes   == pending # NIL /\ HasComments
         flushes == takes /\ TakeComments # NoDrain IN
       /\ group_nest' = Append(group_nest,
            IF flushes THEN [parent |-> Flushed(TakeComments), pending |-> NIL]
            ELSE [parent |-> running, pending |-> pending])
       /\ cursor' = IF takes THEN CursorTaken ELSE cursor
  /\ running' = NIL /\ pending' = NIL
  /\ UNCHANGED <<calls, token_cursor>>
  /\ Step

(* A plausible slip: the separator saved before a group is forgotten.      *)
OpGroupEndForgets ==
  /\ AtOp("endgroup")
  /\ running' = Last(group_nest).parent \o Group(running \o pending)
  /\ pending' = NIL
  /\ group_nest' = Front(group_nest)
  /\ UNCHANGED <<calls, cursor, token_cursor>>
  /\ Step

OpGroupEnd ==
  /\ AtOp("endgroup")
  /\ running' = Last(group_nest).parent \o Last(group_nest).pending
                \o Group(running \o pending)
  /\ pending' = NIL
  /\ group_nest' = Front(group_nest)
  /\ UNCHANGED <<calls, cursor, token_cursor>>
  /\ Step

OpNestStart ==
  /\ AtOp("nest")
  /\ group_nest' = Append(group_nest, [parent |-> running, pending |-> NIL])
  /\ running' = NIL
  /\ UNCHANGED <<pending, calls, cursor, token_cursor>>
  /\ Step

OpNestEnd ==
  /\ AtOp("endnest")
  /\ running' = Last(group_nest).parent \o Nest(running \o pending)
  /\ pending' = NIL
  /\ group_nest' = Front(group_nest)
  /\ UNCHANGED <<calls, cursor, token_cursor>>
  /\ Step

-----------------------------------------------------------------------------
(* A document, statement by statement                                      *)

Start ==
  /\ phase = "statement" /\ at < Len(statements)
  /\ at' = at + 1
  /\ LET text   == statements[at'].text
         tokens == Tokens(text) IN
       /\ parts' = (IF stmt_num > 0 THEN HardLine \o HardLine ELSE NIL)
                   \o (IF tokens = <<>> THEN NIL ELSE GapComments(text, tokens[1]))
       /\ cursor' = IF tokens = <<>> THEN 0 ELSE PassedBefore(text, 0, tokens[1])
  /\ phase' = "ops" /\ ip' = 1 /\ token_cursor' = 0
  /\ running' = NIL /\ pending' = NIL /\ group_nest' = <<>> /\ calls' = <<>>
  /\ UNCHANGED <<statements, line_width, result, stmt_num, history>>

(* The semicolon and what is left of the comments, then the render.  A     *)
(* statement without a tree has only comments to show.                     *)
Finish ==
  /\ phase = "ops" /\ ip > Len(statements[at].ops)
  /\ LET empty == statements[at].ops = <<>>
         rest  == Drained(Len(Txt) + 1)
         out   == Render(parts \o running \o pending
                         \o (IF empty THEN NIL ELSE Text(<<Word(";")>>))
                         \o rest.trailing \o rest.leading, line_width)
         rendered == IF empty THEN Trim(out, {Sp, Nl}) ELSE out
         shown == Trim(rendered, {Sp, Nl}) # <<>> IN
       /\ result' = IF shown THEN result \o rendered ELSE result
       /\ stmt_num' = IF shown THEN stmt_num + 1 ELSE stmt_num
  /\ phase' = "statement"
  /\ UNCHANGED <<statements, line_width, at, walk, parts, history>>

End ==
  /\ phase = "statement" /\ at = Len(statements)
  /\ result' = IF stmt_num = 0 THEN <<>> ELSE Append(result, Nl)
  /\ phase' = "done"
  /\ UNCHANGED <<statements, line_width, at, walk, parts, stmt_num, history>>

(* Formatting the same document without its comments, to compare.          *)
Strip ==
  /\ phase = "done" /\ given = <<>>
  /\ given' = statements
  /\ commented' = result
  /\ Begin([n \in DOMAIN statements |->
       [statements[n] EXCEPT !.text = SelectSeq(@, LAMBDA e : e.k = "word")]])
  /\ UNCHANGED line_width

Next ==
  \/ Start \/ Finish \/ End \/ Strip
  \/ OpKeyword \/ OpSpan \/ OpForEachSep \/ OpLine \/ OpChild \/ OpReturn
  \/ OpGroupStart \/ OpGroupEnd \/ OpNestStart \/ OpNestEnd

Spec == Init /\ [][Next]_vars

-----------------------------------------------------------------------------
Done == phase = "done"

(* The words of a text that no line comment before them on their line      *)
(* takes in.                                                               *)
Code(s) ==
  LET Hidden(i) == \E c \in 1..(i - 1) : s[c].k = "line" /\ ~SpansLine(s, c, i)
      Shown(i)  == s[i].k = "word" /\ s[i].w # ";" /\ ~Hidden(i)
      shown == SelectSeq([i \in DOMAIN s |-> i], Shown)
  IN [i \in DOMAIN shown |-> s[shown[i]]]
Written == FlattenSeq([n \in DOMAIN statements |-> Append(statements[n].text, Nl)])
Count(c) == Cardinality({i \in DOMAIN result : result[i] = c})

(* Every comment of the document is written out, and only once.            *)
KeepsComments == Done =>
  \A i \in DOMAIN Written : IsComment(Written[i]) => Count(Written[i]) = 1

(* No word of the program is lost behind a comment, and none is added.     *)
KeepsCode == Done => Code(result) = Code(Written)

(* A comment on a line of its own before a separator, and one right after. *)
Parted(text) ==
  \E c \in DOMAIN text, d \in DOMAIN text :
    /\ c < d /\ text[c].k = "line" /\ ~Trailing(text, c) /\ IsComment(text[d])
    /\ \E t \in (c + 1)..(d - 1) :
         /\ text[t] = Word(",")
         /\ \A i \in (c + 1)..(d - 1) : text[i].k = "word" => i = t

(* The same of every document that has no such pair of comments.           *)
KeepsCodeElsewhere ==
  (\A n \in DOMAIN statements : ~Parted(statements[n].text)) => KeepsCode

(* The breaks an instruction and a comment bring do not add up to blank    *)
(* lines: a statement keeps at most those of its source, the end of the    *)
(* document aside.                                                         *)
BlankLines(s) == {i \in DOMAIN s : i + 1 < Len(s) /\ s[i] = Nl /\ s[i + 1] = Nl}
NoNewBlankLines == Done /\ Len(statements) = 1 =>
  Cardinality(BlankLines(result)) <= Cardinality(BlankLines(statements[1].text))

(* What lies between the first and the last word of a text.                *)
Body(s) ==
  LET words == {i \in DOMAIN s : s[i].k = "word"} IN
  IF words = {} THEN <<>>
  ELSE SubSeq(s, CHOOSE i \in words : \A j \in words : i <= j,
                 CHOOSE i \in words : \A j \in words : j <= i)
Plain(s) == \A i \in DOMAIN s : ~IsComment(s[i])

(* A statement with comments only before or after it is laid out as it is  *)
(* without them: a comment changes no break of the code it is not in.      *)
LayoutIsKept ==
  (/\ Done /\ Len(given) = 1
   /\ \A i \in DOMAIN Body(given[1].text) : ~IsComment(Body(given[1].text)[i]))
  => Body(commented) = Body(result)
=============================================================================
