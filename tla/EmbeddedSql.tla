------------------------------ MODULE EmbeddedSql ------------------------------
(***************************************************************************)
(* SQL inside another language (syntaqlite/src/embedded): the scan of a    *)
(* sqlite3 shell script (shell.rs), the masked document the language       *)
(* server analyses, the splice of formatted SQL (mod.rs), and the strings  *)
(* with holes of a program (python.rs, offset_map.rs).                     *)
(*                                                                         *)
(* A line is a sequence of characters, each standing for a lexeme: "w" and *)
(* the wide ones for words, ";", "--", "/*", "*/", "'" for what SQL makes  *)
(* of them, "." and "#" for the first column of a shell line, "go" for the *)
(* word GO and "/" for the slash on a line of its own.                     *)
(***************************************************************************)
EXTENDS TextPositions

Space == {"nl", " ", "  ", "    "}

(* Text and lines; every line is ended.                                    *)

Joined(lines) == FoldLeft(LAMBDA t, line : t \o line \o <<"nl">>, <<>>, lines)

Lines(text) ==
  FoldLeft(LAMBDA r, c : IF c = "nl" THEN [done |-> Append(r.done, r.open), open |-> <<>>]
                         ELSE [r EXCEPT !.open = Append(@, c)],
           [done |-> <<>>, open |-> <<>>], text).done

(* The index of the first character of line i in the text.                 *)
LineStart(lines, i) ==
  1 + FoldLeft(LAMBDA n, line : n + Len(line) + 1, 0, SubSeq(lines, 1, i - 1))

-----------------------------------------------------------------------------
(* The tokenizer, as far as statements go: the last token that is not a    *)
(* comment and where it ends, and where the tokens of each statement start.*)

Code == [mode |-> "code", last |-> "none", end |-> 0, statements |-> <<>>, open |-> <<>>]

Token(s, k) == [s EXCEPT !.last = "word", !.end = k, !.open = Append(@, k)]

EndStatement(s) ==
  [s EXCEPT !.last = ";", !.open = <<>>,
            !.statements = IF s.open = <<>> THEN @ ELSE Append(@, s.open)]

Lex(s, k, c) ==
  LET To(mode) == [s EXCEPT !.mode = mode] IN
  CASE s.mode = "line"   -> IF c = "nl" THEN To("code") ELSE s
    [] s.mode = "block"  -> IF c = "*/" THEN To("code") ELSE s
    [] s.mode = "string" -> [s EXCEPT !.end = k, !.mode = IF c = "'" THEN "code" ELSE @]
    [] OTHER -> CASE c \in Space -> s
                  [] c = "--" -> To("line")
                  [] c = "/*" -> To("block")
                  [] c = "'"  -> [Token(s, k) EXCEPT !.mode = "string"]
                  [] c = ";"  -> EndStatement(s)
                  [] OTHER    -> Token(s, k)

Tokenized(text, first, last) ==
  FoldLeft(LAMBDA s, k : Lex(s, k, text[k]), Code,
           [i \in 1..(last - first + 1) |-> first + i - 1])

Statements(text, first, last) ==
  EndStatement(Tokenized(text, first, last)).statements

(* run_complete                                                            *)
RunComplete(text, run) ==
  Tokenized(text, run[1], run[2]).last \in {"none", ";"}

-----------------------------------------------------------------------------
(* The scan of a script.  A fragment is the pair of the indices of its     *)
(* first and last character.                                               *)

None == <<>>
Pending(text, run) == run # None /\ ~RunComplete(text, run)

Classify(line, text, run) ==
  IF line = <<>> THEN "blank"
  ELSE IF line \in {<<"go">>, <<"/">>} THEN "terminator"
  ELSE IF Head(line) \in {".", "#"} /\ ~Pending(text, run) THEN "shell" ELSE "sql"

Flush(fragments, run) == IF run = None THEN fragments ELSE Append(fragments, run)

ScanLine(s, lines, i, text) ==
  LET class == Classify(lines[i], text, s.run)
      first == LineStart(lines, i)
      end == first + Len(lines[i]) - 1 IN
  CASE class = "sql" -> [s EXCEPT !.run = <<IF @ = None THEN first ELSE @[1], end>>]
    [] class = "blank" -> [s EXCEPT !.run = IF @ = None THEN None ELSE <<@[1], end>>]
    [] OTHER -> [is_shell |-> s.is_shell \/ class = "shell", run |-> None,
                 fragments |-> Flush(s.fragments, s.run)]

Scan(lines) ==
  LET s == FoldLeft(LAMBDA r, i : ScanLine(r, lines, i, Joined(lines)),
                    [is_shell |-> FALSE, run |-> None, fragments |-> <<>>],
                    [i \in DOMAIN lines |-> i])
  IN [s EXCEPT !.run = None, !.fragments = Flush(@, s.run)]

-----------------------------------------------------------------------------
(* mask, which the server applies to a script                              *)

Inside(fragments, k) ==
  \E f \in DOMAIN fragments : fragments[f][1] <= k /\ k <= fragments[f][2]

LastSolid(text, f) ==
  CHOOSE k \in f[1]..f[2] : /\ text[k] \notin Space
                            /\ \A j \in (k + 1)..f[2] : text[j] \in Space

(* Whether the text of a fragment ends in a semicolon, comment or not.     *)
EndsInSemicolon(text, f) == text[LastSolid(text, f)] = ";"

(* A plausible slip: the statements of a script are terminated.            *)
NoSeparators(text, fragments) == {}

(* Before a fragment that does not follow a terminated one.                *)
Separators(text, fragments) ==
  {fragments[f + 1][1] - 1 : f \in
     {g \in 1..(Len(fragments) - 1) : ~EndsInSemicolon(text, fragments[g])}}

(* Every byte is overwritten by a space.                                   *)
Blank(c) == IF c \in Wide THEN "    " ELSE IF c \in Accented THEN "  " ELSE " "

Masked(text, fragments) ==
  [k \in DOMAIN text |->
     IF Inside(fragments, k) THEN text[k]
     ELSE IF k \in Separators(text, fragments) THEN ";"
     ELSE IF text[k] = "nl" THEN "nl" ELSE Blank(text[k])]

(* mask_for_analysis: what the server analyses for a document.             *)
Analyzable(lines) ==
  IF Scan(lines).is_shell THEN Masked(Joined(lines), Scan(lines).fragments)
  ELSE Joined(lines)

-----------------------------------------------------------------------------
(* splice, which formats a script fragment by fragment and gives up when   *)
(* one of them does not parse.                                             *)

(* What the formatter reads of a fragment: its tokens, semicolons and      *)
(* comments, each with the number of line breaks before it.                *)
Kind(c) == CASE c = ";" -> "semicolon" [] c \in {"--", "/*"} -> "comment" [] OTHER -> "token"

Lexemes(text, f) ==
  FoldLeft(LAMBDA s, k :
      LET c == text[k]
          next == [s EXCEPT !.lex = Lex(s.lex, k, c)] IN
      CASE s.lex.mode = "line" /\ c = "nl" -> [next EXCEPT !.breaks = 1]
        [] s.lex.mode # "code" -> [next EXCEPT !.found[Len(s.found)].text = Append(@, c)]
        [] c \in Space -> IF c = "nl" THEN [next EXCEPT !.breaks = @ + 1] ELSE next
        [] OTHER -> [next EXCEPT !.breaks = 0, !.found =
             Append(@, [kind |-> Kind(c), text |-> <<c>>, breaks |-> s.breaks])],
    [lex |-> Code, breaks |-> 0, found |-> <<>>],
    [i \in 1..(f[2] - f[1] + 1) |-> f[1] + i - 1]).found

(* Each statement on a line of its own: the comments before it, its tokens *)
(* and the comments among them, its semicolon, and the comments behind its *)
(* last token and on the line of its semicolon.  One without tokens leaves *)
(* its comments and nothing else.                                          *)
NoStatement == [before |-> <<>>, body |-> <<>>, behind |-> <<>>, closed |-> FALSE]

WithoutBreaks(t) == SubSeq(t, 1, SelectLastInSeq(t, LAMBDA c : c # "nl"))
Rendered(st) ==
  WithoutBreaks(st.before \o st.body \o (IF st.body = <<>> THEN <<>> ELSE <<";">>)
                          \o st.behind)
Delivered(s) ==
  [st |-> NoStatement,
   out |-> IF Rendered(s.st) = <<>> THEN s.out ELSE Append(s.out, Rendered(s.st))]

Ended(comment) == IF Head(comment) = "--" THEN Append(comment, "nl") ELSE comment

Take(s, l) ==
  LET closing == s.st.closed /\ ~(l.kind = "comment" /\ l.breaks = 0)
      r == IF closing THEN Delivered(s) ELSE s
      st == r.st
      leads == st.body = <<>> /\ ~st.closed
      \* a blank line behind a comment in front of a statement is kept
      before == IF leads /\ st.before # <<>> /\ l.breaks > 1
                THEN Append(st.before, "nl") ELSE st.before
  IN [r EXCEPT !.st =
        CASE l.kind = "semicolon" -> [st EXCEPT !.closed = TRUE]
          [] l.kind = "token" -> [st EXCEPT !.before = before, !.behind = <<>>,
                                            !.body = @ \o st.behind \o l.text]
          [] leads -> [st EXCEPT !.before = Append(before \o l.text, "nl")]
          [] OTHER -> [st EXCEPT !.behind = @ \o Ended(l.text)]]

Formatted(text, f) ==
  Delivered(FoldLeft(Take, [st |-> NoStatement, out |-> <<>>], Lexemes(text, f))).out

(* A blank line between two statements and a line break at the end, or     *)
(* nothing at all where there is nothing but semicolons.                   *)
FormatSql(text, f) ==
  LET out == Formatted(text, f) IN
  IF out = <<>> THEN <<>>
  ELSE FoldLeft(LAMBDA t, st : t \o <<"nl", "nl">> \o st, Head(out), Tail(out))
         \o <<"nl">>

(* A hash and the end of a comment that did not start are no SQL.          *)
Parses(text, f) ==
  /\ Tokenized(text, f[1], f[2]).mode \in {"code", "line"}
  /\ \A l \in ToSet(Lexemes(text, f)) : l.text \notin {<<"#">>, <<"*/">>}


(* The host has the line break already.                                    *)
Piece(text, f) ==
  LET sql == FormatSql(text, f) IN
  IF sql # <<>> /\ f[2] < Len(text) /\ text[f[2] + 1] = "nl"
    THEN SubSeq(sql, 1, Len(sql) - 1) ELSE sql

Spliced(text, fragments) ==
  IF \E f \in DOMAIN fragments : ~Parses(text, fragments[f]) THEN text
  ELSE LET s == FoldLeft(LAMBDA r, f :
                           [out |-> r.out \o SubSeq(text, r.cursor, f[1] - 1)
                                          \o Piece(text, f),
                            cursor |-> f[2] + 1],
                         [out |-> <<>>, cursor |-> 1], fragments)
       IN s.out \o SubSeq(text, s.cursor, Len(text))

-----------------------------------------------------------------------------
(* Strings with holes.  A piece of a string is a character, an escaped     *)
(* brace, or a hole of some length.                                        *)

Placeholder == 8

HostLength(p) == CASE p = "char" -> 1 [] p = "accent" -> 2 [] p = "brace" -> 2
                   [] p = "short" -> 3 [] p = "long" -> 12
Hole(p) == p \in {"short", "long"}

(* A character is pushed byte by byte, each as a character of its own.     *)
SqlLength(p) == CASE p = "char" -> 1 [] p = "accent" -> 4 [] p = "brace" -> 1
                  [] Hole(p) -> Placeholder

Total(length(_), pieces, n) ==
  FoldLeft(LAMBDA sum, p : sum + length(p), 0, SubSeq(pieces, 1, n))
SqlStart(pieces, i)  == Total(SqlLength, pieces, i - 1)
HostStart(pieces, i) == Total(HostLength, pieces, i - 1)

(* OffsetMap::new                                                          *)
Segments(pieces) ==
  FoldLeft(LAMBDA s, i : IF Hole(pieces[i])
             THEN Append(s, [sql_start |-> SqlStart(pieces, i),
                             sql_len |-> Placeholder,
                             host_len |-> HostLength(pieces[i])])
             ELSE s,
           <<>>, [i \in DOMAIN pieces |-> i])

InHole == -1

(* A plausible slip: the offset just behind a hole counts as inside it.    *)
PassInclusive(m, offset, seg) ==
  IF m.done \/ offset < seg.sql_start THEN [m EXCEPT !.done = TRUE]
  ELSE IF offset <= seg.sql_start + seg.sql_len
    THEN [m EXCEPT !.done = TRUE, !.inside = TRUE]
  ELSE [m EXCEPT !.host = @ + seg.host_len, !.sql = @ + seg.sql_len]

Pass(m, offset, seg) ==
  IF m.done \/ offset < seg.sql_start THEN [m EXCEPT !.done = TRUE]
  ELSE IF offset < seg.sql_start + seg.sql_len
    THEN [m EXCEPT !.done = TRUE, !.inside = TRUE]
  ELSE [m EXCEPT !.host = @ + seg.host_len, !.sql = @ + seg.sql_len]

(* to_host, from the start of the string.                                  *)
ToHost(pieces, offset) ==
  LET m == FoldLeft(LAMBDA r, seg : Pass(r, offset, seg),
                    [host |-> 0, sql |-> 0, done |-> FALSE, inside |-> FALSE],
                    Segments(pieces))
  IN IF m.inside THEN InHole ELSE m.host + offset - m.sql

(* EmbeddedAnalyzer::analyze, for one diagnostic.                          *)
HostRange(pieces, start, end) ==
  LET s == ToHost(pieces, start)
      e == ToHost(pieces, end)
  IN IF s = InHole THEN {} ELSE {<<s, IF e = InHole THEN s ELSE e>>}
=============================================================================
