------------------------------ MODULE EmbeddedDocs ------------------------------
(***************************************************************************)
(* Documents with SQL in them, as they are typed: a script of the sqlite3  *)
(* shell, which the language server masks, highlights and formats, and a   *)
(* string of a program, whose diagnostics are mapped back to the program.  *)
(***************************************************************************)
EXTENDS EmbeddedSql, FiniteSets

CONSTANTS
  Line, PieceKind,     \* what is typed
  MaxLines, MaxPieces  \* bounds on the documents

VARIABLES lines, pieces
vars == <<lines, pieces>>

Init == lines = <<>> /\ pieces = <<>>

TypeLine ==
  /\ pieces = <<>> /\ Len(lines) < MaxLines
  /\ \E line \in Line : lines' = Append(lines, line)
  /\ UNCHANGED pieces

TypePiece ==
  /\ lines = <<>> /\ Len(pieces) < MaxPieces
  /\ \E p \in PieceKind : pieces' = Append(pieces, p)
  /\ UNCHANGED lines

Next == TypeLine \/ TypePiece
Spec == Init /\ [][Next]_vars

text      == Joined(lines)
scan      == Scan(lines)
fragments == scan.fragments

-----------------------------------------------------------------------------
UnitsOf(t) == FoldLeft(LAMBDA n, c : n + (IF c \in Wide THEN 2 ELSE 1), 0, t)

(* The position of the k-th character, by the definition of the protocol.  *)
TruePosition(t, k) ==
  LET breaks == {j \in 1..(k - 1) : t[j] = "nl"}
      before == IF breaks = {} THEN 0
                ELSE CHOOSE j \in breaks : \A i \in breaks : i <= j
  IN <<Cardinality(breaks), UnitsOf(SubSeq(t, before + 1, k - 1))>>

(* A batch of offsets, those inside a character and behind the end among   *)
(* them, becomes the positions at which the next characters start.         *)
PositionsAreUtf16 ==
  LET t == text
      ends == 1..(Len(t) + 1)
      all == [o \in 1..(BytesOf(t) + 2) |-> o - 1]
      found == Positions(t, all) IN
  \A k \in ends : LET here == Start(t, k)
                       p == TruePosition(t, k)
                       covered == IF k = 1 THEN {0}
                                  ELSE (Start(t, k - 1) + 1)..
                                         (IF k = Len(t) + 1 THEN here + 1 ELSE here) IN
    \A o \in covered : found[o + 1] = p

(* Whatever position a client sends, the offset is one at which a          *)
(* character starts, on the line asked for or the last one, and as far     *)
(* along it as was asked for or at its end.                                *)
OffsetsStayOnTheLine ==
  LET t == text
      n == Len(lines)
      Right(k, p, line, col) ==
        LET at_end == k = Len(t) + 1 \/ t[k] = "nl" IN
        /\ p[1] = IF line <= n THEN line ELSE n
        /\ line <= n => /\ p[2] >= col \/ at_end
                        /\ p[2] <= col \/ (p[2] = col + 1 /\ t[k - 1] \in Wide)
      spots == {<<k, Start(t, k), TruePosition(t, k)>> : k \in 1..(Len(t) + 1)} IN
  \A line \in 0..(n + 1), col \in 0..5 :
    LET offset == Offset(t, line, col) IN
    \E s \in spots : s[2] = offset /\ Right(s[1], s[3], line, col)

(* Positions and offsets are the ones the protocol speaks of, both ways.   *)
PositionsAreTheProtocols == PositionsAreUtf16 /\ OffsetsStayOnTheLine

-----------------------------------------------------------------------------
(* The tokens of the analysed document, in order.                          *)
TokensOf(t) ==
  FoldLeft(LAMBDA r, k :
             [lex |-> Lex(r.lex, k, t[k]),
              found |-> IF r.lex.mode = "code" /\ t[k] \notin Space \cup {"--", "/*"}
                        THEN Append(r.found,
                               [offset |-> Start(t, k), at |-> k,
                                category |-> IF t[k] = ";" THEN "punctuation" ELSE "word"])
                        ELSE r.found],
           [lex |-> Code, found |-> <<>>], [k \in DOMAIN t |-> k]).found

(* A client that reads the deltas finds every token of the script, and no  *)
(* other, where it is in the file the user sees, in any range it asks for. *)
TokensAreWhereTheyAre ==
  LET t == text
      tokens == TokensOf(Analyzable(lines)) IN
  \A from \in 1..(Len(lines) + 1) :
    LET range == <<Start(t, LineStart(lines, from)), BytesOf(t)>>
        sent == SelectSeq(tokens, LAMBDA k : Sent(k, range))
    IN Decoded(Encode(t, tokens, range))
         = [i \in DOMAIN sent |-> TruePosition(t, sent[i].at)]

-----------------------------------------------------------------------------
(* A semicolon at the end of a comment looks like the end of a statement,  *)
(* and an open comment or string runs on into the next fragment.           *)
Deceptive(f) ==
  LET s == Tokenized(text, f[1], f[2]) IN
  \/ s.mode \in {"block", "string"}
  \/ EndsInSemicolon(text, f) /\ s.last # ";"

(* The masked script has the statements of its fragments, each on its own. *)
MaskSeparates ==
  scan.is_shell =>
    LET masked == Analyzable(lines) IN
    Statements(masked, 1, Len(masked))
      = FlattenSeq([f \in DOMAIN fragments |->
                      Statements(text, fragments[f][1], fragments[f][2])])

(* The same where no fragment but the last looks terminated and is not.    *)
MaskSeparatesElsewhere ==
  (\E f \in 1..(Len(fragments) - 1) : Deceptive(fragments[f])) \/ MaskSeparates

(* A comment behind the last token of a statement moves behind the         *)
(* semicolon, where a line of it that starts like one of the shell's is    *)
(* taken for one.                                                          *)
HidesShellLine(f) ==
  \E k \in f[1]..(f[2] - 1) :
    /\ text[k] = "nl" /\ text[k + 1] \in {".", "#"}
    /\ Tokenized(text, f[1], k).mode = "block"

Blanks(ls) == Len(SelectSeq(ls, LAMBDA line : line = <<>>))
ShellLines(ls) ==
  LET outside(i) == ~Inside(Scan(ls).fragments, LineStart(ls, i)) IN
  SelectSeq([i \in DOMAIN ls |-> IF outside(i) THEN ls[i] ELSE <<>>],
            LAMBDA line : line # <<>>)

(* The statements of each fragment that has any, word by word.             *)
Contents(ls) ==
  LET t == Joined(ls)
      fs == Scan(ls).fragments
      words(statement) == [i \in DOMAIN statement |-> t[statement[i]]]
      of(f) == LET found == Statements(t, f[1], f[2]) IN
               [i \in DOMAIN found |-> words(found[i])]
  IN SelectSeq([i \in DOMAIN fs |-> of(fs[i])], LAMBDA c : c # <<>>)

(* The formatter writes a blank line between two statements, and leaves    *)
(* one where a fragment was nothing but semicolons.                        *)
BlanksWritten(f) ==
  LET n == Len(Formatted(text, f)) IN IF n = 0 THEN 1 ELSE n - 1


-----------------------------------------------------------------------------
(* Escaped braces and accented letters are not known to the map: what is   *)
(* behind them in a string is not followed.                                *)
Exact(n) ==
  \A i \in 1..n : Hole(pieces[i]) \/ HostLength(pieces[i]) = SqlLength(pieces[i])

(* A diagnostic about some pieces covers these pieces in the program,      *)
(* whatever the lengths of the holes before and among them; one that       *)
(* starts in a hole is dropped.  An end where a hole starts is taken to be *)
(* in the hole: then the diagnostic is shown where it starts, and how far  *)
(* it reaches is not followed (EmbeddedAnalyzer::analyze, to_host).        *)
DiagnosticsCoverTheirText ==
  \A i, j \in DOMAIN pieces : i <= j =>
    LET found == HostRange(pieces, SqlStart(pieces, i), SqlStart(pieces, j + 1))
        at == HostStart(pieces, i)
        before_hole == j < Len(pieces) /\ Hole(pieces[j + 1]) IN
    /\ Hole(pieces[i]) => found = {}
    /\ ~Hole(pieces[i]) /\ Exact(i - 1) =>
         Cardinality(found) = 1 /\ \A r \in found : r[1] = at
    /\ ~Hole(pieces[i]) /\ Exact(j) /\ ~before_hole =>
         found = {<<at, HostStart(pieces, j + 1)>>}
=============================================================================
