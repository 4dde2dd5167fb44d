------------------------------ MODULE MCFormatter ------------------------------
(* Small documents for Formatter: statements of the SQLite grammar with     *)
(* the instructions of their fmt blocks, and comments in their gaps.        *)
EXTENDS Formatter

K(w) == <<[k |-> "keyword", w |-> w]>>
Space == K(" ")
Span(i, j) == <<[k |-> "span", first |-> i, last |-> j]>>
Sep(w) == <<[k |-> "sep", w |-> w]>>
L == <<[k |-> "line"]>>
SL == <<[k |-> "softline"]>>
HL == <<[k |-> "hardline"]>>
G(s) == <<[k |-> "group"]>> \o s \o <<[k |-> "endgroup"]>>
N(s) == <<[k |-> "nest"]>> \o s \o <<[k |-> "endnest"]>>
Child(s) == <<[k |-> "child"]>> \o s \o <<[k |-> "ret"]>>
Col(i) == Child(Child(Span(i, i)))  \* ResultColumn, ColumnRef

(* SELECT a, b                                                              *)
Columns == [words |-> <<"SELECT", "a", ",", "b">>,
            ops |-> G(K("SELECT") \o G(N(L \o Child(Col(2) \o Sep(",") \o L \o Col(4)))))]
(* SELECT a WHERE b                                                         *)
Where == [words |-> <<"SELECT", "a", "WHERE", "b">>,
          ops |-> G(K("SELECT") \o G(N(L \o Child(Col(2))))
                    \o L \o K("WHERE") \o N(L \o Child(Span(4, 4))))]
(* VALUES (a), (b)                                                          *)
Row(i) == Child(G(K("(") \o N(SL \o Child(Child(Span(i, i)))) \o SL \o K(")")))
Values == [words |-> <<"VALUES", "(", "a", ")", ",", "(", "b", ")">>,
           ops |-> G(K("VALUES") \o N(L \o Child(Row(3) \o Sep(",") \o L \o Row(7))))]
(* VACUUM main                                                              *)
Vacuum == [words |-> <<"VACUUM", "main">>, ops |-> K("VACUUM") \o Space \o Span(2, 2)]
Empty == [words |-> <<>>, ops |-> <<>>]

(* SELECT 1 UNION SELECT 2                                                  *)
Arm(i) == G(K("SELECT") \o G(N(L \o Child(Col(i)))))
Compound == [words |-> <<"SELECT", "1", "UNION", "SELECT", "2">>,
             ops |-> Child(Arm(2)) \o HL \o K("UNION") \o HL \o G(Child(Arm(5)))]
(* SELECT CAST(a AS b c), a type of two words                               *)
Cast == [words |-> <<"SELECT", "CAST", "(", "a", "AS", "b", "c", ")">>,
         ops |-> G(K("SELECT") \o G(N(L \o Child(Child(Child(
           K("CAST") \o K("(") \o Child(Span(4, 4)) \o Space \o K("AS") \o Space
           \o Span(6, 7) \o K(")")))))))]
Ln == "line"
Bk == "block"
Br == "nl"

(* What may stand before a statement, between two of its tokens, and after  *)
(* the last of them: on the line of its semicolon, or up to the end of the  *)
(* document.                                                                *)
Before == {<<Ln, Br>>, <<Bk>>, <<Ln, Br, Br, Ln, Br>>, <<Bk, Br, Br>>}
Between == {<<Ln, Br>>, <<Br, Ln, Br>>, <<Bk>>, <<Bk, Br>>, <<Br, Bk, Br>>,
            <<Br, Br, Ln, Br>>, <<Br, Ln, Br, Br, Ln, Br>>, <<Ln, Br, Ln, Br>>,
            <<Bk, Ln, Br>>, <<Br, Br, Bk, Br, Ln, Br>>}
OnLine  == {<<Ln>>, <<Bk>>}
AtEOF   == {<<Ln>>, <<Br, Ln>>, <<Br, Br, Bk>>}

GapItems(n, g, gap) == [i \in DOMAIN gap |->
  IF gap[i] = Br THEN Nl ELSE [k |-> gap[i], id |-> <<n, g, i>>]]

(* Statement n of a document, with a layout for some of its gaps.           *)
Laid(n, shape, words, gaps) ==
  [text |-> FlattenSeq([i \in 1..(2 * Len(words) + 1) |->
      IF i % 2 = 0 THEN <<Word(words[i \div 2])>>
      ELSE LET g == (i - 1) \div 2 IN
           IF g \in DOMAIN gaps THEN GapItems(n, g, gaps[g]) ELSE <<>>]),
   ops |-> shape.ops]

Fills(g, last, end) ==
  CASE last = 0 -> OnLine
    [] last > 0 /\ g = 0 -> Before
    [] g > 0 /\ g < last -> Between
    [] g > 0 /\ g = last -> end
Layouts(last, end, comments) ==
  UNION {{gaps \in [G0 -> Before \cup Between \cup OnLine \cup AtEOF] :
            \A g \in G0 : gaps[g] \in Fills(g, last, end)} :
         G0 \in {S \in SUBSET (0..last) : Cardinality(S) <= comments}}

Closed(n, shape, comments) ==
  LET words == Append(shape.words, ";") IN
  {Laid(n, shape, words, gaps) : gaps \in Layouts(Len(words), OnLine, comments)}
Open(n, shape, comments) ==
  {Laid(n, shape, shape.words, gaps) :
     gaps \in Layouts(Len(shape.words), AtEOF, comments)}

Single(set) == {<<s>> : s \in set}
AllDocs ==
  Single(Open(1, Columns, 2) \cup Open(1, Where, 2) \cup Closed(1, Where, 1)
         \cup Closed(1, Columns, 2)
         \cup Open(1, Values, 2) \cup Open(1, Compound, 1) \cup Open(1, Cast, 1))
  \cup {<<s, r>> : s \in Closed(1, Vacuum, 1),
                   r \in Closed(2, Vacuum, 1) \cup Open(2, Vacuum, 2) \cup Open(2, Empty, 1)}
Wide == {4, 40}
NoPunctuation == {"(", ")", ",", ";", "."}
=============================================================================
