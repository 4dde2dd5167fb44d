---------------------------- MODULE LineageProofs ----------------------------
(***************************************************************************)
(* Proofs about Lineage: what is shown of a query is what it means, for    *)
(* every schema, every list of results, and any nesting.                   *)
(*                                                                         *)
(* A summary is made when its query is left, from what was captured while  *)
(* it was walked; the sources captured refer to the summaries of queries   *)
(* left before.  So the invariant Inv says of everything the capture keeps *)
(* that it agrees with what the walk has seen:                             *)
(*   Framed       a source in the frame of an open query is faithful to    *)
(*                the item of its FROM clause it was captured for, if no   *)
(*                later item took its name;                                *)
(*   BodiesKnown  the summary of a nested query that was left says what    *)
(*                the query means;                                         *)
(*   Scoped       the flat map of CTE bodies and the scopes of the walk    *)
(*                bind the same names, to the same queries;                *)
(*   OuterKnown   no query is taken for the statement's before its own;    *)
(* and Shaped is how the walk's activations nest and are numbered, which   *)
(* keeps the frames of open queries apart and their summaries unwritten.   *)
(*                                                                         *)
(* Each action has a lemma that it keeps Inv.  The two that matter are     *)
(* Classified, that a name of a FROM clause is captured as what it means   *)
(* where it stands, and FinalizedIsTrue, that the summary made of faithful *)
(* sources is what the query means.  Inv holds as long as no WITH clause   *)
(* and no compound stands where the capture misplaces it (`simple`).       *)
(***************************************************************************)
EXTENDS Lineage, SequenceLemmas

Bodies == [id : Node, meaning : Meanings]
Items  == [name : {NoName} \cup Name, meaning : Meanings]
Activations ==
  [node : {"query", "source", "compound", "with", "cte"},
   id : {None} \cup Node,
   part : {"from", "columns", "body", "bindings"},
   items : Seq(Items), bodies : Seq(Bodies),
   name : {NoName} \cup Name, declared : Names]

Typed ==
  /\ stack \in Seq([node : Node, sources : [Name -> {None} \cup Sources]])
  /\ cte_bodies \in [Name -> {None} \cup Node]
  /\ per_query \in [Node -> {None} \cup Summaries]
  /\ outer_query \in {None} \cup Node
  /\ walk \in Seq(Activations)
  /\ ctes \in Seq([Name -> {None} \cup Meanings])
  /\ made \in 0..MaxNodes
  /\ meant \in [Node -> {None} \cup Meanings]
  /\ main \in {None} \cup Node

(* Of the summaries, that of q says what m means. *)
Summarised(summaries, q, m) ==
  /\ q \in Node /\ summaries[q] # None
  /\ summaries[q].columns = m.columns
  /\ summaries[q].relations = m.relations
  /\ summaries[q].complete = m.whole
  /\ m.names # Unknown => summaries[q].column_names = m.names

(* When its names are known they are those of its columns. *)
NamesItsColumns(m) == m.names # Unknown =>
  /\ Len(m.names) = Len(m.columns)
  /\ \A i \in 1..Len(m.names) : m.names[i] = m.columns[i].name

(* What may be walked under what, in a simple statement. *)
Under(parent, child) ==
  CASE child.node = "query" ->
         \/ parent.node \in {"source", "cte", "compound"}
         \/ parent.node = "query" /\ parent.part = "columns"
         \/ parent.node = "with" /\ parent.part = "body"
    [] child.node = "source" -> parent.node = "query" /\ parent.part = "from"
    [] child.node = "cte" -> parent.node = "with" /\ parent.part = "bindings"
    [] child.node = "compound" ->
         parent.node = "source" \/ (parent.node = "with" /\ parent.part = "body")
    [] child.node = "with" -> FALSE

Shaped ==
  /\ \A d \in 1..(Depth - 1) : Under(walk[d], walk[d + 1])
  /\ \A d \in 1..Depth :
       /\ walk[d].node = "query" =>
            /\ walk[d].id \in 1..made
            /\ per_query[walk[d].id] = None
       /\ walk[d].node = "compound" => walk[d].id \in 1..made
       /\ walk[d].node = "with" => d = 1
       /\ walk[d].node \in {"source", "cte"} => d # 1
       /\ walk[d].node = "cte" => walk[d].name \in Name
       /\ \A k \in 1..Len(walk[d].bodies) : walk[d].bodies[k].id <= made
  /\ \A d, e \in 1..Depth :
       walk[d].node = "query" /\ walk[e].node = "query" /\ d < e => walk[d].id < walk[e].id
  /\ \A q \in Node : q > made => per_query[q] = None

(* The statement has a WITH clause, which is being walked. *)
InWith == walk # <<>> /\ walk[1].node = "with"

(* A name is bound whose body comes next. *)
BodyDue == Depth = 2 /\ walk[2].node = "cte" /\ walk[2].bodies = <<>>

Scoped ==
  /\ IF InWith THEN Len(ctes) = 1 ELSE ctes = <<>>
  /\ ~InWith /\ (walk # <<>> \/ made = 0) => \A n \in Name : cte_bodies[n] = None
  /\ InWith => \A n \in Name :
       /\ cte_bodies[n] = None <=> ctes[1][n] = None
       /\ ctes[1][n] # None =>
            /\ NamesItsColumns(ctes[1][n])
            /\ ctes[1][n].followed => Summarised(per_query, cte_bodies[n], ctes[1][n])
  /\ \A n \in Name : cte_bodies[n] # None =>
       cte_bodies[n] <= made \/ (BodyDue /\ n = walk[2].name)
  /\ Depth > 1 /\ walk[2].node = "cte" =>
       /\ cte_bodies[walk[2].name] =
            IF walk[2].bodies # <<>> THEN walk[2].bodies[1].id
            ELSE IF Depth = 2 THEN made + 1 ELSE walk[3].id
       /\ Depth > 2 => walk[2].bodies = <<>>

KnownBody(summaries, b) ==
  /\ NamesItsColumns(b.meaning)
  /\ b.meaning.followed => Summarised(summaries, b.id, b.meaning)

BodiesKnown ==
  \A d \in 1..Depth : \A k \in 1..Len(walk[d].bodies) : KnownBody(per_query, walk[d].bodies[k])

(* A source s that was captured for what means m. *)
Faithful(summaries, s, m) ==
  /\ s \in Sources
  /\ m.names # Unknown => s.columns = m.names
  /\ \/ s.kind = "nested" /\ Summarised(summaries, s.body, m)
     \/ s.kind = Schema[s.canonical].kind /\ m = OfRelation(s.canonical)

FrameKnown(summaries, items, sources) ==
  /\ \A n \in Name : sources[n] # None => \E j \in 1..Len(items) : items[j].name = n
  /\ \A j \in 1..Len(items) :
       /\ NamesItsColumns(items[j].meaning)
       /\ items[j].meaning.followed /\ items[j].name # NoName
            /\ (\A k \in 1..Len(items) : k > j => items[k].name # items[j].name)
          => Faithful(summaries, sources[items[j].name], items[j].meaning)

Framed ==
  /\ \A i \in 1..Len(stack) :
       \E d \in 1..Depth : walk[d].node = "query" /\ walk[d].id = stack[i].node
  /\ \A d \in 1..Depth : walk[d].node = "query" =>
       \E i \in 1..Len(stack) : walk[d].id = stack[i].node
  /\ \A i, j \in 1..Len(stack) : i < j => stack[i].node < stack[j].node
  /\ \A d \in 1..Depth, i \in 1..Len(stack) :
       walk[d].node = "query" /\ walk[d].id = stack[i].node =>
         FrameKnown(per_query, walk[d].items, stack[i].sources)

(* The statement's own query is still to come. *)
BeforeMain ==
  \/ walk = <<>> /\ made = 0
  \/ /\ InWith
     /\ walk[1].part = "bindings" \/ (Depth = 1 /\ walk[1].bodies = <<>>)

OuterKnown ==
  /\ main # None => outer_query = main
  /\ BeforeMain => outer_query = None

-----------------------------------------------------------------------------
(* What a star expands to *)

(* An expansion of the FROM clause: what is known is a column of an item.   *)
Found(items) ==
  {x \in [item : Nat, name : {Unknown} \cup Column, at : Nat] :
     Known(x) =>
       /\ x.item \in 1..Len(items)
       /\ items[x.item].meaning.names # Unknown
       /\ x.at \in 1..Len(items[x.item].meaning.names)
       /\ x.name = items[x.item].meaning.names[x.at]}

Means(m) == m \in Meanings /\ NamesItsColumns(m)

Mean(items) ==
  items \in Seq(Items) /\ \A j \in 1..Len(items) : Means(items[j].meaning)

LEMMA UnknownFound ==
  ASSUME NEW items, NEW j \in Nat
  PROVE  <<[item |-> j, name |-> Unknown, at |-> 0]>> \in Seq(Found(items))
<1>1. [item |-> j, name |-> Unknown, at |-> 0] \in Found(items)
  BY DEF Found, Known
<1> QED BY <1>1

LEMMA ItemColumnsFound ==
  ASSUME NEW items \in Seq(Items), NEW j \in 1..Len(items)
  PROVE  ItemColumns(items, j) \in Seq(Found(items))
<1> DEFINE names == items[j].meaning.names
<1>0. items[j] \in Items
  OBVIOUS
<1>1. names \in Names
  BY <1>0 DEF Items, Meanings
<1>2. CASE names = Unknown
  BY <1>2, UnknownFound DEF ItemColumns
<1>3. CASE names # Unknown
  <2>1. names \in Seq(Column)
    BY <1>1, <1>3 DEF Names
  <2> DEFINE s == [i \in 1..Len(names) |-> [item |-> j, name |-> names[i], at |-> i]]
  <2>2. ItemColumns(items, j) = s
    BY <1>3, <2>1 DEF ItemColumns
  <2>3. ASSUME NEW i \in 1..Len(names)
        PROVE  [item |-> j, name |-> names[i], at |-> i] \in Found(items)
    <3>1. names[i] \in Column /\ i \in Nat /\ j \in Nat
      BY <2>1
    <3> QED BY <1>3, <3>1 DEF Found
  <2>4. Len(names) \in Nat
    BY <2>1
  <2>5. s \in [1..Len(names) -> Found(items)]
    BY <2>3
  <2> HIDE DEF s
  <2> QED BY <2>2, <2>4, <2>5, FunctionIsSequence
<1> QED BY <1>2, <1>3

LEMMA ExpansionFound ==
  ASSUME NEW items \in Seq(Items), NEW c
  PROVE  Expansion(items, c) \in Seq(Found(items))
<1>1. NoFrom \in Seq(Found(items))
  BY UnknownFound DEF NoFrom
<1>2. StarColumns(items) \in Seq(Found(items))
  <2> DEFINE parts == [j \in DOMAIN items |-> ItemColumns(items, j)]
  <2>1. DOMAIN items = 1..Len(items) /\ Len(items) \in Nat
    OBVIOUS
  <2>2. parts \in [1..Len(items) -> Seq(Found(items))]
    BY <2>1, ItemColumnsFound
  <2> HIDE DEF parts
  <2>3. parts \in Seq(Seq(Found(items)))
    BY <2>1, <2>2, FunctionIsSequence
  <2>4. FlattenSeq(parts) \in Seq(Found(items))
    BY <2>3, FlattenType
  <2> QED BY <2>4 DEF parts, StarColumns
<1> DEFINE named == {j \in DOMAIN items : items[j].name = c.table}
           first == CHOOSE j \in named : \A k \in named : j <= k
<1>3. CASE named # {}
  <2>1. named \in SUBSET Nat /\ named \subseteq 1..Len(items)
    OBVIOUS
  <2>2. first \in named
    <3> HIDE DEF named
    <3> QED BY <1>3, <2>1, LeastNat
  <2>3. ItemColumns(items, first) \in Seq(Found(items))
    <3> HIDE DEF first, named
    <3> QED BY <2>1, <2>2, ItemColumnsFound
  <2> QED BY <1>1, <1>2, <1>3, <2>3 DEF Expansion
<1>4. CASE named = {}
  BY <1>1, <1>2, <1>4 DEF Expansion
<1> QED BY <1>3, <1>4

LEMMA FoundColumn ==
  ASSUME NEW items, Mean(items), NEW x \in Found(items), Known(x)
  PROVE  LET m == items[x.item].meaning IN
         /\ x.item \in 1..Len(items) /\ Means(m) /\ m.names # Unknown
         /\ x.at \in 1..Len(m.names) /\ x.name = m.names[x.at]
         /\ m.columns[x.at] \in [name : Column, origin : Origins]
         /\ m.columns[x.at].name = x.name
<1> DEFINE m == items[x.item].meaning
<1>1. /\ x.item \in 1..Len(items) /\ m.names # Unknown
      /\ x.at \in 1..Len(m.names) /\ x.name = m.names[x.at]
  BY DEF Found
<1>2. Means(m)
  BY <1>1 DEF Mean
<1> HIDE DEF m
<1>3. m.columns \in Columns /\ x.at \in 1..Len(m.columns) /\ m.names[x.at] = m.columns[x.at].name
  BY <1>1, <1>2 DEF Means, NamesItsColumns, Meanings
<1>4. m.columns[x.at] \in [name : Column, origin : Origins]
  <2>1. \A C : \A s \in Seq(C) : \A i \in 1..Len(s) : s[i] \in C
    OBVIOUS
  <2> QED BY <1>3, <2>1 DEF Columns
<1>5. /\ x.item \in 1..Len(items) /\ Means(m) /\ m.names # Unknown
      /\ x.at \in 1..Len(m.names) /\ x.name = m.names[x.at]
      /\ m.columns[x.at] \in [name : Column, origin : Origins]
      /\ m.columns[x.at].name = x.name
  BY <1>1, <1>2, <1>3, <1>4
<1> QED BY <1>5 DEF m

-----------------------------------------------------------------------------
(* The columns a list of results means, and their names *)

AColumn == [name : Column, origin : Origins]

LEMMA TrueStarType ==
  ASSUME NEW items, Mean(items), NEW c
  PROVE  TrueStar(items, c) \in Seq(AColumn)
<1> DEFINE all == Expansion(items, c)
           part == [k \in DOMAIN all |->
             IF Known(all[k]) THEN <<items[all[k].item].meaning.columns[all[k].at]>>
             ELSE <<>>]
<1>1. all \in Seq(Found(items))
  BY ExpansionFound DEF Mean
<1> HIDE DEF all
<1>2. DOMAIN all = 1..Len(all) /\ Len(all) \in Nat
  BY <1>1
<1>3. ASSUME NEW k \in 1..Len(all)
      PROVE  part[k] \in Seq(AColumn)
  <2>1. all[k] \in Found(items)
    BY <1>1
  <2>2. part[k] = IF Known(all[k]) THEN <<items[all[k].item].meaning.columns[all[k].at]>>
                  ELSE <<>>
    BY <1>2
  <2>3. CASE Known(all[k])
    <3>1. items[all[k].item].meaning.columns[all[k].at] \in AColumn
      BY <2>1, <2>3, FoundColumn DEF AColumn
    <3> HIDE DEF part
    <3> QED BY <2>2, <2>3, <3>1
  <2>4. CASE ~Known(all[k])
    <3> HIDE DEF part
    <3> QED BY <2>2, <2>4
  <2> QED BY <2>3, <2>4
<1>4. part = [k \in 1..Len(all) |-> part[k]]
  BY <1>2
<1> HIDE DEF part
<1>5. part \in [1..Len(all) -> Seq(AColumn)]
  BY <1>3, <1>4
<1>6. part \in Seq(Seq(AColumn))
  BY <1>2, <1>5, FunctionIsSequence
<1>7. FlattenSeq(part) \in Seq(AColumn)
  BY <1>6, FlattenType
<1> QED BY <1>7 DEF part, TrueStar, all

(* Elements with the same name. *)
SameName(X, Y) == {p \in X \X Y : p[1].name = p[2].name}

LEMMA SameNames ==
  ASSUME NEW X, NEW Y, NEW S, NEW x \in Seq(S), NEW y, Related(SameName(X, Y), x, y)
  PROVE  /\ Len(x) = Len(y) /\ Len(x) \in Nat
         /\ \A k \in 1..Len(x) : x[k].name = y[k].name
<1>1. \A u, v : <<u, v>> \in SameName(X, Y) => u.name = v.name
  BY DEF SameName
<1>2. \A k \in 1..Len(x) : <<x[k], y[k]>> \in SameName(X, Y)
  BY DEF Related
<1>3. \A k \in 1..Len(x) : x[k].name = y[k].name
  BY <1>1, <1>2
<1>4. Len(x) = Len(y)
  BY DEF Related
<1> QED BY <1>3, <1>4

LEMMA TrueStarNames ==
  ASSUME NEW items, Mean(items), NEW c, NEW X,
         Expansion(items, c) \in Seq({x \in Found(items) : Known(x)}),
         Expansion(items, c) \in Seq(X)
  PROVE  Related(SameName(X, AColumn), Expansion(items, c), TrueStar(items, c))
<1> DEFINE all == Expansion(items, c)
           col(k) == items[all[k].item].meaning.columns[all[k].at]
           s == [k \in 1..Len(all) |-> col(k)]
           part == [k \in DOMAIN all |-> IF Known(all[k]) THEN <<col(k)>> ELSE <<>>]
<1>1. DOMAIN all = 1..Len(all) /\ Len(all) \in Nat
  OBVIOUS
<1>2. TrueStar(items, c) = FlattenSeq(part)
  BY DEF TrueStar
<1>3. ASSUME NEW k \in 1..Len(all)
      PROVE  /\ all[k] \in X /\ Known(all[k])
             /\ col(k) \in AColumn /\ col(k).name = all[k].name
  <2>1. all[k] \in Found(items) /\ Known(all[k]) /\ all[k] \in X
    <3>1. \A C : \A q \in Seq(C) : \A i \in 1..Len(q) : q[i] \in C
      OBVIOUS
    <3>2. all[k] \in {x \in Found(items) : Known(x)}
      <4> HIDE DEF all
      <4> QED BY <3>1 DEF all
    <3>3. all[k] \in X
      <4> HIDE DEF all
      <4> QED BY <3>1 DEF all
    <3> QED BY <3>2, <3>3
  <2> HIDE DEF all
  <2>2. col(k) \in AColumn /\ col(k).name = all[k].name
    BY <2>1, FoundColumn DEF AColumn
  <2> QED BY <2>1, <2>2
<1> HIDE DEF all, col
<1>4. part = [k \in 1..Len(all) |-> <<s[k]>>]
  BY <1>1, <1>3
<1>5. s \in Seq(AColumn) /\ Len(s) = Len(all) /\ \A k \in 1..Len(all) : s[k] = col(k)
  <2>1. s \in [1..Len(all) -> AColumn] /\ \A k \in 1..Len(all) : s[k] = col(k)
    BY <1>3
  <2> HIDE DEF s
  <2> QED BY <1>1, <2>1, FunctionIsSequence
<1> HIDE DEF s, part
<1>6. FlattenSeq(part) = s
  BY <1>4, <1>5, FlattenSingles
<1>7. Related(SameName(X, AColumn), all, s)
  BY <1>3, <1>5 DEF Related, SameName
<1> QED BY <1>2, <1>6, <1>7 DEF all

Result ==
  [kind : {"star", "expression"}, table : {NoName} \cup Name,
   column : {None}, as : Column] \cup
  [kind : {"ref"}, table : {NoName} \cup Name, column : Column, as : Column]

LEMMA ResultList ==
  ASSUME NEW list \in Results
  PROVE  /\ list \in Seq(Result) /\ Len(list) \in Nat /\ DOMAIN list = 1..Len(list)
         /\ \A i \in 1..Len(list) : list[i] \in Result /\ list[i].as \in Column
<1>1. list \in Seq(Result)
  BY LineageAssumption DEF Result
<1>2. \A i \in 1..Len(list) : list[i] \in Result
  <2> HIDE DEF Result
  <2> QED BY <1>1
<1>3. \A c \in Result : c.as \in Column
  BY DEF Result
<1>4. Len(list) \in Nat /\ DOMAIN list = 1..Len(list)
  <2> HIDE DEF Result
  <2> QED BY <1>1
<1> QED BY <1>1, <1>2, <1>3, <1>4

LEMMA OwnersOne ==
  ASSUME NEW items \in Seq(Items), NEW c, Cardinality(Owners(items, c)) = 1
  PROVE  \E j \in 1..Len(items) :
           /\ Owners(items, c) = {j} /\ j \in Candidates(items, c)
           /\ items[j].meaning.names # Unknown
           /\ c.column \in ToSet(items[j].meaning.names)
<1>1. Owners(items, c) \subseteq 1..Len(items)
  BY DEF Owners, Candidates
<1>2. IsFiniteSet(Owners(items, c))
  <2>1. IsFiniteSet(1..Len(items))
    BY FS_Interval
  <2> QED BY <1>1, <2>1, FS_Subset
<1>3. PICK j : Owners(items, c) = {j}
  BY <1>2, FS_Singleton
<1>4. j \in Owners(items, c)
  BY <1>3
<1> QED BY <1>1, <1>3, <1>4 DEF Owners

(* The column of a meaning with a name, and the first of them.              *)
LEMMA ColumnNamed ==
  ASSUME NEW m, Means(m), m.names # Unknown, NEW n \in ToSet(m.names)
  PROVE  LET i == CHOOSE i \in DOMAIN m.columns : m.columns[i].name = n IN
         /\ i \in 1..Len(m.names) /\ i \in DOMAIN m.columns
         /\ m.names[i] = n /\ m.columns[i].name = n
         /\ m.columns[i] \in AColumn
<1>1. m.names \in Seq(Column) /\ m.columns \in Seq(AColumn)
  BY DEF Means, Meanings, Names, Columns, AColumn
<1>2. /\ DOMAIN m.names = 1..Len(m.names) /\ DOMAIN m.columns = 1..Len(m.names)
      /\ \A i \in 1..Len(m.names) : m.names[i] = m.columns[i].name
      /\ \A i \in 1..Len(m.names) : m.columns[i] \in AColumn
  BY <1>1 DEF Means, NamesItsColumns
<1>3. PICK k \in DOMAIN m.columns : m.columns[k].name = n
  BY <1>2 DEF ToSet
<1> DEFINE i == CHOOSE i \in DOMAIN m.columns : m.columns[i].name = n
<1>4. i \in DOMAIN m.columns /\ m.columns[i].name = n
  BY <1>3
<1> HIDE DEF i
<1>5. /\ i \in 1..Len(m.names) /\ i \in DOMAIN m.columns
      /\ m.names[i] = n /\ m.columns[i].name = n /\ m.columns[i] \in AColumn
  BY <1>2, <1>4
<1> QED BY <1>5 DEF i

LEMMA TrueOriginType ==
  ASSUME NEW items, Mean(items), NEW c
  PROVE  TrueOrigin(items, c) \in Origins
<1>1. CASE c.kind = "expression" \/ Cardinality(Owners(items, c)) # 1
  BY <1>1 DEF TrueOrigin, Origins
<1>2. CASE ~(c.kind = "expression" \/ Cardinality(Owners(items, c)) # 1)
  <2>1. PICK j \in 1..Len(items) :
           /\ Owners(items, c) = {j}
           /\ items[j].meaning.names # Unknown
           /\ c.column \in ToSet(items[j].meaning.names)
    BY <1>2, OwnersOne DEF Mean
  <2>2. (CHOOSE k \in Owners(items, c) : TRUE) = j
    BY <2>1
  <2>3. Means(items[j].meaning)
    BY DEF Mean
  <2> DEFINE m == items[j].meaning
             i == CHOOSE i \in DOMAIN m.columns : m.columns[i].name = c.column
  <2>4. TrueOrigin(items, c) = m.columns[i].origin
    BY <1>2, <2>2 DEF TrueOrigin
  <2>5. m.columns[i] \in AColumn
    BY <2>1, <2>3, ColumnNamed, ZenonT(30)
  <2> HIDE DEF m, i
  <2> QED BY <2>4, <2>5 DEF AColumn
<1> QED BY <1>1, <1>2

TruePart(items, c) ==
  IF c.kind = "star" THEN TrueStar(items, c)
  ELSE <<[name |-> c.as, origin |-> TrueOrigin(items, c)]>>

LEMMA TruePartType ==
  ASSUME NEW items, Mean(items), NEW list \in Results
  PROVE  /\ [i \in 1..Len(list) |-> TruePart(items, list[i])] \in Seq(Seq(AColumn))
         /\ TrueColumns(items, list)
              = FlattenSeq([i \in 1..Len(list) |-> TruePart(items, list[i])])
         /\ TrueColumns(items, list) \in Seq(AColumn)
<1> DEFINE part == [i \in 1..Len(list) |-> TruePart(items, list[i])]
<1>1. Len(list) \in Nat /\ DOMAIN list = 1..Len(list)
  BY ResultList
<1>2. ASSUME NEW i \in 1..Len(list)
      PROVE  TruePart(items, list[i]) \in Seq(AColumn)
  <2>1. CASE list[i].kind = "star"
    BY <2>1, TrueStarType DEF TruePart
  <2>2. CASE list[i].kind # "star"
    <3>1. [name |-> list[i].as, origin |-> TrueOrigin(items, list[i])] \in AColumn
      BY ResultList, TrueOriginType DEF AColumn
    <3> QED BY <2>2, <3>1 DEF TruePart
  <2> QED BY <2>1, <2>2
<1>3. part \in [1..Len(list) -> Seq(AColumn)]
  BY <1>2
<1>4. TrueColumns(items, list) = FlattenSeq(part)
  BY <1>1 DEF TrueColumns, TruePart
<1> HIDE DEF part
<1>5. part \in Seq(Seq(AColumn))
  BY <1>1, <1>3, FunctionIsSequence
<1>6. FlattenSeq(part) \in Seq(AColumn)
  BY <1>5, FlattenType
<1> QED BY <1>4, <1>5, <1>6 DEF part

(* What result_columns names, before it asks whether all is known.          *)
NamedPart(items, c) ==
  IF c.kind = "star" THEN Expansion(items, c) ELSE <<[name |-> c.as]>>

Named(items) == Found(items) \cup [name : Column]

LEMMA NamedPartType ==
  ASSUME NEW items \in Seq(Items), NEW list \in Results
  PROVE  /\ [i \in 1..Len(list) |-> NamedPart(items, list[i])] \in Seq(Seq(Named(items)))
         /\ ResultNames(items, list) =
              LET all == FlattenSeq([i \in 1..Len(list) |-> NamedPart(items, list[i])])
              IN IF \E i \in DOMAIN all : all[i].name = Unknown THEN Unknown
                 ELSE [i \in DOMAIN all |-> all[i].name]
<1> DEFINE part == [i \in 1..Len(list) |-> NamedPart(items, list[i])]
<1>1. Len(list) \in Nat /\ DOMAIN list = 1..Len(list)
  BY ResultList
<1>2. ASSUME NEW i \in 1..Len(list)
      PROVE  NamedPart(items, list[i]) \in Seq(Named(items))
  <2>1. CASE list[i].kind = "star"
    <3>1. Expansion(items, list[i]) \in Seq(Found(items))
      BY ExpansionFound
    <3>2. Expansion(items, list[i]) \in Seq(Named(items))
      <4>1. \A A, B : A \subseteq B => Seq(A) \subseteq Seq(B)
        OBVIOUS
      <4>2. Found(items) \subseteq Named(items)
        BY DEF Named
      <4> QED BY <3>1, <4>1, <4>2
    <3> QED BY <2>1, <3>2 DEF NamedPart
  <2>2. CASE list[i].kind # "star"
    <3>1. [name |-> list[i].as] \in Named(items)
      BY ResultList DEF Named
    <3> QED BY <2>2, <3>1 DEF NamedPart
  <2> QED BY <2>1, <2>2
<1>3. part \in [1..Len(list) -> Seq(Named(items))]
  BY <1>2
<1>4. ResultNames(items, list) =
        LET all == FlattenSeq(part)
        IN IF \E i \in DOMAIN all : all[i].name = Unknown THEN Unknown
           ELSE [i \in DOMAIN all |-> all[i].name]
  BY <1>1 DEF ResultNames, NamedPart
<1> HIDE DEF part
<1>5. part \in Seq(Seq(Named(items)))
  BY <1>1, <1>3, FunctionIsSequence
<1> QED BY <1>4, <1>5 DEF part

(* The names known for a query are those of the columns it means.           *)
LEMMA ResultNamesAreTheirs ==
  ASSUME NEW items, Mean(items), NEW list \in Results,
         ResultNames(items, list) # Unknown
  PROVE  LET names == ResultNames(items, list)
             columns == TrueColumns(items, list) IN
         /\ names \in Seq(Column) /\ Len(names) = Len(columns)
         /\ \A i \in 1..Len(names) : names[i] = columns[i].name
<1> DEFINE q == [i \in 1..Len(list) |-> NamedPart(items, list[i])]
           r == [i \in 1..Len(list) |-> TruePart(items, list[i])]
           all == FlattenSeq(q)
           X == {x \in Named(items) : x.name # Unknown}
<1>1. /\ Len(list) \in Nat /\ items \in Seq(Items)
      /\ Len(q) = Len(list) /\ Len(r) = Len(list)
      /\ \A i \in 1..Len(list) : q[i] = NamedPart(items, list[i])
      /\ \A i \in 1..Len(list) : r[i] = TruePart(items, list[i])
  BY ResultList DEF Mean
<1>2. /\ q \in Seq(Seq(Named(items)))
      /\ ResultNames(items, list) =
           IF \E i \in DOMAIN all : all[i].name = Unknown THEN Unknown
           ELSE [i \in DOMAIN all |-> all[i].name]
  BY <1>1, NamedPartType
<1>3. r \in Seq(Seq(AColumn)) /\ TrueColumns(items, list) = FlattenSeq(r)
  BY TruePartType
<1> HIDE DEF q, r
<1>4. all \in Seq(Named(items))
  BY <1>2, FlattenType
<1>5. all \in Seq(X) /\ ResultNames(items, list) = [i \in 1..Len(all) |-> all[i].name]
  <2>1. \A i \in DOMAIN all : all[i].name # Unknown
    BY <1>2
  <2>2. DOMAIN all = 1..Len(all)
    <3> HIDE DEF all
    <3> QED BY <1>4
  <2>3. \A i \in 1..Len(all) : all[i] \in X
    <3> HIDE DEF all
    <3> QED BY <1>4, <2>1, <2>2
  <2>4. all \in Seq(X)
    <3> HIDE DEF all, X
    <3> QED BY <1>4, <2>3, SeqOfElements
  <2> QED BY <1>2, <2>1, <2>2, <2>4
<1>6. \A i \in 1..Len(q) : q[i] \in Seq(X)
  <2> HIDE DEF X
  <2> QED BY <1>2, <1>5, FlattenElements
<1>7. ASSUME NEW i \in 1..Len(q)
      PROVE  Related(SameName(Named(items), AColumn), q[i], r[i])
  <2>1. i \in 1..Len(list)
    BY <1>1
  <2>2. CASE list[i].kind = "star"
    <3> DEFINE e == Expansion(items, list[i])
    <3>1. q[i] = e /\ r[i] = TrueStar(items, list[i])
      BY <1>1, <2>1, <2>2 DEF NamedPart, TruePart
    <3>2. e \in Seq(Found(items)) /\ e \in Seq(X)
      BY <1>1, <1>6, <3>1, ExpansionFound
    <3> HIDE DEF e
    <3>3. e \in Seq({x \in Found(items) : Known(x)})
      <4>1. \A k \in 1..Len(e) : e[k] \in Found(items) /\ e[k] \in X
        <5>1. \A C : \A s \in Seq(C) : \A k \in 1..Len(s) : s[k] \in C
          OBVIOUS
        <5> HIDE DEF X
        <5> QED BY <3>2, <5>1
      <4>2. \A k \in 1..Len(e) : e[k] \in {x \in Found(items) : Known(x)}
        BY <4>1 DEF Known
      <4> QED BY <3>2, <4>2, SeqOfElements
    <3>4. e \in Seq(Named(items))
      <4>1. \A k \in 1..Len(e) : e[k] \in Named(items)
        <5>1. \A k \in 1..Len(e) : e[k] \in Found(items)
          BY <3>2
        <5> QED BY <5>1 DEF Named
      <4> QED BY <3>2, <4>1, SeqOfElements
    <3> QED BY <3>1, <3>3, <3>4, TrueStarNames DEF e
  <2>3. CASE list[i].kind # "star"
    <3> DEFINE u == [name |-> list[i].as]
               v == [name |-> list[i].as, origin |-> TrueOrigin(items, list[i])]
    <3>1. q[i] = <<u>> /\ r[i] = <<v>>
      BY <1>1, <2>1, <2>3 DEF NamedPart, TruePart
    <3>2. u \in Named(items) /\ v \in AColumn /\ u.name = v.name
      BY <2>1, ResultList, TrueOriginType DEF Named, AColumn
    <3> HIDE DEF u, v
    <3>3. <<u, v>> \in SameName(Named(items), AColumn)
      BY <3>2 DEF SameName
    <3>4. Len(<<u>>) = 1 /\ Len(<<v>>) = 1 /\ \A k \in 1..1 : <<u>>[k] = u /\ <<v>>[k] = v
      OBVIOUS
    <3> QED BY <3>1, <3>3, <3>4 DEF Related
  <2> QED BY <2>2, <2>3
<1>8. Related(SameName(Named(items), AColumn), all, FlattenSeq(r))
  <2>1. Len(q) = Len(r)
    BY <1>1
  <2> QED BY <1>2, <1>3, <1>7, <2>1, FlattenRelated
<1> HIDE DEF all
<1>9. /\ Len(all) = Len(FlattenSeq(r)) /\ Len(all) \in Nat
      /\ \A k \in 1..Len(all) : all[k].name = FlattenSeq(r)[k].name
  BY <1>4, <1>8, SameNames
<1>10. \A k \in 1..Len(all) : all[k].name \in Column
  <2>1. ASSUME NEW x \in X
        PROVE  x.name \in Column
    BY DEF Named, Found
  <2>2. \A k \in 1..Len(all) : all[k] \in X
    <3> HIDE DEF X
    <3> QED BY <1>5
  <2> QED BY <2>1, <2>2
<1> DEFINE names == [i \in 1..Len(all) |-> all[i].name]
<1>11. names \in Seq(Column) /\ Len(names) = Len(all)
  <2>1. names \in [1..Len(all) -> Column]
    BY <1>10
  <2> HIDE DEF names
  <2> QED BY <1>9, <2>1, FunctionIsSequence
<1>12. \A i \in 1..Len(all) : names[i] = all[i].name
  OBVIOUS
<1> QED BY <1>3, <1>5, <1>9, <1>11, <1>12

LEMMA QueryMeaningType ==
  ASSUME NEW items, Mean(items), NEW list \in Results
  PROVE  Means(QueryMeaning(items, list))
<1> DEFINE m == QueryMeaning(items, list)
<1>1. m.names \in Names
  BY ResultNamesAreTheirs DEF QueryMeaning, Names
<1>2. m.columns \in Columns
  BY TruePartType DEF QueryMeaning, Columns, AColumn
<1>3. m.relations \in Relations
  <2>1. \A j \in 1..Len(items) : items[j].meaning.relations \in Relations
    BY DEF Mean, Means, Meanings
  <2>2. DOMAIN items = 1..Len(items)
    BY DEF Mean
  <2> QED BY <2>1, <2>2 DEF QueryMeaning, Relations
<1>4. m.whole \in BOOLEAN /\ m.followed \in BOOLEAN
  BY DEF QueryMeaning
<1>5. m = [names |-> m.names, columns |-> m.columns, relations |-> m.relations,
           whole |-> m.whole, followed |-> m.followed]
  BY DEF QueryMeaning
<1>6. NamesItsColumns(m)
  BY ResultNamesAreTheirs DEF QueryMeaning, NamesItsColumns
<1> HIDE DEF m
<1>7. m \in Meanings
  BY <1>1, <1>2, <1>3, <1>4, <1>5 DEF Meanings
<1> QED BY <1>6, <1>7 DEF Means, m

-----------------------------------------------------------------------------
(* A source that is faithful to the meaning of its item *)

LEMMA OfRelationMeans ==
  ASSUME NEW n \in Name
  PROVE  /\ Means(OfRelation(n))
         /\ OfRelation(n).names = Schema[n].cols
         /\ OfRelation(n).relations = {[name |-> n, kind |-> Schema[n].kind]}
         /\ OfRelation(n).whole = (Schema[n].kind # "view")
         /\ OfRelation(n).followed = (Schema[n].kind # "none")
         /\ Schema[n].kind \in Kinds
         /\ Schema[n].cols # Unknown => \A i \in 1..Len(Schema[n].cols) :
              OfRelation(n).columns[i].origin =
                IF Schema[n].kind = "view" THEN None
                ELSE [table |-> n, column |-> Schema[n].cols[i]]
<1> DEFINE m == OfRelation(n)
           known == IF Schema[n].cols = Unknown THEN <<>> ELSE Schema[n].cols
           origin(i) == IF Schema[n].kind = "view" THEN None
                        ELSE [table |-> n, column |-> known[i]]
           columns == [i \in DOMAIN known |-> [name |-> known[i], origin |-> origin(i)]]
<1>1. Schema[n].kind \in Kinds /\ Schema[n].cols \in Names
  BY LineageAssumption
<1>2. known \in Seq(Column)
  BY <1>1 DEF Names
<1>3. m = [names |-> Schema[n].cols, columns |-> columns,
           relations |-> {[name |-> n, kind |-> Schema[n].kind]},
           whole |-> Schema[n].kind # "view",
           followed |-> Schema[n].kind # "none"]
  BY DEF OfRelation
<1>4. \A i \in 1..Len(known) :
         /\ columns[i].name = known[i] /\ columns[i].origin = origin(i)
  BY <1>2
<1>5. columns \in Seq(AColumn) /\ Len(columns) = Len(known)
  <2>1. DOMAIN known = 1..Len(known) /\ Len(known) \in Nat
    BY <1>2
  <2>2. \A i \in 1..Len(known) : known[i] \in Column
    <3> HIDE DEF known
    <3> QED BY <1>2
  <2> HIDE DEF known
  <2>3. \A i \in 1..Len(known) : [name |-> known[i], origin |-> origin(i)] \in AColumn
    BY <2>2 DEF AColumn, Origins
  <2> HIDE DEF origin
  <2>4. columns \in [1..Len(known) -> AColumn]
    BY <2>1, <2>3
  <2> HIDE DEF columns
  <2> QED BY <2>1, <2>4, FunctionIsSequence
<1>6. Schema[n].cols # Unknown => known = Schema[n].cols
  OBVIOUS
<1> HIDE DEF columns, known
<1>7. {[name |-> n, kind |-> Schema[n].kind]} \in Relations
  BY <1>1 DEF Relations
<1>8. m \in Meanings
  BY <1>1, <1>3, <1>5, <1>7 DEF Meanings, Columns, AColumn
<1>9. NamesItsColumns(m)
  <2>1. m.names = Schema[n].cols /\ m.columns = columns
    BY <1>3
  <2> HIDE DEF m
  <2> SUFFICES ASSUME m.names # Unknown
               PROVE  /\ Len(m.names) = Len(m.columns)
                      /\ \A i \in 1..Len(m.names) : m.names[i] = m.columns[i].name
    BY DEF NamesItsColumns
  <2>2. m.names = known
    BY <1>6, <2>1
  <2> QED BY <1>4, <1>5, <2>1, <2>2
<1>10. Schema[n].cols # Unknown => \A i \in 1..Len(Schema[n].cols) :
              m.columns[i].origin =
                IF Schema[n].kind = "view" THEN None
                ELSE [table |-> n, column |-> Schema[n].cols[i]]
  BY <1>3, <1>4, <1>6
<1> QED BY <1>1, <1>3, <1>8, <1>9, <1>10 DEF Means

LEMMA FaithfulNested ==
  ASSUME NEW s, NEW m, Means(m), s.kind = "nested", Summarised(per_query, s.body, m)
  PROVE  /\ Contributes(s) = m.relations
         /\ Traced(s) = m.whole
         /\ m.names # Unknown /\ IsInjective(m.names) =>
              \A i \in 1..Len(m.names) :
                OriginForSource(s, m.names[i]) = m.columns[i].origin
<1>1. per_query[s.body] # None /\ per_query[s.body].columns = m.columns
  BY DEF Summarised
<1>2. Contributes(s) = m.relations
  BY DEF Contributes, Summarised
<1>3. Traced(s) = m.whole
  BY DEF Traced, Summarised, Means, Meanings
<1>4. ASSUME m.names # Unknown, IsInjective(m.names), NEW i \in 1..Len(m.names)
      PROVE  OriginForSource(s, m.names[i]) = m.columns[i].origin
  <2>1. m.names \in Seq(Column) /\ m.columns \in Seq(AColumn) /\ Len(m.names) = Len(m.columns)
    BY <1>4 DEF Means, Meanings, Names, Columns, AColumn, NamesItsColumns
  <2>2. /\ DOMAIN m.columns = 1..Len(m.names) /\ DOMAIN m.names = 1..Len(m.names)
        /\ \A k \in 1..Len(m.names) : m.columns[k].name = m.names[k]
    BY <1>4, <2>1 DEF Means, NamesItsColumns
  <2>3. \A k \in 1..Len(m.names) : m.names[k] = m.names[i] => k = i
    BY <1>4, <2>2 DEF IsInjective
  <2> DEFINE hits == {k \in DOMAIN m.columns : m.columns[k].name = m.names[i]}
  <2>4. hits = {i}
    BY <1>4, <2>2, <2>3
  <2>5. (CHOOSE k \in hits : \A j \in hits : k <= j) = i
    <3>1. i <= i
      BY <1>4
    <3> HIDE DEF hits
    <3> QED BY <2>4, <3>1
  <2>6. OriginForSource(s, m.names[i]) = OriginFromNested(s.body, m.names[i])
    BY DEF OriginForSource
  <2>7. OriginFromNested(s.body, m.names[i]) =
          IF hits = {} THEN None
          ELSE m.columns[CHOOSE k \in hits : \A j \in hits : k <= j].origin
    BY <1>1 DEF OriginFromNested
  <2> HIDE DEF hits
  <2> QED BY <2>4, <2>5, <2>6, <2>7
<1> QED BY <1>2, <1>3, <1>4

LEMMA FaithfulGives ==
  ASSUME NEW s, NEW m, Faithful(per_query, s, m), Means(m), m.followed
  PROVE  /\ Contributes(s) = m.relations
         /\ Traced(s) = m.whole
         /\ m.names # Unknown /\ IsInjective(m.names) =>
              \A i \in 1..Len(m.names) :
                OriginForSource(s, m.names[i]) = m.columns[i].origin
<1>1. CASE s.kind = "nested" /\ Summarised(per_query, s.body, m)
  BY <1>1, FaithfulNested
<1>2. CASE s.kind = Schema[s.canonical].kind /\ m = OfRelation(s.canonical)
  <2> DEFINE n == s.canonical
  <2>1. s.canonical \in Name
    BY DEF Faithful, Sources
  <2>2. s.kind \in {"table", "view"}
    BY <1>2, <2>1, OfRelationMeans DEF Kinds
  <2>3. Contributes(s) = m.relations
    BY <1>2, <2>1, <2>2, OfRelationMeans DEF Contributes
  <2>4. Traced(s) = m.whole
    BY <1>2, <2>1, <2>2, OfRelationMeans DEF Traced
  <2>5. ASSUME m.names # Unknown, NEW i \in 1..Len(m.names)
        PROVE  OriginForSource(s, m.names[i]) = m.columns[i].origin
    <3>1. m.names = Schema[n].cols
      BY <1>2, <2>1, OfRelationMeans
    <3>2. m.columns[i].origin =
            IF Schema[n].kind = "view" THEN None
            ELSE [table |-> n, column |-> m.names[i]]
      BY <1>2, <2>1, <2>5, <3>1, OfRelationMeans
    <3>3. OriginForSource(s, m.names[i]) =
            IF s.kind = "view" THEN None ELSE [table |-> n, column |-> m.names[i]]
      BY <2>2 DEF OriginForSource
    <3> QED BY <1>2, <3>2, <3>3
  <2> QED BY <2>3, <2>4, <2>5
<1> QED BY <1>1, <1>2 DEF Faithful

-----------------------------------------------------------------------------
(* A query that is left *)

(* What exit_query finds: the items of the query and the sources captured.  *)
Leaves(items, sources) ==
  /\ Mean(items)
  /\ sources \in [Name -> {None} \cup Sources]
  /\ FrameKnown(per_query, items, sources)

LEMMA EachSource ==
  ASSUME NEW items, NEW sources, Leaves(items, sources), ItemsFollowed(items)
  PROVE  /\ DOMAIN items = 1..Len(items)
         /\ \A j \in 1..Len(items) :
              /\ items[j].name \in Name /\ items[j].name # NoName
              /\ sources[items[j].name] # None
              /\ Faithful(per_query, sources[items[j].name], items[j].meaning)
              /\ items[j].meaning.followed /\ Means(items[j].meaning)
              /\ items[j].meaning.names # Unknown => IsInjective(items[j].meaning.names)
         /\ \A j, k \in 1..Len(items) : items[j].name = items[k].name => j = k
         /\ Captured(sources) = {items[j].name : j \in 1..Len(items)}
<1>1. items \in Seq(Items) /\ DOMAIN items = 1..Len(items) /\ Len(items) \in Nat
  BY DEF Leaves, Mean
<1>2. \A j, k \in 1..Len(items) : items[j].name = items[k].name => j = k
  BY <1>1 DEF ItemsFollowed, IsInjective
<1>3. ASSUME NEW j \in 1..Len(items)
      PROVE  /\ items[j].name \in Name /\ items[j].name # NoName
             /\ sources[items[j].name] # None
             /\ Faithful(per_query, sources[items[j].name], items[j].meaning)
             /\ items[j].meaning.followed /\ Means(items[j].meaning)
             /\ items[j].meaning.names # Unknown => IsInjective(items[j].meaning.names)
  <2>1. /\ items[j].name # NoName /\ items[j].meaning.followed
        /\ items[j].meaning.names # Unknown => IsInjective(items[j].meaning.names)
    BY <1>1 DEF ItemsFollowed
  <2>2. items[j] \in Items
    BY <1>1
  <2>3. items[j].name \in Name
    BY <2>1, <2>2 DEF Items
  <2>4. Means(items[j].meaning)
    BY DEF Leaves, Mean
  <2>5. \A k \in 1..Len(items) : k > j => items[k].name # items[j].name
    BY <1>1, <1>2
  <2>6. Faithful(per_query, sources[items[j].name], items[j].meaning)
    BY <2>1, <2>5 DEF Leaves, FrameKnown
  <2>7. sources[items[j].name] # None
    BY <2>6, LineageAssumption DEF Faithful
  <2> QED BY <2>1, <2>3, <2>4, <2>6, <2>7
<1>4. Captured(sources) = {items[j].name : j \in 1..Len(items)}
  <2>1. \A n \in Name : sources[n] # None => \E j \in 1..Len(items) : items[j].name = n
    BY DEF Leaves, FrameKnown
  <2> QED BY <1>3, <2>1 DEF Captured
<1> QED BY <1>1, <1>2, <1>3, <1>4

LEMMA StarIsTrue ==
  ASSUME NEW items, NEW sources, Leaves(items, sources), ItemsFollowed(items), NEW c
  PROVE  TracedStar(items, sources, c) = TrueStar(items, c)
<1> DEFINE all == Expansion(items, c)
<1>1. all \in Seq(Found(items))
  BY ExpansionFound DEF Leaves, Mean
<1>2. ASSUME NEW x \in Found(items), Known(x)
      PROVE  [name |-> x.name, origin |-> StarOrigin(sources, items[x.item], x.name)]
               = items[x.item].meaning.columns[x.at]
  <2> DEFINE m == items[x.item].meaning
             s == sources[items[x.item].name]
  <2>1. /\ x.item \in 1..Len(items) /\ m.names # Unknown
        /\ x.at \in 1..Len(m.names) /\ x.name = m.names[x.at]
        /\ m.columns[x.at] \in [name : Column, origin : Origins]
        /\ m.columns[x.at].name = x.name
    BY <1>2, FoundColumn DEF Leaves
  <2>2. /\ items[x.item].name # NoName /\ s # None /\ Faithful(per_query, s, m)
        /\ m.followed /\ Means(m) /\ IsInjective(m.names)
    BY <2>1, EachSource
  <2>3. StarOrigin(sources, items[x.item], x.name) = OriginForSource(s, x.name)
    BY <2>2 DEF StarOrigin
  <2> HIDE DEF m, s
  <2>4. OriginForSource(s, x.name) = m.columns[x.at].origin
    BY <2>1, <2>2, FaithfulGives
  <2>5. m.columns[x.at] = [name |-> x.name, origin |-> m.columns[x.at].origin]
    BY <2>1
  <2> QED BY <2>3, <2>4, <2>5 DEF m
<1>3. \A k \in DOMAIN all : all[k] \in Found(items)
  <2> HIDE DEF all
  <2> QED BY <1>1
<1>4. [k \in DOMAIN all |->
         IF Known(all[k])
         THEN <<[name |-> all[k].name,
                 origin |-> StarOrigin(sources, items[all[k].item], all[k].name)]>>
         ELSE <<>>]
      = [k \in DOMAIN all |->
           IF Known(all[k]) THEN <<items[all[k].item].meaning.columns[all[k].at]>>
           ELSE <<>>]
  <2> HIDE DEF all
  <2> QED BY <1>2, <1>3
<1> QED BY <1>4 DEF TracedStar, TrueStar

LEMMA ReferenceIsTrue ==
  ASSUME NEW items, NEW sources, Leaves(items, sources), ItemsFollowed(items),
         NEW c \in Result, c.kind = "ref", Determinate(items, c)
  PROVE  TraceExpr(sources, c) = {TrueOrigin(items, c)}
<1>1. PICK j \in 1..Len(items) :
         /\ Owners(items, c) = {j} /\ j \in Candidates(items, c)
         /\ items[j].meaning.names # Unknown
         /\ c.column \in ToSet(items[j].meaning.names)
  BY OwnersOne DEF Determinate, Leaves, Mean
<1> DEFINE m == items[j].meaning
           d == items[j].name
           from == IF c.table = NoName THEN FindSourceFor(sources, c.column)
                   ELSE Qualified(sources, c.table)
<1>2. from = {d}
  <2>1. CASE c.table = NoName
    <3>1. \A k \in 1..Len(items) :
             /\ k \in Candidates(items, c)
             /\ items[k].meaning.names # Unknown
             /\ sources[items[k].name].columns = items[k].meaning.names
      <4>1. \A k \in 1..Len(items) : k \in Candidates(items, c)
        BY <2>1, EachSource DEF Candidates
      <4>2. \A k \in 1..Len(items) : items[k].meaning.names # Unknown
        BY <4>1 DEF Determinate
      <4>3. \A k \in 1..Len(items) : Faithful(per_query, sources[items[k].name], items[k].meaning)
        BY EachSource
      <4> QED BY <4>1, <4>2, <4>3 DEF Faithful
    <3>2. \A k \in 1..Len(items) : c.column \in ToSet(items[k].meaning.names) <=> k = j
      BY <1>1, <3>1 DEF Owners
    <3> DEFINE owners == {e \in Captured(sources) :
                            /\ sources[e].columns # Unknown
                            /\ c.column \in ToSet(sources[e].columns)}
    <3>3. Captured(sources) = {items[k].name : k \in 1..Len(items)}
      BY EachSource
    <3>4. owners = {d}
      BY <3>1, <3>2, <3>3
    <3>5. FindSourceFor(sources, c.column) = owners
      <4>1. owners # {}
        BY <3>4
      <4> QED BY <4>1 DEF FindSourceFor
    <3> QED BY <2>1, <3>4, <3>5
  <2>2. CASE c.table # NoName
    <3>1. c.table = d
      BY <1>1, <2>2 DEF Candidates
    <3>2. sources[d] # None
      BY EachSource
    <3> QED BY <2>2, <3>1, <3>2 DEF Qualified
  <2> QED BY <2>1, <2>2
<1> DEFINE i == CHOOSE i \in DOMAIN m.columns : m.columns[i].name = c.column
<1>3. /\ Faithful(per_query, sources[d], m) /\ m.followed /\ Means(m) /\ IsInjective(m.names)
  BY <1>1, EachSource
<1>4. i \in 1..Len(m.names) /\ m.names[i] = c.column
  BY <1>1, <1>3, ColumnNamed
<1>5. TrueOrigin(items, c) = m.columns[i].origin
  <2>1. (CHOOSE k \in Owners(items, c) : TRUE) = j
    BY <1>1
  <2>2. c.kind # "expression" /\ Cardinality(Owners(items, c)) = 1
    BY DEF Determinate
  <2> QED BY <2>1, <2>2 DEF TrueOrigin
<1>6. TraceExpr(sources, c) = {OriginForSource(sources[e], c.column) : e \in from}
  <2>1. c.kind # "expression" /\ from # {}
    BY <1>2
  <2> HIDE DEF from
  <2> QED BY <2>1 DEF TraceExpr, from
<1> HIDE DEF i, m, from, d
<1>7. OriginForSource(sources[d], m.names[i]) = m.columns[i].origin
  BY <1>1, <1>3, <1>4, FaithfulGives DEF m
<1> QED BY <1>2, <1>4, <1>5, <1>6, <1>7

(* A summary is what the query means, when the capture follows it.          *)
LEMMA FinalizedIsTrue ==
  ASSUME NEW items, NEW sources, Leaves(items, sources), NEW list \in Results, NEW pick,
         \A i \in DOMAIN list : pick[i] \in TraceExpr(sources, list[i]),
         QueryMeaning(items, list).followed
  PROVE  LET f == Finalized(items, sources, list, pick)
             m == QueryMeaning(items, list) IN
         /\ f.columns = m.columns /\ f.relations = m.relations
         /\ f.complete = m.whole
         /\ m.names # Unknown => f.column_names = m.names
<1> DEFINE f == Finalized(items, sources, list, pick)
           m == QueryMeaning(items, list)
           infos == {sources[d] : d \in Captured(sources)}
<1>1. /\ ItemsFollowed(items)
      /\ \A i \in DOMAIN list : list[i].kind = "ref" => Determinate(items, list[i])
  BY DEF QueryMeaning
<1>2. infos = {sources[items[j].name] : j \in 1..Len(items)}
  BY <1>1, EachSource
<1>3. \A j \in 1..Len(items) :
         /\ Contributes(sources[items[j].name]) = items[j].meaning.relations
         /\ Traced(sources[items[j].name]) = items[j].meaning.whole
  BY <1>1, EachSource, FaithfulGives
<1>4. f.columns = m.columns
  <2>1. ASSUME NEW i \in DOMAIN list
        PROVE  (IF list[i].kind = "star" THEN TracedStar(items, sources, list[i])
                ELSE <<[name |-> list[i].as, origin |-> pick[i]]>>)
             = (IF list[i].kind = "star" THEN TrueStar(items, list[i])
                ELSE <<[name |-> list[i].as, origin |-> TrueOrigin(items, list[i])]>>)
    <3>1. list[i] \in Result
      BY ResultList
    <3>2. CASE list[i].kind = "star"
      BY <1>1, <3>2, StarIsTrue
    <3>3. CASE list[i].kind = "ref"
      <4>1. TraceExpr(sources, list[i]) = {TrueOrigin(items, list[i])}
        BY <1>1, <3>1, <3>3, ReferenceIsTrue
      <4> QED BY <3>3, <4>1
    <3>4. CASE list[i].kind = "expression"
      <4>1. TraceExpr(sources, list[i]) = {None} /\ TrueOrigin(items, list[i]) = None
        BY <3>4 DEF TraceExpr, TrueOrigin
      <4> QED BY <3>4, <4>1
    <3>5. list[i].kind \in {"star", "ref", "expression"}
      BY <3>1 DEF Result
    <3> QED BY <3>2, <3>3, <3>4, <3>5
  <2>2. TracedColumns(items, sources, list, pick) = TrueColumns(items, list)
    BY <2>1 DEF TracedColumns, TrueColumns
  <2> QED BY <2>2 DEF Finalized, QueryMeaning
<1>5. f.relations = m.relations
  <2>1. {Contributes(s) : s \in infos}
          = {items[j].meaning.relations : j \in 1..Len(items)}
    <3> HIDE DEF infos
    <3> QED BY <1>2, <1>3
  <2>2. DOMAIN items = 1..Len(items)
    BY <1>1, EachSource
  <2> QED BY <2>1, <2>2 DEF Finalized, QueryMeaning
<1>6. f.complete = m.whole
  <2>1. (\A s \in infos : Traced(s)) <=> (\A j \in 1..Len(items) : items[j].meaning.whole)
    <3> HIDE DEF infos
    <3> QED BY <1>2, <1>3
  <2>2. DOMAIN items = 1..Len(items)
    BY <1>1, EachSource
  <2>3. f.complete = (ColumnsComplete(items, list) /\ \A s \in infos : Traced(s))
    BY DEF Finalized
  <2>4. m.whole = (ColumnsComplete(items, list)
                   /\ \A j \in DOMAIN items : items[j].meaning.whole)
    BY DEF QueryMeaning
  <2> HIDE DEF f, m, infos
  <2> QED BY <2>1, <2>2, <2>3, <2>4
<1>7. m.names # Unknown => f.column_names = m.names
  <2> SUFFICES ASSUME m.names # Unknown PROVE f.column_names = m.names
    OBVIOUS
  <2>1. f.column_names = [i \in DOMAIN f.columns |-> f.columns[i].name]
    BY DEF Finalized
  <2>2. /\ m.names \in Seq(Column) /\ Len(m.names) = Len(m.columns)
        /\ \A i \in 1..Len(m.names) : m.names[i] = m.columns[i].name
    BY ResultNamesAreTheirs DEF QueryMeaning, Leaves
  <2>3. m.columns \in Seq(AColumn)
    BY TruePartType DEF QueryMeaning, Leaves
  <2> HIDE DEF f, m
  <2>4. DOMAIN m.columns = 1..Len(m.names) /\ m.names = [i \in 1..Len(m.names) |-> m.names[i]]
    BY <2>2, <2>3
  <2> QED BY <1>4, <2>1, <2>2, <2>4
<1> QED BY <1>4, <1>5, <1>6, <1>7

-----------------------------------------------------------------------------
(* The type of a summary *)

Summarising == per_query \in [Node -> {None} \cup Summaries]

LEMMA OriginForSourceType ==
  ASSUME Summarising, NEW s \in Sources, NEW c \in Column
  PROVE  OriginForSource(s, c) \in Origins
<1>1. CASE s.kind = "table"
  BY <1>1 DEF OriginForSource, Origins, Sources
<1>2. CASE s.kind = "view"
  BY <1>2 DEF OriginForSource, Origins
<1>3. CASE s.kind = "nested"
  <2>1. s.body \in Node
    BY <1>3 DEF Sources
  <2>2. OriginForSource(s, c) = OriginFromNested(s.body, c)
    BY <1>3 DEF OriginForSource
  <2>3. CASE per_query[s.body] = None
    BY <2>2, <2>3 DEF OriginFromNested, Origins
  <2>4. CASE per_query[s.body] # None
    <3> DEFINE cols == per_query[s.body].columns
               hits == {i \in DOMAIN cols : cols[i].name = c}
               first == CHOOSE i \in hits : \A j \in hits : i <= j
    <3>1. per_query[s.body] \in Summaries
      BY <2>1, <2>4 DEF Summarising
    <3>2. cols \in Seq(AColumn)
      BY <3>1 DEF Summaries, Columns, AColumn
    <3>3. OriginForSource(s, c) = IF hits = {} THEN None ELSE cols[first].origin
      BY <2>2, <2>4 DEF OriginFromNested
    <3> HIDE DEF cols
    <3>4. hits \in SUBSET Nat /\ hits \subseteq DOMAIN cols
      BY <3>2
    <3>5. hits # {} => first \in hits
      <4> HIDE DEF hits
      <4> QED BY <3>4, LeastNat
    <3> HIDE DEF hits, first
    <3>6. hits # {} => cols[first] \in AColumn
      <4>1. \A i \in DOMAIN cols : cols[i] \in AColumn
        BY <3>2
      <4> QED BY <3>4, <3>5, <4>1
    <3> QED BY <3>3, <3>6 DEF AColumn, Origins
  <2> QED BY <2>3, <2>4
<1>4. s.kind \in {"table", "view", "nested"}
  BY DEF Sources
<1> QED BY <1>1, <1>2, <1>3, <1>4

LEMMA TraceExprType ==
  ASSUME Summarising, NEW sources \in [Name -> {None} \cup Sources],
         NEW c \in Result, c.kind # "star"
  PROVE  TraceExpr(sources, c) \subseteq Origins
<1> DEFINE from == IF c.table = NoName THEN FindSourceFor(sources, c.column)
                   ELSE Qualified(sources, c.table)
<1>1. CASE c.kind = "expression" \/ from = {}
  BY <1>1 DEF TraceExpr, Origins
<1>2. CASE ~(c.kind = "expression" \/ from = {})
  <2>1. c.column \in Column /\ c.table \in {NoName} \cup Name
    BY <1>2 DEF Result
  <2>2. \A d \in from : sources[d] \in Sources
    <3>1. \A d \in Captured(sources) : sources[d] \in Sources
      BY DEF Captured
    <3>2. FindSourceFor(sources, c.column) \subseteq Captured(sources)
      BY DEF FindSourceFor
    <3>3. c.table # NoName => Qualified(sources, c.table) \subseteq Captured(sources)
      BY <2>1 DEF Qualified, Captured
    <3> QED BY <3>1, <3>2, <3>3
  <2>3. TraceExpr(sources, c) = {OriginForSource(sources[d], c.column) : d \in from}
    <3> HIDE DEF from
    <3> QED BY <1>2 DEF TraceExpr, from
  <2> HIDE DEF from
  <2> QED BY <2>1, <2>2, <2>3, OriginForSourceType
<1> QED BY <1>1, <1>2

LEMMA TracedStarType ==
  ASSUME Summarising, NEW items, Mean(items),
         NEW sources \in [Name -> {None} \cup Sources], NEW c
  PROVE  TracedStar(items, sources, c) \in Seq(AColumn)
<1> DEFINE all == Expansion(items, c)
           col(x) == [name |-> x.name,
                      origin |-> StarOrigin(sources, items[x.item], x.name)]
           part == [k \in DOMAIN all |-> IF Known(all[k]) THEN <<col(all[k])>> ELSE <<>>]
<1>1. all \in Seq(Found(items))
  BY ExpansionFound DEF Mean
<1>2. ASSUME NEW x \in Found(items), Known(x)
      PROVE  col(x) \in AColumn
  <2>1. /\ x.item \in 1..Len(items) /\ x.name \in Column
    <3>1. x.name \in {Unknown} \cup Column
      BY DEF Found
    <3> QED BY <1>2, <3>1, FoundColumn DEF Known
  <2>2. StarOrigin(sources, items[x.item], x.name) \in Origins
    <3>1. items[x.item] \in Items
      BY <2>1 DEF Mean
    <3>2. items[x.item].name \in {NoName} \cup Name
      BY <3>1 DEF Items
    <3> DEFINE n == items[x.item].name
    <3>3. CASE n = NoName \/ sources[n] = None
      BY <3>3 DEF StarOrigin, Origins
    <3>4. CASE ~(n = NoName \/ sources[n] = None)
      <4>1. sources[n] \in Sources
        BY <3>2, <3>4
      <4> QED BY <2>1, <3>4, <4>1, OriginForSourceType DEF StarOrigin
    <3> QED BY <3>3, <3>4
  <2> QED BY <2>1, <2>2 DEF AColumn
<1> HIDE DEF all, col
<1>3. DOMAIN all = 1..Len(all) /\ Len(all) \in Nat
  BY <1>1
<1>4. ASSUME NEW k \in 1..Len(all)
      PROVE  (IF Known(all[k]) THEN <<col(all[k])>> ELSE <<>>) \in Seq(AColumn)
  <2>1. all[k] \in Found(items)
    BY <1>1
  <2>2. Known(all[k]) => col(all[k]) \in AColumn
    BY <1>2, <2>1
  <2> QED BY <2>2
<1>5. part \in [1..Len(all) -> Seq(AColumn)]
  BY <1>3, <1>4
<1> HIDE DEF part
<1>6. part \in Seq(Seq(AColumn))
  BY <1>3, <1>5, FunctionIsSequence
<1>7. FlattenSeq(part) \in Seq(AColumn)
  BY <1>6, FlattenType
<1> QED BY <1>7 DEF TracedStar, part, all, col

LEMMA FinalizedType ==
  ASSUME Summarising, NEW items, Mean(items),
         NEW sources \in [Name -> {None} \cup Sources],
         NEW list \in Results, NEW pick,
         \A i \in DOMAIN list : pick[i] \in TraceExpr(sources, list[i])
  PROVE  Finalized(items, sources, list, pick) \in Summaries
<1> DEFINE f == Finalized(items, sources, list, pick)
           columns == TracedColumns(items, sources, list, pick)
           part == [i \in DOMAIN list |->
                     IF list[i].kind = "star" THEN TracedStar(items, sources, list[i])
                     ELSE <<[name |-> list[i].as, origin |-> pick[i]]>>]
<1>1. Len(list) \in Nat /\ DOMAIN list = 1..Len(list)
  BY ResultList
<1>2. ASSUME NEW i \in 1..Len(list)
      PROVE  (IF list[i].kind = "star" THEN TracedStar(items, sources, list[i])
              ELSE <<[name |-> list[i].as, origin |-> pick[i]]>>) \in Seq(AColumn)
  <2>1. CASE list[i].kind = "star"
    BY <2>1, TracedStarType
  <2>2. CASE list[i].kind # "star"
    <3>1. list[i] \in Result /\ list[i].as \in Column
      BY ResultList
    <3>2. pick[i] \in Origins
      BY <1>1, <2>2, <3>1, TraceExprType
    <3>3. [name |-> list[i].as, origin |-> pick[i]] \in AColumn
      BY <3>1, <3>2 DEF AColumn
    <3> QED BY <2>2, <3>3
  <2> QED BY <2>1, <2>2
<1>3. part \in [1..Len(list) -> Seq(AColumn)]
  BY <1>1, <1>2
<1>4. columns = FlattenSeq(part)
  BY DEF TracedColumns
<1> HIDE DEF part
<1>5. part \in Seq(Seq(AColumn))
  BY <1>1, <1>3, FunctionIsSequence
<1>6. columns \in Seq(AColumn)
  BY <1>4, <1>5, FlattenType
<1>7. [i \in DOMAIN columns |-> columns[i].name] \in Seq(Column)
  <2> HIDE DEF columns
  <2>1. DOMAIN columns = 1..Len(columns) /\ Len(columns) \in Nat
    BY <1>6
  <2>2. \A i \in 1..Len(columns) : columns[i] \in AColumn
    BY <1>6
  <2>3. \A i \in 1..Len(columns) : columns[i].name \in Column
    BY <2>2 DEF AColumn
  <2>4. [i \in DOMAIN columns |-> columns[i].name] \in [1..Len(columns) -> Column]
    BY <2>1, <2>3
  <2> QED BY <2>1, <2>4, FunctionIsSequence
<1> DEFINE infos == {sources[d] : d \in Captured(sources)}
<1>8. \A s \in infos : Contributes(s) \in Relations
  <2>1. \A s \in infos : s \in Sources
    BY DEF Captured
  <2>2. ASSUME NEW s \in Sources
        PROVE  Contributes(s) \in Relations
    <3>1. CASE s.kind # "nested"
      BY <3>1 DEF Contributes, Relations, Sources, Kinds
    <3>2. CASE s.kind = "nested"
      <4>1. s.body \in Node
        BY <3>2 DEF Sources
      <4>2. per_query[s.body] # None => per_query[s.body] \in Summaries
        BY <4>1 DEF Summarising
      <4> QED BY <3>2, <4>2 DEF Contributes, Summaries, Relations
    <3> QED BY <3>1, <3>2
  <2> QED BY <2>1, <2>2
<1>9. UNION {Contributes(s) : s \in infos} \in Relations
  <2> HIDE DEF infos
  <2> QED BY <1>8 DEF Relations
<1>10. f = [columns |-> columns,
            column_names |-> [i \in DOMAIN columns |-> columns[i].name],
            relations |-> UNION {Contributes(s) : s \in infos},
            complete |-> ColumnsComplete(items, list) /\ \A s \in infos : Traced(s)]
  BY DEF Finalized
<1>11. (ColumnsComplete(items, list) /\ \A s \in infos : Traced(s)) \in BOOLEAN
  OBVIOUS
<1> HIDE DEF columns, infos
<1>12. columns \in Columns
  BY <1>6 DEF Columns, AColumn
<1> QED BY <1>7, <1>9, <1>10, <1>11, <1>12 DEF Summaries

-----------------------------------------------------------------------------
(* The invariant, and what keeps it *)

Truthful ==
  \A q \in Node : meant[q] # None /\ meant[q].followed =>
    /\ per_query[q].relations = meant[q].relations
    /\ per_query[q].columns = meant[q].columns
    /\ per_query[q].complete = meant[q].whole

Inv ==
  /\ Typed /\ Shaped /\ Scoped /\ BodiesKnown /\ Framed /\ OuterKnown /\ Truthful

(* What was summarised stays. *)
Kept == \A q \in Node : per_query[q] # None => per_query'[q] = per_query[q]

LEMMA KeptUnchanged ==
  ASSUME UNCHANGED per_query
  PROVE  Kept
BY DEF Kept

LEMMA SummarisedKept ==
  ASSUME Kept, NEW q, NEW m, Summarised(per_query, q, m)
  PROVE  Summarised(per_query', q, m)
BY DEF Kept, Summarised

LEMMA FaithfulKept ==
  ASSUME Kept, NEW s, NEW m, Faithful(per_query, s, m)
  PROVE  Faithful(per_query', s, m)
<1>1. Summarised(per_query, s.body, m) => Summarised(per_query', s.body, m)
  BY SummarisedKept
<1> QED BY <1>1 DEF Faithful, OfRelation

LEMMA FrameKept ==
  ASSUME Kept, NEW items, NEW sources, FrameKnown(per_query, items, sources)
  PROVE  FrameKnown(per_query', items, sources)
<1>1. \A s, m : Faithful(per_query, s, m) => Faithful(per_query', s, m)
  BY FaithfulKept
<1> QED BY <1>1 DEF FrameKnown, NamesItsColumns

LEMMA KnownBodyKept ==
  ASSUME Kept, NEW b, KnownBody(per_query, b)
  PROVE  KnownBody(per_query', b)
<1>1. \A q, m : Summarised(per_query, q, m) => Summarised(per_query', q, m)
  BY SummarisedKept
<1> QED BY <1>1 DEF KnownBody, NamesItsColumns

LEMMA WalkTyped ==
  ASSUME Typed
  PROVE  /\ walk \in Seq(Activations) /\ Depth \in Nat /\ Depth = Len(walk)
         /\ DOMAIN walk = 1..Depth
         /\ walk = <<>> <=> Depth = 0
         /\ \A d \in 1..Depth :
              /\ walk[d] \in Activations
              /\ walk[d].items \in Seq(Items) /\ walk[d].bodies \in Seq(Bodies)
              /\ Len(walk[d].items) \in Nat /\ Len(walk[d].bodies) \in Nat
              /\ \A k \in 1..Len(walk[d].bodies) : walk[d].bodies[k] \in Bodies
<1>1. walk \in Seq(Activations)
  BY DEF Typed
<1>2. Depth \in Nat /\ Depth = Len(walk) /\ DOMAIN walk = 1..Depth
  BY <1>1 DEF Depth
<1>3. walk = <<>> <=> Depth = 0
  BY <1>1 DEF Depth
<1>4. ASSUME NEW d \in 1..Depth
      PROVE  walk[d] \in Activations
  BY <1>1, <1>2
<1>5. ASSUME NEW a \in Activations
      PROVE  /\ a.items \in Seq(Items) /\ a.bodies \in Seq(Bodies)
             /\ Len(a.items) \in Nat /\ Len(a.bodies) \in Nat
             /\ \A k \in 1..Len(a.bodies) : a.bodies[k] \in Bodies
  <2>1. a.items \in Seq(Items) /\ a.bodies \in Seq(Bodies)
    BY DEF Activations
  <2> HIDE DEF Items, Bodies
  <2> QED BY <2>1
<1> QED BY <1>1, <1>2, <1>3, <1>4, <1>5

(* The three things a step does to the walk: an activation is put on top,   *)
(* the top is worked on, or it is taken away.                               *)
Pushed(a) ==
  /\ walk' \in Seq(Activations) /\ Len(walk') = Len(walk) + 1
  /\ walk'[Len(walk) + 1] = a
  /\ \A d \in 1..Len(walk) : walk'[d] = walk[d]

Trimmed(n) ==
  /\ walk' \in Seq(Activations) /\ Len(walk') = n /\ n \in 0..Len(walk)
  /\ \A d \in 1..(n - 1) : walk'[d] = walk[d]
  /\ \A d \in 1..n : /\ walk'[d].node = walk[d].node /\ walk'[d].id = walk[d].id
                     /\ walk'[d].name = walk[d].name

LEMMA PushIs ==
  ASSUME Typed, NEW a \in Activations, walk' = Append(walk, a)
  PROVE  Pushed(a)
<1>1. walk \in Seq(Activations)
  BY DEF Typed
<1> QED BY <1>1, AppendElements DEF Pushed

LEMMA ReturnedIs ==
  ASSUME Typed, walk # <<>>, NEW b \in Bodies, walk' = Returned(b)
  PROVE  /\ Trimmed(Depth - 1)
         /\ \A d \in 1..(Depth - 1) :
              walk'[d].items = walk[d].items /\ walk'[d].part = walk[d].part
         /\ Depth > 1 => walk'[Depth - 1].bodies =
              IF walk[Depth - 1].node = "query" THEN walk[Depth - 1].bodies
              ELSE Append(walk[Depth - 1].bodies, b)
<1> DEFINE n == Depth - 1
           rest == Front(walk)
<1>1. Depth \in Nat \ {0} /\ walk \in Seq(Activations) /\ Depth = Len(walk)
  BY WalkTyped
<1>2. rest \in Seq(Activations) /\ Len(rest) = n /\ \A d \in 1..n : rest[d] = walk[d]
  <2>1. rest = SubSeq(walk, 1, Len(walk) - 1)
    BY DEF Front
  <2> HIDE DEF rest
  <2> QED BY <1>1, <2>1, PrefixType
<1>3. walk' = IF rest = <<>> \/ rest[Len(rest)].node = "query" THEN rest
              ELSE [rest EXCEPT ![Len(rest)].bodies = Append(@, b)]
  BY DEF Returned, Last
<1> HIDE DEF rest
<1>4. rest = <<>> <=> n = 0
  BY <1>1, <1>2
<1>5. CASE n = 0
  BY <1>1, <1>2, <1>3, <1>4, <1>5 DEF Trimmed
<1>6. CASE n # 0 /\ walk[n].node = "query"
  <2>1. n \in 1..n /\ walk' = rest
    BY <1>1, <1>2, <1>3, <1>4, <1>6
  <2> QED BY <1>1, <1>2, <1>6, <2>1 DEF Trimmed
<1>7. CASE n # 0 /\ walk[n].node # "query"
  <2>1. n \in 1..n /\ n \in Nat /\ DOMAIN rest = 1..n
    BY <1>1, <1>2, <1>7
  <2> DEFINE bodies == Append(walk[n].bodies, b)
             top == [walk[n] EXCEPT !.bodies = bodies]
  <2>2. walk' = [rest EXCEPT ![n] = top]
    <3>1. walk' = [rest EXCEPT ![n].bodies = Append(@, b)]
      BY <1>2, <1>3, <1>4, <1>7, <2>1
    <3> QED BY <1>2, <2>1, <3>1
  <2>3. walk[n] \in Activations /\ bodies \in Seq(Bodies)
    <3>1. walk[n] \in Activations /\ walk[n].bodies \in Seq(Bodies)
      BY <1>1, <2>1, WalkTyped
    <3> QED BY <3>1, AppendElements
  <2> HIDE DEF bodies
  <2>4. /\ top \in Activations /\ top.bodies = bodies
        /\ top.node = walk[n].node /\ top.id = walk[n].id /\ top.name = walk[n].name
        /\ top.items = walk[n].items /\ top.part = walk[n].part
    BY <2>3 DEF Activations
  <2> HIDE DEF top
  <2>5. walk' \in Seq(Activations) /\ Len(walk') = n /\ walk'[n] = top
    BY <1>2, <2>1, <2>2, <2>4
  <2>6. \A d \in 1..n : d # n => walk'[d] = walk[d]
    BY <1>2, <2>1, <2>2
  <2>7. \A d \in 1..(n - 1) : d \in 1..n /\ d # n
    BY <2>1
  <2>8. n \in 0..Len(walk) /\ n = Depth - 1
    BY <1>1
  <2>9. Trimmed(n)
    BY <2>4, <2>5, <2>6, <2>7, <2>8 DEF Trimmed
  <2> QED BY <1>7, <2>4, <2>5, <2>6, <2>9 DEF bodies
<1> QED BY <1>5, <1>6, <1>7

LEMMA ShapedPush ==
  ASSUME Typed, Shaped, UNCHANGED per_query, NEW a, Pushed(a), a.bodies = <<>>,
         made' \in {made, made + 1},
         a.node \in {"query", "compound"} => a.id = made + 1 /\ made' = made + 1 /\ a.id \in Node,
         a.node = "with" => Depth = 0,
         a.node \in {"source", "cte"} => Depth # 0,
         a.node = "cte" => a.name \in Name,
         Depth > 0 => Under(walk[Depth], a)
  PROVE  Shaped'
<1> DEFINE n == Len(walk)
<1>1. n \in Nat /\ Depth = n /\ Depth' = n + 1 /\ made \in Nat
  BY WalkTyped DEF Typed, Pushed, Depth
<1>2. /\ walk'[n + 1] = a /\ \A d \in 1..n : walk'[d] = walk[d]
      /\ \A d \in 1..(n + 1) : d \in 1..n \/ d = n + 1
  BY <1>1 DEF Pushed
<1>3. \A d \in 1..n :
        /\ walk[d].node = "query" => walk[d].id \in 1..made /\ per_query[walk[d].id] = None
        /\ walk[d].node = "compound" => walk[d].id \in 1..made
        /\ walk[d].node = "with" => d = 1
        /\ walk[d].node \in {"source", "cte"} => d # 1
        /\ walk[d].node = "cte" => walk[d].name \in Name
        /\ \A k \in 1..Len(walk[d].bodies) : walk[d].bodies[k].id <= made
  BY <1>1 DEF Shaped
<1> HIDE DEF n
<1>4. ASSUME NEW d \in 1..n
      PROVE  Under(walk'[d], walk'[d + 1])
  <2>1. CASE d = n
    BY <1>1, <1>2, <2>1
  <2>2. CASE d # n
    <3>1. d \in 1..(n - 1) /\ d + 1 \in 1..n
      BY <1>1, <2>2
    <3>2. Under(walk[d], walk[d + 1])
      BY <1>1, <3>1 DEF Shaped
    <3> QED BY <1>2, <3>1, <3>2
  <2> QED BY <2>1, <2>2
<1>5. ASSUME NEW d \in 1..(n + 1)
      PROVE  /\ walk'[d].node = "query" =>
                  walk'[d].id \in 1..made' /\ per_query'[walk'[d].id] = None
             /\ walk'[d].node = "compound" => walk'[d].id \in 1..made'
             /\ walk'[d].node = "with" => d = 1
             /\ walk'[d].node \in {"source", "cte"} => d # 1
             /\ walk'[d].node = "cte" => walk'[d].name \in Name
             /\ \A k \in 1..Len(walk'[d].bodies) : walk'[d].bodies[k].id <= made'
  <2>1. CASE d \in 1..n
    <3>1. walk'[d] = walk[d] /\ 1..made \subseteq 1..made'
      BY <1>1, <1>2, <2>1
    <3>2. ASSUME NEW k \in 1..Len(walk[d].bodies)
          PROVE  walk[d].bodies[k].id <= made'
      <4>1. walk[d].bodies[k] \in Bodies
        BY <1>1, <2>1, WalkTyped
      <4>2. walk[d].bodies[k].id \in Nat
        BY <4>1 DEF Bodies, Node
      <4>3. walk[d].bodies[k].id <= made
        BY <1>3, <2>1
      <4> QED BY <1>1, <4>2, <4>3
    <3> QED BY <1>3, <2>1, <3>1, <3>2
  <2>2. CASE d = n + 1
    <3>1. walk'[d] = a
      BY <1>2, <2>2
    <3>2. a.node \in {"query", "compound"} => a.id \in 1..made' /\ per_query'[a.id] = None
      <4> SUFFICES ASSUME a.node \in {"query", "compound"}
                   PROVE  a.id \in 1..made' /\ per_query'[a.id] = None
        OBVIOUS
      <4>1. a.id = made + 1 /\ made' = made + 1 /\ a.id \in Node
        OBVIOUS
      <4>2. a.id > made /\ a.id \in 1..made'
        BY <1>1, <4>1
      <4>3. per_query[a.id] = None
        BY <4>1, <4>2 DEF Shaped
      <4> QED BY <4>2, <4>3
    <3>3. (a.node = "with" => d = 1) /\ (a.node \in {"source", "cte"} => d # 1)
      BY <1>1, <2>2
    <3>4. \A k \in 1..Len(a.bodies) : FALSE
      OBVIOUS
    <3> QED BY <3>1, <3>2, <3>3, <3>4
  <2> QED BY <1>2, <2>1, <2>2
<1>6. ASSUME NEW d \in 1..(n + 1), NEW e \in 1..(n + 1),
             walk'[d].node = "query", walk'[e].node = "query", d < e
      PROVE  walk'[d].id < walk'[e].id
  <2>1. d \in 1..n /\ walk'[d] = walk[d]
    BY <1>1, <1>2, <1>6
  <2>2. CASE e \in 1..n
    <3>1. walk'[e] = walk[e]
      BY <1>2, <2>2
    <3> QED BY <1>1, <1>6, <2>1, <2>2, <3>1 DEF Shaped
  <2>3. CASE e = n + 1
    <3>1. walk'[e] = a /\ a.id = made + 1
      BY <1>2, <1>6, <2>3
    <3>2. walk[d].id \in 1..made
      BY <1>3, <1>6, <2>1
    <3> QED BY <1>1, <2>1, <3>1, <3>2
  <2> QED BY <1>2, <2>2, <2>3
<1>7. \A q \in Node : q > made' => per_query'[q] = None
  <2>1. \A q \in Node : q > made' => q > made
    BY <1>1 DEF Node
  <2> QED BY <2>1 DEF Shaped
<1>8. (n + 1) - 1 = n
  BY <1>1
<1> QED BY <1>1, <1>4, <1>5, <1>6, <1>7, <1>8 DEF Shaped

LEMMA ShapedTrim ==
  ASSUME Typed, Shaped, NEW n, Trimmed(n), UNCHANGED made,
         \A d \in 1..(n - 1) : walk'[d].part = walk[d].part,
         \A k \in 1..Len(walk'[n].bodies) : n \in 1..Depth => walk'[n].bodies[k].id <= made,
         \A q \in Node : per_query[q] = None /\
           ((\E d \in 1..n : walk[d].node = "query" /\ walk[d].id = q) \/ q > made)
             => per_query'[q] = None
  PROVE  Shaped'
<1>1. Depth \in Nat /\ Depth = Len(walk) /\ n \in 0..Depth /\ Depth' = n /\ made \in 0..MaxNodes
  BY WalkTyped DEF Typed, Trimmed, Depth
<1>2. /\ \A d \in 1..(n - 1) : walk'[d] = walk[d]
      /\ \A d \in 1..n : /\ walk'[d].node = walk[d].node /\ walk'[d].id = walk[d].id
                         /\ walk'[d].name = walk[d].name
  BY DEF Trimmed
<1>3. ASSUME NEW d \in 1..(n - 1)
      PROVE  Under(walk'[d], walk'[d + 1])
  <2>1. d \in 1..(Depth - 1) /\ d + 1 \in 1..n
    BY <1>1
  <2>2. walk'[d] = walk[d] /\ walk'[d + 1].node = walk[d + 1].node
    BY <1>2, <2>1
  <2>3. Under(walk[d], walk[d + 1])
    BY <2>1 DEF Shaped
  <2> QED BY <2>2, <2>3 DEF Under
<1>4. ASSUME NEW d \in 1..n
      PROVE  /\ walk'[d].node = "query" =>
                  walk'[d].id \in 1..made /\ per_query'[walk'[d].id] = None
             /\ walk'[d].node = "compound" => walk'[d].id \in 1..made
             /\ walk'[d].node = "with" => d = 1
             /\ walk'[d].node \in {"source", "cte"} => d # 1
             /\ walk'[d].node = "cte" => walk'[d].name \in Name
             /\ \A k \in 1..Len(walk'[d].bodies) : walk'[d].bodies[k].id <= made
  <2>1. d \in 1..Depth
    BY <1>1
  <2>2. /\ walk[d].node = "query" => walk[d].id \in 1..made /\ per_query[walk[d].id] = None
        /\ walk[d].node = "compound" => walk[d].id \in 1..made
        /\ walk[d].node = "with" => d = 1
        /\ walk[d].node \in {"source", "cte"} => d # 1
        /\ walk[d].node = "cte" => walk[d].name \in Name
        /\ \A k \in 1..Len(walk[d].bodies) : walk[d].bodies[k].id <= made
    BY <2>1 DEF Shaped
  <2>3. 1..made \subseteq Node
    BY <1>1, LineageAssumption DEF Node
  <2>4. walk[d].node = "query" => per_query'[walk[d].id] = None
    BY <2>2, <2>3
  <2>5. \A k \in 1..Len(walk'[d].bodies) : walk'[d].bodies[k].id <= made
    <3>1. CASE d = n
      BY <2>1, <3>1
    <3>2. CASE d # n
      <4>1. d \in 1..(n - 1)
        BY <1>1, <3>2
      <4> QED BY <1>2, <2>2, <4>1
    <3> QED BY <3>1, <3>2
  <2> QED BY <1>2, <2>2, <2>4, <2>5
<1>5. ASSUME NEW d \in 1..n, NEW e \in 1..n,
             walk'[d].node = "query", walk'[e].node = "query", d < e
      PROVE  walk'[d].id < walk'[e].id
  <2>1. d \in 1..Depth /\ e \in 1..Depth
    BY <1>1
  <2>2. walk[d].node = "query" /\ walk[e].node = "query"
    BY <1>2, <1>5
  <2>3. walk[d].id < walk[e].id
    BY <1>5, <2>1, <2>2 DEF Shaped
  <2> QED BY <1>2, <2>3
<1>6. \A q \in Node : q > made => per_query'[q] = None
  BY DEF Shaped
<1> QED BY <1>1, <1>3, <1>4, <1>5, <1>6 DEF Shaped

LEMMA BodiesPush ==
  ASSUME Typed, BodiesKnown, Kept, NEW a, Pushed(a), a.bodies = <<>>
  PROVE  BodiesKnown'
<1> DEFINE n == Len(walk)
<1>1. n \in Nat /\ Depth = n /\ Depth' = n + 1
  BY WalkTyped DEF Pushed, Depth
<1>2. /\ walk'[n + 1] = a /\ \A d \in 1..n : walk'[d] = walk[d]
      /\ \A d \in 1..(n + 1) : d \in 1..n \/ d = n + 1
  BY <1>1 DEF Pushed
<1> HIDE DEF n
<1>3. ASSUME NEW d \in 1..(n + 1), NEW k \in 1..Len(walk'[d].bodies)
      PROVE  KnownBody(per_query', walk'[d].bodies[k])
  <2>1. CASE d \in 1..n
    <3>1. KnownBody(per_query, walk[d].bodies[k])
      BY <1>1, <1>2, <2>1 DEF BodiesKnown
    <3>2. walk'[d] = walk[d]
      BY <1>2, <2>1
    <3> QED BY <3>1, <3>2, KnownBodyKept
  <2>2. CASE d = n + 1
    <3>1. walk'[d].bodies = <<>>
      BY <1>2, <2>2
    <3> QED BY <3>1
  <2> QED BY <1>2, <2>1, <2>2
<1> QED BY <1>1, <1>3 DEF BodiesKnown

LEMMA BodiesTrim ==
  ASSUME Typed, BodiesKnown, Kept, NEW n, Trimmed(n),
         n > 0 => \A k \in 1..Len(walk'[n].bodies) : KnownBody(per_query', walk'[n].bodies[k])
  PROVE  BodiesKnown'
<1>1. Depth \in Nat /\ Depth = Len(walk) /\ n \in 0..Depth /\ Depth' = n
  BY WalkTyped DEF Trimmed, Depth
<1>2. \A d \in 1..(n - 1) : walk'[d] = walk[d]
  BY DEF Trimmed
<1>3. ASSUME NEW d \in 1..n, NEW k \in 1..Len(walk'[d].bodies)
      PROVE  KnownBody(per_query', walk'[d].bodies[k])
  <2>1. CASE d = n
    <3>1. n > 0
      BY <1>1
    <3> QED BY <2>1, <3>1
  <2>2. CASE d # n
    <3>1. d \in 1..(n - 1) /\ d \in 1..Depth
      BY <1>1, <2>2
    <3>2. walk'[d] = walk[d]
      BY <1>2, <3>1
    <3>3. KnownBody(per_query, walk[d].bodies[k])
      BY <3>1, <3>2 DEF BodiesKnown
    <3> QED BY <3>2, <3>3, KnownBodyKept
  <2> QED BY <2>1, <2>2
<1> QED BY <1>1, <1>3 DEF BodiesKnown

LEMMA StackTyped ==
  ASSUME Typed
  PROVE  /\ stack \in Seq([node : Node, sources : [Name -> {None} \cup Sources]])
         /\ Len(stack) \in Nat
         /\ stack = <<>> <=> Len(stack) = 0
         /\ \A i \in 1..Len(stack) :
              /\ stack[i] \in [node : Node, sources : [Name -> {None} \cup Sources]]
              /\ stack[i].node \in Nat
<1> DEFINE F == [node : Node, sources : [Name -> {None} \cup Sources]]
<1>1. stack \in Seq(F)
  BY DEF Typed
<1>2. \A f \in F : f.node \in Nat
  BY DEF Node
<1> HIDE DEF F
<1>3. Len(stack) \in Nat /\ (stack = <<>> <=> Len(stack) = 0) /\ \A i \in 1..Len(stack) : stack[i] \in F
  BY <1>1
<1> QED BY <1>1, <1>2, <1>3 DEF F

(* The query on top of the walk is the one on top of the stack. *)
Innermost(n) ==
  /\ n \in 1..Depth /\ walk[n].node = "query"
  /\ \A d \in 1..Depth : d > n => walk[d].node # "query"

LEMMA TopFrame ==
  ASSUME Typed, Shaped, Framed, NEW n, Innermost(n)
  PROVE  /\ Len(stack) \in 1..Len(stack) /\ stack[Len(stack)].node = walk[n].id
         /\ FrameKnown(per_query, walk[n].items, stack[Len(stack)].sources)
         /\ \A d \in 1..Depth, i \in 1..Len(stack) :
              walk[d].node = "query" /\ walk[d].id = stack[i].node =>
                (d = n <=> i = Len(stack))
<1> DEFINE top == Len(stack)
<1>1. /\ n \in 1..Depth /\ walk[n].node = "query"
      /\ \A d \in 1..Depth : d > n => walk[d].node # "query"
  BY DEF Innermost
<1>2. Depth \in Nat /\ top \in Nat /\ \A i \in 1..top : stack[i].node \in Nat
  BY WalkTyped, StackTyped
<1>3. PICK i \in 1..top : walk[n].id = stack[i].node
  BY <1>1 DEF Framed
<1>4. top \in 1..top
  BY <1>2, <1>3
<1>5. PICK d \in 1..Depth : walk[d].node = "query" /\ walk[d].id = stack[top].node
  BY <1>4 DEF Framed
<1>6. d <= n
  BY <1>1, <1>2, <1>5
<1>7. i = top
  <2> SUFFICES ASSUME i # top PROVE FALSE
    OBVIOUS
  <2>1. i < top
    BY <1>2, <1>3
  <2>2. stack[i].node < stack[top].node
    BY <1>3, <1>4, <2>1 DEF Framed
  <2>3. d < n \/ d = n
    BY <1>1, <1>2, <1>6
  <2>4. d < n => walk[d].id < walk[n].id
    BY <1>1, <1>5 DEF Shaped
  <2>5. stack[i].node \in Nat /\ stack[top].node \in Nat
    BY <1>2, <1>3, <1>4
  <2> QED BY <1>3, <1>5, <2>2, <2>3, <2>4, <2>5
<1>8. stack[top].node = walk[n].id
  BY <1>3, <1>7
<1>9. FrameKnown(per_query, walk[n].items, stack[top].sources)
  BY <1>1, <1>4, <1>8 DEF Framed
<1>10. ASSUME NEW e \in 1..Depth, NEW j \in 1..top,
              walk[e].node = "query", walk[e].id = stack[j].node
       PROVE  e = n <=> j = top
  <2>1. e = n => j = top
    <3> SUFFICES ASSUME e = n, j # top PROVE FALSE
      OBVIOUS
    <3>1. j < top
      BY <1>2
    <3>2. stack[j].node < stack[top].node
      BY <1>4, <3>1 DEF Framed
    <3>3. stack[j].node \in Nat
      BY <1>2
    <3> QED BY <1>8, <1>10, <3>2, <3>3
  <2>2. j = top => e = n
    <3> SUFFICES ASSUME j = top, e # n PROVE FALSE
      OBVIOUS
    <3>1. e < n
      BY <1>1, <1>2, <1>10
    <3>2. walk[e].id < walk[n].id
      BY <1>1, <1>10, <3>1 DEF Shaped
    <3>3. stack[j].node \in Nat
      BY <1>2
    <3> QED BY <1>8, <1>10, <3>2, <3>3
  <2> QED BY <2>1, <2>2
<1> QED BY <1>4, <1>8, <1>9, <1>10

LEMMA NoFrames ==
  ASSUME Typed, Framed
  PROVE  stack = <<>> <=> \A d \in 1..Depth : walk[d].node # "query"
<1>1. Len(stack) \in Nat /\ (stack = <<>> <=> Len(stack) = 0)
  BY StackTyped
<1>2. ASSUME stack = <<>>, NEW d \in 1..Depth
      PROVE  walk[d].node # "query"
  <2>1. \A i \in 1..Len(stack) : FALSE
    BY <1>1, <1>2
  <2> QED BY <2>1 DEF Framed
<1>3. ASSUME stack # <<>>
      PROVE  \E d \in 1..Depth : walk[d].node = "query"
  <2>1. 1 \in 1..Len(stack)
    BY <1>1, <1>3
  <2> QED BY <2>1 DEF Framed
<1> QED BY <1>2, <1>3

LEMMA FramedPush ==
  ASSUME Typed, Framed, Kept, UNCHANGED stack, NEW a, Pushed(a), a.node # "query"
  PROVE  Framed'
<1> DEFINE n == Len(walk)
<1>1. n \in Nat /\ Depth = n /\ Depth' = n + 1
  BY WalkTyped DEF Pushed, Depth
<1>2. /\ walk'[n + 1] = a /\ \A d \in 1..n : walk'[d] = walk[d]
      /\ \A d \in 1..(n + 1) : d \in 1..n \/ d = n + 1
      /\ \A d \in 1..n : d \in 1..(n + 1)
  BY <1>1 DEF Pushed
<1> HIDE DEF n
<1>3. \A d \in 1..(n + 1) : walk'[d].node = "query" => d \in 1..n /\ walk'[d] = walk[d]
  BY <1>2
<1>4. \A i \in 1..Len(stack) :
        \E d \in 1..(n + 1) : walk'[d].node = "query" /\ walk'[d].id = stack[i].node
  <2>1. \A i \in 1..Len(stack) : \E d \in 1..n : walk[d].node = "query" /\ walk[d].id = stack[i].node
    BY <1>1 DEF Framed
  <2> QED BY <1>2, <2>1
<1>5. \A d \in 1..(n + 1) : walk'[d].node = "query" =>
        \E i \in 1..Len(stack) : walk'[d].id = stack[i].node
  <2>1. \A d \in 1..n : walk[d].node = "query" => \E i \in 1..Len(stack) : walk[d].id = stack[i].node
    BY <1>1 DEF Framed
  <2> QED BY <1>3, <2>1
<1>6. ASSUME NEW d \in 1..(n + 1), NEW i \in 1..Len(stack),
             walk'[d].node = "query", walk'[d].id = stack[i].node
      PROVE  FrameKnown(per_query', walk'[d].items, stack[i].sources)
  <2>1. FrameKnown(per_query, walk[d].items, stack[i].sources)
    BY <1>1, <1>3, <1>6 DEF Framed
  <2> QED BY <1>3, <1>6, <2>1, FrameKept
<1>7. \A i, j \in 1..Len(stack) : i < j => stack[i].node < stack[j].node
  BY DEF Framed
<1> QED BY <1>1, <1>4, <1>5, <1>6, <1>7 DEF Framed

(* A frame for a query that has read nothing. *)
LEMMA FramedEnter ==
  ASSUME Typed, Shaped, Framed, Kept, NEW a, Pushed(a),
         a.node = "query", a.id = made + 1, a.items = <<>>, made + 1 \in Node,
         stack' = Append(stack, [node |-> made + 1, sources |-> NoSources])
  PROVE  Framed'
<1> DEFINE n == Len(walk)
           m == Len(stack)
           f == [node |-> made + 1, sources |-> NoSources]
           F == [node : Node, sources : [Name -> {None} \cup Sources]]
<1>1. n \in Nat /\ Depth = n /\ Depth' = n + 1 /\ m \in Nat /\ made \in Nat
  BY WalkTyped, StackTyped DEF Pushed, Depth, Typed
<1>2. /\ walk'[n + 1] = a /\ \A d \in 1..n : walk'[d] = walk[d]
      /\ \A d \in 1..(n + 1) : d \in 1..n \/ d = n + 1
      /\ \A d \in 1..n : d \in 1..(n + 1)
      /\ n + 1 \in 1..(n + 1)
  BY <1>1 DEF Pushed
<1>3. /\ Len(stack') = m + 1 /\ stack'[m + 1] = f /\ \A i \in 1..m : stack'[i] = stack[i]
      /\ \A i \in 1..(m + 1) : i \in 1..m \/ i = m + 1
      /\ \A i \in 1..m : i \in 1..(m + 1)
      /\ m + 1 \in 1..(m + 1)
  <2>1. stack \in Seq(F) /\ f \in F
    BY StackTyped DEF NoSources
  <2> HIDE DEF F, f
  <2> QED BY <1>1, <2>1, AppendElements DEF f
<1>4. f.node = made + 1 /\ f.sources = NoSources
  OBVIOUS
<1>5. \A i \in 1..m : stack[i].node \in 1..made
  <2>1. \A i \in 1..m : \E d \in 1..n : walk[d].node = "query" /\ walk[d].id = stack[i].node
    BY <1>1 DEF Framed
  <2>2. \A d \in 1..n : walk[d].node = "query" => walk[d].id \in 1..made
    BY <1>1 DEF Shaped
  <2> QED BY <2>1, <2>2
<1> HIDE DEF n, m, f, F
<1>6. \A i \in 1..(m + 1) :
        \E d \in 1..(n + 1) : walk'[d].node = "query" /\ walk'[d].id = stack'[i].node
  <2>1. \A i \in 1..m : \E d \in 1..n : walk[d].node = "query" /\ walk[d].id = stack[i].node
    BY <1>1 DEF Framed, m
  <2>2. \A i \in 1..m :
          \E d \in 1..(n + 1) : walk'[d].node = "query" /\ walk'[d].id = stack'[i].node
    BY <1>2, <1>3, <2>1
  <2>3. walk'[n + 1].node = "query" /\ walk'[n + 1].id = stack'[m + 1].node
    BY <1>2, <1>3, <1>4
  <2> QED BY <1>2, <1>3, <2>2, <2>3
<1>7. \A d \in 1..(n + 1) : walk'[d].node = "query" =>
        \E i \in 1..(m + 1) : walk'[d].id = stack'[i].node
  <2>1. \A d \in 1..n : walk[d].node = "query" => \E i \in 1..m : walk[d].id = stack[i].node
    BY <1>1 DEF Framed, m
  <2>2. walk'[n + 1].id = stack'[m + 1].node
    BY <1>2, <1>3, <1>4
  <2> QED BY <1>2, <1>3, <2>1, <2>2
<1>8. ASSUME NEW i \in 1..(m + 1), NEW j \in 1..(m + 1), i < j
      PROVE  stack'[i].node < stack'[j].node
  <2>1. i \in 1..m
    BY <1>1, <1>8
  <2>2. CASE j \in 1..m
    BY <1>3, <1>8, <2>1, <2>2 DEF Framed, m
  <2>3. CASE j = m + 1
    <3>1. stack'[i].node \in 1..made /\ stack'[j].node = made + 1
      BY <1>3, <1>4, <1>5, <2>1, <2>3
    <3>2. \A x, y : x \in 1..made /\ y = made + 1 => x < y
      BY <1>1
    <3> QED BY <3>1, <3>2
  <2> QED BY <1>3, <2>2, <2>3
<1>9. ASSUME NEW d \in 1..(n + 1), NEW i \in 1..(m + 1),
             walk'[d].node = "query", walk'[d].id = stack'[i].node
      PROVE  FrameKnown(per_query', walk'[d].items, stack'[i].sources)
  <2>1. d \in 1..n => walk'[d].id \in 1..made
    BY <1>1, <1>2, <1>9 DEF Shaped
  <2>2. i \in 1..m => stack'[i].node \in 1..made
    BY <1>3, <1>5
  <2>3. walk'[n + 1].id = made + 1 /\ stack'[m + 1].node = made + 1 /\ made + 1 \notin 1..made
    BY <1>1, <1>2, <1>3, <1>4
  <2>4. d \in 1..n <=> i \in 1..m
    BY <1>2, <1>3, <1>9, <2>1, <2>2, <2>3
  <2>5. CASE d \in 1..n
    <3>1. FrameKnown(per_query, walk[d].items, stack[i].sources)
      BY <1>1, <1>2, <1>3, <1>9, <2>4, <2>5 DEF Framed, m
    <3> QED BY <1>2, <1>3, <2>4, <2>5, <3>1, FrameKept
  <2>6. CASE d = n + 1 /\ i = m + 1
    <3>1. walk'[d].items = <<>> /\ stack'[i].sources = NoSources
      BY <1>2, <1>3, <1>4, <2>6
    <3>2. FrameKnown(per_query', <<>>, NoSources)
      <4>1. \A j \in 1..Len(<<>>) : FALSE
        OBVIOUS
      <4>2. \A x \in Name : NoSources[x] = None
        BY DEF NoSources
      <4> QED BY <4>1, <4>2 DEF FrameKnown
    <3> QED BY <3>1, <3>2
  <2> QED BY <1>2, <1>3, <2>3, <2>4, <2>5, <2>6
<1> QED BY <1>1, <1>3, <1>6, <1>7, <1>8, <1>9 DEF Framed, m

LEMMA FramedTrim ==
  ASSUME Typed, Framed, NEW n, Trimmed(n),
         \A d \in 1..Depth : d > n => walk[d].node # "query",
         Len(stack') = Len(stack),
         \A i \in 1..Len(stack) : stack'[i].node = stack[i].node,
         \A d \in 1..n, i \in 1..Len(stack) :
           walk[d].node = "query" /\ walk[d].id = stack[i].node =>
             FrameKnown(per_query', walk'[d].items, stack'[i].sources)
  PROVE  Framed'
<1>1. Depth \in Nat /\ Depth = Len(walk) /\ n \in 0..Depth /\ Depth' = n
  BY WalkTyped DEF Trimmed, Depth
<1>2. \A d \in 1..n : d \in 1..Depth /\ walk'[d].node = walk[d].node /\ walk'[d].id = walk[d].id
  BY <1>1 DEF Trimmed
<1>3. \A i \in 1..Len(stack) :
        \E d \in 1..n : walk'[d].node = "query" /\ walk'[d].id = stack'[i].node
  <2>1. \A i \in 1..Len(stack) : \E d \in 1..Depth : walk[d].node = "query" /\ walk[d].id = stack[i].node
    BY DEF Framed
  <2>2. \A d \in 1..Depth : walk[d].node = "query" => d \in 1..n
    BY <1>1
  <2> QED BY <1>2, <2>1, <2>2
<1>4. \A d \in 1..n : walk'[d].node = "query" =>
        \E i \in 1..Len(stack) : walk'[d].id = stack'[i].node
  <2>1. \A d \in 1..Depth : walk[d].node = "query" => \E i \in 1..Len(stack) : walk[d].id = stack[i].node
    BY DEF Framed
  <2> QED BY <1>2, <2>1
<1>5. \A i, j \in 1..Len(stack) : i < j => stack'[i].node < stack'[j].node
  <2>1. \A i, j \in 1..Len(stack) : i < j => stack[i].node < stack[j].node
    BY DEF Framed
  <2> QED BY <2>1
<1>6. \A d \in 1..n, i \in 1..Len(stack) :
        walk'[d].node = "query" /\ walk'[d].id = stack'[i].node =>
          FrameKnown(per_query', walk'[d].items, stack'[i].sources)
  BY <1>2
<1> QED BY <1>1, <1>3, <1>4, <1>5, <1>6 DEF Framed

LEMMA FramedStays ==
  ASSUME Typed, Framed, Kept, UNCHANGED stack, NEW n, Trimmed(n),
         \A d \in 1..Depth : d > n => walk[d].node # "query",
         \A d \in 1..n : walk'[d].items = walk[d].items
  PROVE  Framed'
<1>1. Depth \in Nat /\ Depth = Len(walk) /\ n \in 0..Depth
  BY WalkTyped DEF Trimmed
<1>2. ASSUME NEW d \in 1..n, NEW i \in 1..Len(stack),
             walk[d].node = "query", walk[d].id = stack[i].node
      PROVE  FrameKnown(per_query', walk'[d].items, stack'[i].sources)
  <2>1. d \in 1..Depth
    BY <1>1
  <2>2. FrameKnown(per_query, walk[d].items, stack[i].sources)
    BY <1>2, <2>1 DEF Framed
  <2> QED BY <2>2, FrameKept
<1> QED BY <1>2, FramedTrim

(* A query that is left takes its frame with it. *)
LEMMA FramedLeave ==
  ASSUME Typed, Shaped, Framed, Kept, Innermost(Depth), Trimmed(Depth - 1),
         \A d \in 1..(Depth - 1) : walk'[d].items = walk[d].items,
         stack' = Front(stack)
  PROVE  Framed'
<1> DEFINE n == Depth - 1
           m == Len(stack) - 1
<1>1. Depth \in Nat \ {0} /\ Depth = Len(walk) /\ Depth' = n
  BY WalkTyped DEF Trimmed, Depth, Innermost
<1>2. \A d \in 1..n : d \in 1..Depth /\ d # Depth /\ walk'[d].node = walk[d].node /\ walk'[d].id = walk[d].id
  BY <1>1 DEF Trimmed
<1>3. Len(stack) \in 1..Len(stack) /\ Len(stack) \in Nat
  BY TopFrame, StackTyped
<1>4. Len(stack') = m /\ \A i \in 1..m : i \in 1..Len(stack) /\ i # Len(stack) /\ stack'[i] = stack[i]
  <2> DEFINE F == [node : Node, sources : [Name -> {None} \cup Sources]]
  <2>1. stack \in Seq(F) /\ stack' = SubSeq(stack, 1, Len(stack) - 1)
    BY StackTyped DEF Front
  <2> HIDE DEF F
  <2>2. Len(stack') = m /\ \A i \in 1..m : stack'[i] = stack[i]
    BY <1>3, <2>1, PrefixType
  <2>3. \A i \in 1..m : i \in 1..Len(stack) /\ i # Len(stack)
    BY <1>3
  <2> QED BY <2>2, <2>3
<1>5. \A d \in 1..Depth, i \in 1..Len(stack) :
        walk[d].node = "query" /\ walk[d].id = stack[i].node =>
          (d = Depth <=> i = Len(stack))
  BY TopFrame
<1> HIDE DEF n, m
<1>6. \A d \in 1..Depth : d # Depth => d \in 1..n
  BY <1>1 DEF n
<1>7. \A i \in 1..Len(stack) : i # Len(stack) => i \in 1..m
  BY <1>3 DEF m
<1>8. \A i \in 1..m : \E d \in 1..n : walk'[d].node = "query" /\ walk'[d].id = stack'[i].node
  <2>1. \A i \in 1..Len(stack) : \E d \in 1..Depth : walk[d].node = "query" /\ walk[d].id = stack[i].node
    BY DEF Framed
  <2> QED BY <1>2, <1>4, <1>5, <1>6, <2>1
<1>9. \A d \in 1..n : walk'[d].node = "query" => \E i \in 1..m : walk'[d].id = stack'[i].node
  <2>1. \A d \in 1..Depth : walk[d].node = "query" => \E i \in 1..Len(stack) : walk[d].id = stack[i].node
    BY DEF Framed
  <2> QED BY <1>2, <1>4, <1>5, <1>7, <2>1
<1>10. \A i, j \in 1..m : i < j => stack'[i].node < stack'[j].node
  <2>1. \A i, j \in 1..Len(stack) : i < j => stack[i].node < stack[j].node
    BY DEF Framed
  <2> QED BY <1>4, <2>1
<1>11. ASSUME NEW d \in 1..n, NEW i \in 1..m,
              walk'[d].node = "query", walk'[d].id = stack'[i].node
       PROVE  FrameKnown(per_query', walk'[d].items, stack'[i].sources)
  <2>1. d \in 1..Depth /\ i \in 1..Len(stack) /\ walk[d].node = "query" /\ walk[d].id = stack[i].node
    BY <1>2, <1>4, <1>11
  <2>2. FrameKnown(per_query, walk[d].items, stack[i].sources)
    BY <2>1 DEF Framed
  <2>3. walk'[d].items = walk[d].items
    BY DEF n
  <2> QED BY <1>4, <2>2, <2>3, FrameKept
<1> QED BY <1>1, <1>4, <1>8, <1>9, <1>10, <1>11 DEF Framed

-----------------------------------------------------------------------------
(* A source is captured *)

LEMMA ItemAppended ==
  ASSUME NEW items \in Seq(Items), NEW x \in Items
  PROVE  LET all == Append(items, x) IN
         /\ all \in Seq(Items) /\ Len(all) = Len(items) + 1 /\ Len(items) \in Nat
         /\ all[Len(items) + 1] = x /\ Len(items) + 1 \in 1..Len(all)
         /\ \A j \in 1..Len(items) : all[j] = items[j] /\ j \in 1..Len(all)
         /\ \A j \in 1..Len(all) : j = Len(items) + 1 \/ j \in 1..Len(items)
<1> DEFINE all == Append(items, x)
<1>1. /\ all \in Seq(Items) /\ Len(all) = Len(items) + 1 /\ Len(items) \in Nat
      /\ all[Len(items) + 1] = x /\ \A j \in 1..Len(items) : all[j] = items[j]
  <2> HIDE DEF Items
  <2> QED BY AppendElements
<1> HIDE DEF all
<1>2. /\ Len(items) + 1 \in 1..Len(all)
      /\ \A j \in 1..Len(items) : j \in 1..Len(all)
      /\ \A j \in 1..Len(all) : j = Len(items) + 1 \/ j \in 1..Len(items)
  BY <1>1
<1> QED BY <1>1, <1>2 DEF all

LEMMA UnnamedKnown ==
  ASSUME NEW summaries, NEW items \in Seq(Items), NEW sources,
         FrameKnown(summaries, items, sources),
         NEW m \in Meanings, NamesItsColumns(m)
  PROVE  FrameKnown(summaries, Append(items, Item(NoName, m)), sources)
<1> DEFINE all == Append(items, Item(NoName, m))
           l == Len(items)
<1>1. Item(NoName, m) \in Items /\ Item(NoName, m).name = NoName /\ Item(NoName, m).meaning = m
  BY DEF Item, Items
<1>2. /\ Len(all) = l + 1 /\ l \in Nat /\ all[l + 1] = Item(NoName, m)
      /\ \A j \in 1..l : all[j] = items[j] /\ j \in 1..Len(all)
      /\ \A j \in 1..Len(all) : j = l + 1 \/ j \in 1..l
  BY <1>1, ItemAppended
<1> HIDE DEF all, l
<1>3. \A n \in Name : sources[n] # None => \E j \in 1..Len(all) : all[j].name = n
  <2>1. \A n \in Name : sources[n] # None => \E j \in 1..l : items[j].name = n
    BY DEF FrameKnown, l
  <2> QED BY <1>2, <2>1
<1>4. ASSUME NEW j \in 1..Len(all)
      PROVE  /\ NamesItsColumns(all[j].meaning)
             /\ all[j].meaning.followed /\ all[j].name # NoName
                  /\ (\A k \in 1..Len(all) : k > j => all[k].name # all[j].name)
                => Faithful(summaries, sources[all[j].name], all[j].meaning)
  <2>1. CASE j = l + 1
    BY <1>1, <1>2, <2>1
  <2>2. CASE j \in 1..l
    <3>1. all[j] = items[j] /\ \A k \in 1..l : all[k] = items[k] /\ k \in 1..Len(all)
      BY <1>2, <2>2
    <3>2. /\ NamesItsColumns(items[j].meaning)
          /\ items[j].meaning.followed /\ items[j].name # NoName
               /\ (\A k \in 1..l : k > j => items[k].name # items[j].name)
             => Faithful(summaries, sources[items[j].name], items[j].meaning)
      BY <2>2 DEF FrameKnown, l
    <3> QED BY <3>1, <3>2
  <2> QED BY <1>2, <2>1, <2>2
<1>5. FrameKnown(summaries, all, sources)
  BY <1>3, <1>4 DEF FrameKnown
<1> QED BY <1>5 DEF all

LEMMA CapturedKnown ==
  ASSUME NEW summaries, NEW items \in Seq(Items), NEW T, NEW sources \in [Name -> T],
         FrameKnown(summaries, items, sources),
         NEW n \in Name, NEW s, NEW m \in Meanings, NamesItsColumns(m),
         m.followed => Faithful(summaries, s, m)
  PROVE  FrameKnown(summaries, Append(items, Item(n, m)), [sources EXCEPT ![n] = s])
<1> DEFINE all == Append(items, Item(n, m))
           new == [sources EXCEPT ![n] = s]
           l == Len(items)
<1>1. Item(n, m) \in Items /\ Item(n, m).name = n /\ Item(n, m).meaning = m /\ n # NoName
  BY LineageAssumption DEF Item, Items
<1>2. /\ Len(all) = l + 1 /\ l \in Nat /\ all[l + 1] = Item(n, m) /\ l + 1 \in 1..Len(all)
      /\ \A j \in 1..l : all[j] = items[j] /\ j \in 1..Len(all)
      /\ \A j \in 1..Len(all) : j = l + 1 \/ j \in 1..l
  BY <1>1, ItemAppended
<1>3. new[n] = s /\ \A o \in Name : o # n => new[o] = sources[o]
  OBVIOUS
<1> HIDE DEF all, l, new
<1>4. \A o \in Name : new[o] # None => \E j \in 1..Len(all) : all[j].name = o
  <2>1. \A o \in Name : sources[o] # None => \E j \in 1..l : items[j].name = o
    BY DEF FrameKnown, l
  <2>2. all[l + 1].name = n
    BY <1>1, <1>2
  <2> QED BY <1>2, <1>3, <2>1, <2>2
<1>5. ASSUME NEW j \in 1..Len(all)
      PROVE  /\ NamesItsColumns(all[j].meaning)
             /\ all[j].meaning.followed /\ all[j].name # NoName
                  /\ (\A k \in 1..Len(all) : k > j => all[k].name # all[j].name)
                => Faithful(summaries, new[all[j].name], all[j].meaning)
  <2>1. CASE j = l + 1
    BY <1>1, <1>2, <1>3, <2>1
  <2>2. CASE j \in 1..l
    <3>1. all[j] = items[j] /\ \A k \in 1..l : all[k] = items[k] /\ k \in 1..Len(all)
      BY <1>2, <2>2
    <3>2. /\ NamesItsColumns(items[j].meaning)
          /\ items[j].meaning.followed /\ items[j].name # NoName
               /\ (\A k \in 1..l : k > j => items[k].name # items[j].name)
             => Faithful(summaries, sources[items[j].name], items[j].meaning)
      BY <2>2 DEF FrameKnown, l
    <3>3. l + 1 > j
      BY <1>2, <2>2
    <3>4. items[j].name \in {NoName} \cup Name
      <4>1. items[j] \in Items
        BY <2>2 DEF l
      <4> QED BY <4>1 DEF Items
    <3>5. (\A k \in 1..Len(all) : k > j => all[k].name # all[j].name) => items[j].name # n
      BY <1>1, <1>2, <3>1, <3>3
    <3>6. items[j].name # NoName /\ items[j].name # n => new[items[j].name] = sources[items[j].name]
      BY <1>3, <3>4
    <3> QED BY <3>1, <3>2, <3>5, <3>6
  <2> QED BY <1>2, <2>1, <2>2
<1>6. FrameKnown(summaries, all, new)
  BY <1>4, <1>5 DEF FrameKnown
<1> QED BY <1>6 DEF all, new

Frame == [node : Node, sources : [Name -> {None} \cup Sources]]

Captures(name, s) ==
  stack' = IF name = NoName THEN stack
           ELSE [stack EXCEPT ![Len(stack)].sources[name] = s]

LEMMA FramedCapture ==
  ASSUME Typed, Shaped, Framed, UNCHANGED per_query, NEW n, Innermost(n), Trimmed(n),
         NEW name \in {NoName} \cup Name, NEW m \in Meanings, NEW s, name # NoName => s \in Sources,
         walk'[n].items = Append(walk[n].items, Item(name, m)),
         NamesItsColumns(m),
         name # NoName /\ m.followed => Faithful(per_query, s, m),
         Captures(name, s)
  PROVE  Framed' /\ stack' \in Seq(Frame)
<1> DEFINE top == Len(stack)
<1>1. Depth \in Nat /\ Depth = Len(walk) /\ n \in 1..Depth /\ walk[n].items \in Seq(Items)
  BY WalkTyped DEF Innermost
<1>2. /\ top \in 1..top /\ top \in Nat /\ stack[top].node = walk[n].id
      /\ FrameKnown(per_query, walk[n].items, stack[top].sources)
      /\ \A d \in 1..Depth, i \in 1..top :
           walk[d].node = "query" /\ walk[d].id = stack[i].node => (d = n <=> i = top)
  BY TopFrame, StackTyped
<1>3. stack \in Seq(Frame) /\ \A i \in 1..top : stack[i] \in Frame
  BY StackTyped DEF Frame
<1>4. /\ Len(stack') = top /\ stack' \in Seq(Frame)
      /\ \A i \in 1..top : stack'[i].node = stack[i].node
      /\ \A i \in 1..top : i # top => stack'[i] = stack[i]
      /\ stack'[top].sources = IF name = NoName THEN stack[top].sources
                               ELSE [stack[top].sources EXCEPT ![name] = s]
  <2>1. CASE name = NoName
    BY <1>3, <2>1 DEF Captures
  <2>2. CASE name # NoName
    <3> DEFINE new == [stack[top] EXCEPT !.sources = [@ EXCEPT ![name] = s]]
    <3>1. name \in Name /\ stack[top] \in Frame /\ s \in Sources
      BY <1>2, <1>3, <2>2
    <3>2. new \in Frame /\ new.node = stack[top].node
          /\ new.sources = [stack[top].sources EXCEPT ![name] = s]
      BY <3>1 DEF Frame
    <3>3. stack' = [stack EXCEPT ![top] = new]
      BY <2>2 DEF Captures
    <3> HIDE DEF new
    <3>4. /\ Len(stack') = top /\ stack' \in Seq(Frame) /\ stack'[top] = new
          /\ \A i \in 1..top : i # top => stack'[i] = stack[i]
      <4>1. top \in 1..Len(stack)
        BY <1>2
      <4> QED BY <1>3, <3>2, <3>3, <4>1, ReplaceType
    <3> QED BY <2>2, <3>2, <3>4
  <2> QED BY <2>1, <2>2
<1>5. FrameKnown(per_query, walk'[n].items, stack'[top].sources)
  <2>1. CASE name = NoName
    BY <1>1, <1>2, <1>4, <2>1, UnnamedKnown
  <2>2. CASE name # NoName
    <3>1. name \in Name /\ stack[top].sources \in [Name -> {None} \cup Sources]
      BY <1>2, <1>3, <2>2 DEF Frame
    <3>2. m.followed => Faithful(per_query, s, m)
      BY <2>2
    <3>3. FrameKnown(per_query, Append(walk[n].items, Item(name, m)), [stack[top].sources EXCEPT ![name] = s])
      BY <1>1, <1>2, <3>1, <3>2, CapturedKnown
    <3> QED BY <1>4, <2>2, <3>3
  <2> QED BY <2>1, <2>2
<1>6. ASSUME NEW d \in 1..n, NEW i \in 1..top,
             walk[d].node = "query", walk[d].id = stack[i].node
      PROVE  FrameKnown(per_query', walk'[d].items, stack'[i].sources)
  <2>1. d \in 1..Depth /\ (d = n <=> i = top)
    BY <1>1, <1>2, <1>6
  <2>2. CASE d = n
    BY <1>5, <2>1, <2>2
  <2>3. CASE d # n
    <3>1. d \in 1..(n - 1)
      BY <1>1, <2>3
    <3>2. walk'[d] = walk[d] /\ stack'[i] = stack[i]
      BY <1>4, <2>1, <2>3, <3>1 DEF Trimmed
    <3>3. FrameKnown(per_query, walk[d].items, stack[i].sources)
      BY <1>6, <2>1 DEF Framed
    <3> QED BY <3>2, <3>3
  <2> QED BY <2>2, <2>3
<1>7. \A d \in 1..Depth : d > n => walk[d].node # "query"
  BY DEF Innermost
<1>8. Framed'
  <2> HIDE DEF top
  <2>1. \A d \in 1..n, i \in 1..top :
           walk[d].node = "query" /\ walk[d].id = stack[i].node =>
             FrameKnown(per_query', walk'[d].items, stack'[i].sources)
    BY <1>6
  <2> QED BY <1>4, <1>7, <2>1, FramedTrim DEF top
<1> QED BY <1>4, <1>8

-----------------------------------------------------------------------------
(* What a name of the FROM clause is classified as *)

(* Under `simple` at most one WITH clause is open: the statement's.        *)
LEMMA OneScope ==
  ASSUME Typed, Scoped
  PROVE  /\ \A n \in Name : Meaning(n) = IF InWith /\ ctes[1][n] # None THEN ctes[1][n] ELSE OfRelation(n)
         /\ \A n \in Name : IsView(n) <=> Schema[n].kind = "view" /\ ~(InWith /\ ctes[1][n] # None)
<1> DEFINE binds(n) == {k \in DOMAIN ctes : ctes[k][n] # None}
<1>1. CASE InWith
  <2>1. Len(ctes) = 1 /\ DOMAIN ctes = {1}
    <3>1. Len(ctes) = 1
      BY <1>1 DEF Scoped
    <3>2. \A S : ctes \in Seq(S) => DOMAIN ctes = 1..Len(ctes)
      OBVIOUS
    <3>3. DOMAIN ctes = 1..Len(ctes)
      BY <3>2 DEF Typed
    <3> QED BY <3>1, <3>3
  <2>2. ASSUME NEW n \in Name, ctes[1][n] # None
        PROVE  Meaning(n) = ctes[1][n]
    <3>1. binds(n) = {1}
      BY <2>1, <2>2
    <3> DEFINE last == CHOOSE k \in binds(n) : \A j \in binds(n) : j <= k
    <3>2. last \in {1}
      <4>1. \E k \in {1} : \A j \in {1} : j <= k
        OBVIOUS
      <4> HIDE DEF binds
      <4> QED BY <3>1, <4>1
    <3>3. Meaning(n) = ctes[last][n]
      BY <3>1 DEF Meaning
    <3> QED BY <3>2, <3>3
  <2>3. ASSUME NEW n \in Name, ctes[1][n] = None
        PROVE  Meaning(n) = OfRelation(n)
    <3>1. binds(n) = {}
      BY <2>1, <2>3
    <3> QED BY <3>1 DEF Meaning
  <2> QED BY <1>1, <2>1, <2>2, <2>3 DEF IsView
<1>2. CASE ~InWith
  <2>1. ctes = <<>> /\ DOMAIN ctes = {}
    BY <1>2 DEF Scoped
  <2>2. \A n \in Name : binds(n) = {}
    BY <2>1
  <2> QED BY <1>2, <2>1, <2>2 DEF Meaning, IsView
<1> QED BY <1>1, <1>2

LEMMA ScopeTyped ==
  ASSUME Typed, Scoped, InWith, NEW n \in Name
  PROVE  ctes[1][n] \in {None} \cup Meanings
<1> DEFINE S == [Name -> {None} \cup Meanings]
<1>1. Len(ctes) = 1 /\ ctes \in Seq(S)
  BY DEF Scoped, Typed
<1> HIDE DEF S
<1>2. ctes[1] \in S
  <2>1. \A T : \A q \in Seq(T) : Len(q) = 1 => q[1] \in T
    OBVIOUS
  <2> QED BY <1>1, <2>1
<1> QED BY <1>2 DEF S

LEMMA MeaningType ==
  ASSUME Typed, Scoped, NEW n \in Name
  PROVE  Means(Meaning(n))
<1>1. CASE InWith /\ ctes[1][n] # None
  <2>1. Meaning(n) = ctes[1][n] /\ ctes[1][n] \in Meanings
    BY <1>1, OneScope, ScopeTyped
  <2>2. NamesItsColumns(ctes[1][n])
    BY <1>1 DEF Scoped
  <2> QED BY <2>1, <2>2 DEF Means
<1>2. CASE ~(InWith /\ ctes[1][n] # None)
  BY <1>2, OneScope, OfRelationMeans
<1> QED BY <1>1, <1>2

(* What a name is classified as is faithful to what it means. *)
LEMMA Classified ==
  ASSUME Typed, Scoped, walk # <<>>, NEW n \in Name
  PROVE  /\ Classify(n) \in Sources
         /\ Meaning(n).followed => Faithful(per_query, Classify(n), Meaning(n))
<1> DEFINE m == Meaning(n)
           s == Classify(n)
           body == cte_bodies[n]
<1>1. m \in Meanings /\ m.names \in Names
  BY MeaningType DEF Means, Meanings
<1>2. /\ s.canonical = n /\ s.body = body
      /\ s.kind = IF body # None THEN "nested" ELSE IF IsView(n) THEN "view" ELSE "table"
      /\ s.columns = IF body # None /\ per_query[body] # None
                     THEN per_query[body].column_names ELSE m.names
      /\ s = [canonical |-> n, body |-> body, kind |-> s.kind, columns |-> s.columns]
  BY DEF Classify, TableInfo
<1> HIDE DEF s, m
<1>3. CASE InWith /\ ctes[1][n] # None
  <2>1. m = ctes[1][n] /\ body # None /\ (m.followed => Summarised(per_query, body, m))
    BY <1>3, OneScope DEF Scoped, m
  <2>2. body \in Node
    BY <2>1 DEF Typed
  <2>3. per_query[body] # None => per_query[body].column_names \in Names
    BY <2>2 DEF Typed, Summaries, Names
  <2>4. s \in Sources
    BY <1>1, <1>2, <2>1, <2>2, <2>3 DEF Sources
  <2>5. m.followed => per_query[body] # None /\ (m.names # Unknown => per_query[body].column_names = m.names)
    BY <2>1 DEF Summarised
  <2>6. m.followed => Faithful(per_query, s, m)
    BY <1>2, <2>1, <2>4, <2>5 DEF Faithful
  <2> QED BY <2>4, <2>6 DEF s, m
<1>4. CASE ~(InWith /\ ctes[1][n] # None)
  <2>1. m = OfRelation(n) /\ (IsView(n) <=> Schema[n].kind = "view")
    BY <1>4, OneScope DEF m
  <2>2. body = None
    BY <1>4 DEF Scoped
  <2>3. s.kind = (IF Schema[n].kind = "view" THEN "view" ELSE "table") /\ s.columns = m.names
    BY <1>2, <2>1, <2>2
  <2>4. s \in Sources
    BY <1>1, <1>2, <2>2, <2>3 DEF Sources
  <2>5. m.followed => Schema[n].kind # "none"
    BY <2>1, OfRelationMeans
  <2>6. Schema[n].kind \in {"table", "view", "none"}
    BY OfRelationMeans DEF Kinds
  <2>7. m.followed => Faithful(per_query, s, m)
    BY <1>2, <2>1, <2>3, <2>4, <2>5, <2>6 DEF Faithful
  <2> QED BY <2>4, <2>7 DEF s, m
<1> QED BY <1>3, <1>4

-----------------------------------------------------------------------------
(* The WITH clause, and the statement's own query, while the walk goes on *)

LEMMA BindingsKept ==
  ASSUME Typed, Scoped, Kept, UNCHANGED <<ctes, cte_bodies>>, InWith
  PROVE  \A n \in Name :
           /\ cte_bodies'[n] = None <=> ctes'[1][n] = None
           /\ ctes'[1][n] # None =>
                /\ NamesItsColumns(ctes'[1][n])
                /\ ctes'[1][n].followed => Summarised(per_query', cte_bodies'[n], ctes'[1][n])
<1>1. \A q, m : Summarised(per_query, q, m) => Summarised(per_query', q, m)
  BY SummarisedKept
<1> QED BY <1>1 DEF Scoped, NamesItsColumns

LEMMA ScopedPush ==
  ASSUME Typed, Scoped, Kept, UNCHANGED <<ctes, cte_bodies>>, NEW a, Pushed(a),
         made' \in {made, made + 1},
         a.node \notin {"with", "cte"},
         walk = <<>> => made = 0,
         Depth = 2 /\ walk[2].node = "cte" =>
           walk[2].bodies = <<>> /\ made' = made + 1 /\ a.id = made'
  PROVE  Scoped'
<1> DEFINE n == Depth
<1>1. n \in Nat /\ Depth' = n + 1 /\ made \in Nat /\ made' \in Nat /\ walk' # <<>> /\ (walk = <<>> <=> n = 0)
  <2>1. Depth' = n + 1 /\ n \in Nat
    BY WalkTyped DEF Pushed, Depth
  <2>2. Len(<<>>) = 0
    OBVIOUS
  <2> QED BY <2>1, <2>2, WalkTyped DEF Typed, Depth
<1>2. /\ walk'[n + 1] = a /\ \A d \in 1..n : walk'[d] = walk[d]
  BY WalkTyped DEF Pushed
<1>3. InWith' <=> InWith
  <2>1. CASE n = 0
    BY <1>1, <1>2, <2>1 DEF InWith
  <2>2. CASE n # 0
    BY <1>1, <1>2, <2>2 DEF InWith
  <2> QED BY <2>1, <2>2
<1> HIDE DEF n
<1>4. IF InWith' THEN Len(ctes') = 1 ELSE ctes' = <<>>
  BY <1>3 DEF Scoped
<1>5. ~InWith' => \A x \in Name : cte_bodies'[x] = None
  BY <1>3 DEF Scoped
<1>6. n > 1 => walk'[2] = walk[2] /\ 2 \in 1..n
  BY <1>1, <1>2
<1>7. ASSUME NEW x \in Name, cte_bodies'[x] # None
      PROVE  cte_bodies'[x] <= made'
  <2>1. cte_bodies[x] \in Nat
    BY <1>7 DEF Typed, Node
  <2>2. CASE cte_bodies[x] <= made
    BY <1>1, <2>1, <2>2
  <2>3. CASE BodyDue /\ x = walk[2].name
    <3>1. made' = made + 1 /\ cte_bodies[x] = made + 1
      BY <2>3 DEF BodyDue, Scoped
    <3> QED BY <1>1, <3>1
  <2> QED BY <1>7, <2>2, <2>3 DEF Scoped
<1>8. ASSUME Depth' > 1, walk'[2].node = "cte"
      PROVE  /\ cte_bodies'[walk'[2].name] =
                  IF walk'[2].bodies # <<>> THEN walk'[2].bodies[1].id
                  ELSE IF Depth' = 2 THEN made' + 1 ELSE walk'[3].id
             /\ Depth' > 2 => walk'[2].bodies = <<>>
  <2>1. n > 1
    <3> SUFFICES ASSUME n = 1 PROVE FALSE
      BY <1>1, <1>8
    <3> QED BY <1>2, <1>8
  <2>2. Depth' # 2 /\ walk'[2] = walk[2]
    BY <1>1, <1>6, <2>1
  <2>3. CASE n = 2
    <3>0. Depth = 2 /\ walk[2].node = "cte"
      BY <1>8, <2>2, <2>3 DEF n
    <3>4. walk[2].bodies = <<>> /\ made' = made + 1 /\ a.id = made'
      BY <3>0
    <3>5. cte_bodies[walk[2].name] = made + 1
      <4>1. Depth > 1
        BY <3>0
      <4>2. cte_bodies[walk[2].name] = IF walk[2].bodies # <<>> THEN walk[2].bodies[1].id
                  ELSE IF Depth = 2 THEN made + 1 ELSE walk[3].id
        BY <3>0, <4>1 DEF Scoped
      <4> QED BY <3>0, <3>4, <4>2
    <3>1. walk[2].bodies = <<>> /\ made' = made + 1 /\ a.id = made + 1 /\ cte_bodies[walk[2].name] = made + 1
      BY <3>4, <3>5
    <3>2. walk'[3] = a
      BY <1>2, <2>3
    <3> QED BY <2>2, <3>1, <3>2
  <2>4. CASE n # 2
    <3>1. n > 2 /\ walk'[3] = walk[3]
      BY <1>1, <1>2, <2>1, <2>4
    <3>2. Depth > 2 /\ Depth > 1 /\ Depth # 2 /\ walk[2].node = "cte"
      BY <1>1, <1>8, <2>2, <3>1 DEF n
    <3>3. /\ cte_bodies[walk[2].name] = IF walk[2].bodies # <<>> THEN walk[2].bodies[1].id
                  ELSE IF Depth = 2 THEN made + 1 ELSE walk[3].id
          /\ Depth > 2 => walk[2].bodies = <<>>
      BY <3>2 DEF Scoped
    <3>4. walk[2].bodies = <<>> /\ cte_bodies[walk[2].name] = walk[3].id
      BY <3>2, <3>3
    <3> QED BY <2>2, <3>1, <3>4
  <2> QED BY <2>3, <2>4
<1> QED BY <1>3, <1>4, <1>5, <1>7, <1>8, BindingsKept DEF Scoped

LEMMA ScopedTrim ==
  ASSUME Typed, Scoped, Kept, UNCHANGED <<ctes, cte_bodies, made>>, NEW n, Trimmed(n),
         ~BodyDue, n = 0 => made # 0 /\ ~InWith,
         n # 0 /\ walk[n].node = "cte" =>
           Depth = n + 1 /\ \E b : /\ walk'[n].bodies = Append(walk[n].bodies, b)
                                   /\ b.id = walk[n + 1].id
  PROVE  Scoped'
<1>1. /\ Depth \in Nat /\ n \in 0..Depth /\ Depth' = n /\ made \in Nat
      /\ (walk = <<>> <=> Depth = 0) /\ (walk' = <<>> <=> n = 0)
  <2>1. Depth \in Nat /\ Depth = Len(walk) /\ n \in 0..Depth /\ Depth' = n /\ (walk = <<>> <=> Depth = 0)
    BY WalkTyped DEF Trimmed, Depth
  <2>2. walk' = <<>> <=> n = 0
    <3>1. \A S : \A q \in Seq(S) : q = <<>> <=> Len(q) = 0
      OBVIOUS
    <3> QED BY <3>1 DEF Trimmed
  <2> QED BY <2>1, <2>2 DEF Typed
<1>2. /\ \A d \in 1..(n - 1) : walk'[d] = walk[d]
      /\ \A d \in 1..n : /\ walk'[d].node = walk[d].node /\ walk'[d].id = walk[d].id
                         /\ walk'[d].name = walk[d].name
  BY DEF Trimmed
<1>3. n # 0 => (InWith' <=> InWith)
  BY <1>1, <1>2 DEF InWith
<1>4. n = 0 => ~InWith' /\ ~InWith
  BY <1>1 DEF InWith
<1>5. InWith' <=> InWith
  BY <1>3, <1>4
<1>6. IF InWith' THEN Len(ctes') = 1 ELSE ctes' = <<>>
  BY <1>5 DEF Scoped
<1>7. ~InWith' /\ (walk' # <<>> \/ made' = 0) => \A x \in Name : cte_bodies'[x] = None
  BY <1>1, <1>5 DEF Scoped
<1>8. ASSUME n > 1, walk'[2].node = "cte"
      PROVE  /\ walk[2].node = "cte" /\ walk'[2].name = walk[2].name
             /\ Depth > 2
             /\ n > 2 => walk'[2] = walk[2] /\ walk'[3].id = walk[3].id
             /\ n = 2 => walk'[2].bodies # <<>> /\ walk'[2].bodies[1].id = walk[3].id
  <2>1. 2 \in 1..n /\ walk[2].node = "cte" /\ walk'[2].name = walk[2].name
    BY <1>1, <1>2, <1>8
  <2>2. CASE n > 2
    <3>1. 2 \in 1..(n - 1) /\ 3 \in 1..n /\ Depth > 2
      BY <1>1, <2>2
    <3> QED BY <1>2, <2>1, <2>2, <3>1
  <2>3. CASE n = 2
    <3>1. Depth = 3
      BY <1>1, <2>1, <2>3
    <3>2. PICK b : walk'[2].bodies = Append(walk[2].bodies, b) /\ b.id = walk[3].id
      BY <2>1, <2>3
    <3>3. walk[2].bodies = <<>>
      BY <2>1, <3>1 DEF Scoped
    <3>4. Append(<<>>, b) # <<>> /\ Append(<<>>, b)[1] = b
      OBVIOUS
    <3> QED BY <2>1, <2>3, <3>1, <3>2, <3>3, <3>4
  <2> QED BY <1>1, <1>8, <2>2, <2>3
<1>9. ASSUME NEW x \in Name, cte_bodies'[x] # None
      PROVE  cte_bodies'[x] <= made' \/ (BodyDue' /\ x = walk'[2].name)
  <2>1. CASE cte_bodies[x] <= made
    BY <2>1
  <2> QED BY <1>9, <2>1 DEF Scoped
<1>10. Depth' > 1 /\ walk'[2].node = "cte" =>
             /\ cte_bodies'[walk'[2].name] =
                  IF walk'[2].bodies # <<>> THEN walk'[2].bodies[1].id
                  ELSE IF Depth' = 2 THEN made' + 1 ELSE walk'[3].id
             /\ Depth' > 2 => walk'[2].bodies = <<>>
  <2> SUFFICES ASSUME n > 1, walk'[2].node = "cte"
               PROVE  /\ cte_bodies[walk'[2].name] =
                           IF walk'[2].bodies # <<>> THEN walk'[2].bodies[1].id
                           ELSE IF n = 2 THEN made + 1 ELSE walk'[3].id
                      /\ n > 2 => walk'[2].bodies = <<>>
    BY <1>1
  <2>1. /\ walk[2].bodies = <<>> /\ cte_bodies[walk[2].name] = walk[3].id
    BY <1>1, <1>8 DEF Scoped
  <2> QED BY <1>1, <1>8, <2>1
<1> QED BY <1>5, <1>6, <1>7, <1>9, <1>10, BindingsKept DEF Scoped

LEMMA ActivationType ==
  ASSUME NEW node \in {"query", "source", "compound", "with", "cte"},
         NEW id \in {None} \cup Node, NEW part \in {"from", "columns", "body", "bindings"}
  PROVE  LET a == Activation(node, id, part) IN
         /\ a \in Activations /\ a.node = node /\ a.id = id /\ a.part = part
         /\ a.items = <<>> /\ a.bodies = <<>>
BY DEF Activation, Activations, Names

LEMMA BodyMay ==
  ASSUME Typed, BodyMayStart
  PROVE  /\ made + 1 \in Node /\ made \in Nat /\ made + 1 \in 0..MaxNodes
         /\ walk = <<>> => made = 0
         /\ Depth > 0 =>
              /\ walk[Depth].bodies = <<>>
              /\ \/ walk[Depth].node \in {"source", "cte"}
                 \/ walk[Depth].node = "with" /\ walk[Depth].part = "body"
<1>1. made \in Nat /\ made < MaxNodes /\ MaxNodes \in Nat
  BY LineageAssumption DEF BodyMayStart, Typed
<1>2. walk = <<>> <=> Depth = 0
  BY WalkTyped
<1> QED BY <1>1, <1>2 DEF BodyMayStart, TopIs, Top, Node

LEMMA QueryMay ==
  ASSUME Typed, QueryMayStart
  PROVE  /\ made + 1 \in Node /\ made \in Nat /\ made + 1 \in 0..MaxNodes
         /\ walk = <<>> => made = 0
         /\ Depth > 0 =>
              /\ \/ walk[Depth].node \in {"source", "cte", "compound"}
                 \/ walk[Depth].node = "with" /\ walk[Depth].part = "body"
                 \/ walk[Depth].node = "query" /\ walk[Depth].part = "columns"
              /\ walk[Depth].node \in {"cte", "with"} => walk[Depth].bodies = <<>>
<1>1. CASE BodyMayStart
  BY <1>1, BodyMay
<1>2. CASE Depth < MaxDepth /\ made < MaxNodes /\ (InArms \/ TopIs("query", "columns"))
  <2>1. made \in Nat /\ MaxNodes \in Nat
    BY LineageAssumption DEF Typed
  <2>2. walk # <<>>
    BY <1>2, WalkTyped DEF InArms, TopIs
  <2> QED BY <1>2, <2>1, <2>2 DEF InArms, TopIs, Top, Node
<1> QED BY <1>1, <1>2 DEF QueryMayStart

LEMMA TopInWith ==
  ASSUME Typed, Shaped, Depth > 0, walk[Depth].node = "with"
  PROVE  Depth = 1 /\ InWith /\ \A d \in 1..Depth : walk[d].node # "query"
<1>1. Depth \in 1..Depth /\ (walk = <<>> <=> Depth = 0)
  BY WalkTyped
<1>2. Depth = 1
  BY <1>1 DEF Shaped
<1> QED BY <1>1, <1>2 DEF InWith

LEMMA OuterEnter ==
  ASSUME Typed, Shaped, Scoped, Framed, OuterKnown, EnterQuery,
         NEW a, Pushed(a), a.node = "query"
  PROVE  OuterKnown'
<1>0. made + 1 \in Node /\ made \in Nat /\ None \notin Nat
  BY QueryMay, LineageAssumption DEF EnterQuery
<1>1. /\ Depth \in Nat /\ Depth' = Depth + 1 /\ walk' # <<>>
      /\ walk'[Depth + 1] = a /\ \A d \in 1..Depth : walk'[d] = walk[d]
      /\ (walk = <<>> <=> Depth = 0)
  <2>1. \A S : \A q \in Seq(S) : q = <<>> <=> Len(q) = 0
    OBVIOUS
  <2> QED BY <2>1, WalkTyped DEF Pushed, Depth
<1>2. /\ made' = made + 1
      /\ outer_query' = IF /\ outer_query = None /\ stack = <<>>
                           /\ \A n \in Name : cte_bodies[n] # made + 1
                        THEN made + 1 ELSE outer_query
      /\ main' = IF Outermost THEN made + 1 ELSE main
  BY DEF EnterQuery
<1>3. CASE Outermost
  <2>1. BeforeMain /\ stack = <<>> /\ ~BeforeMain'
    <3>1. CASE walk = <<>>
      <4>1. made = 0 /\ Depth = 0 /\ stack = <<>>
        BY <1>1, <3>1, QueryMay, NoFrames DEF EnterQuery
      <4>2. walk'[1].node = "query"
        BY <1>1, <4>1
      <4> QED BY <1>1, <3>1, <4>1, <4>2 DEF BeforeMain, InWith
    <3>2. CASE Depth = 1 /\ Top.node = "with" /\ Top.part = "body"
      <4>1. walk[1].node = "with" /\ walk[1].part = "body" /\ walk # <<>>
        BY <1>1, <3>2 DEF Top
      <4>2. walk[1].bodies = <<>>
        BY <1>1, <3>2, <4>1, QueryMay DEF EnterQuery
      <4>3. stack = <<>>
        BY <3>2, <4>1, TopInWith, NoFrames
      <4>4. walk'[1] = walk[1] /\ Depth' = 2
        BY <1>1, <3>2
      <4> QED BY <1>1, <3>2, <4>1, <4>2, <4>3, <4>4 DEF BeforeMain, InWith
    <3> QED BY <1>3, <3>1, <3>2 DEF Outermost
  <2>2. ASSUME NEW n \in Name
        PROVE  cte_bodies[n] # made + 1
    <3>1. cte_bodies[n] # None => cte_bodies[n] \in Nat
      BY DEF Typed, Node
    <3>2. ~BodyDue
      <4>1. Depth # 2
        BY <1>1, <1>3 DEF Outermost
      <4> QED BY <4>1 DEF BodyDue
    <3>3. cte_bodies[n] # None => cte_bodies[n] <= made
      BY <3>2 DEF Scoped
    <3> QED BY <1>0, <3>1, <3>3
  <2>3. outer_query = None
    BY <2>1 DEF OuterKnown
  <2>4. outer_query' = made + 1 /\ main' = made + 1
    BY <1>2, <1>3, <2>1, <2>2, <2>3
  <2> QED BY <2>1, <2>4 DEF OuterKnown
<1>4. CASE ~Outermost
  <2>1. main' = main
    BY <1>2, <1>4
  <2>2. main # None => outer_query' = main
    BY <1>0, <1>2 DEF OuterKnown
  <2>3. ASSUME BeforeMain'
        PROVE  outer_query' = None
    <3>1. Depth > 0
      BY <1>1, <1>4 DEF Outermost
    <3>2. walk[1].node = "with" /\ walk[1].part = "bindings" /\ BeforeMain
      <4>1. Depth' # 1 /\ walk'[1] = walk[1] /\ walk # <<>>
        BY <1>1, <3>1
      <4>2. InWith' /\ walk'[1].part = "bindings"
        BY <1>1, <2>3, <4>1 DEF BeforeMain
      <4> QED BY <4>1, <4>2 DEF InWith, BeforeMain
    <3>3. outer_query = None
      BY <3>2 DEF OuterKnown
    <3>4. Depth # 1
      BY <3>2, QueryMay DEF EnterQuery
    <3>5. Under(walk[1], walk[2])
      BY <1>1, <3>1, <3>4 DEF Shaped
    <3>6. walk[2].node = "cte"
      <4>1. walk[2].node \in {"query", "source", "compound", "with", "cte"}
        <5>1. walk[2] \in Activations
          BY <1>1, <3>1, <3>4, WalkTyped
        <5> QED BY <5>1 DEF Activations
      <4> QED BY <3>2, <3>5, <4>1 DEF Under
    <3>7. CASE Depth = 2
      <4>1. walk[2].bodies = <<>>
        BY <3>6, <3>7, QueryMay DEF EnterQuery
      <4>2. Depth > 1
        BY <3>7
      <4>3. cte_bodies[walk[2].name] = made + 1
        BY <3>6, <3>7, <4>1, <4>2 DEF Scoped
      <4>4. walk[2].name \in Name
        BY <1>1, <3>6, <3>7 DEF Shaped
      <4> QED BY <1>2, <3>3, <4>3, <4>4
    <3>8. CASE Depth # 2
      <4>1. 2 \in 1..(Depth - 1) /\ 3 \in 1..Depth
        BY <1>1, <3>1, <3>4, <3>8
      <4>2. Under(walk[2], walk[3])
        <5>1. 2 + 1 = 3
          OBVIOUS
        <5> QED BY <4>1, <5>1 DEF Shaped
      <4>3. walk[3].node \in {"query", "source", "compound", "with", "cte"}
        <5>1. walk[3] \in Activations
          BY <4>1, WalkTyped
        <5> QED BY <5>1 DEF Activations
      <4>4. walk[3].node = "query"
        BY <3>6, <4>2, <4>3 DEF Under
      <4>5. stack # <<>>
        BY <4>1, <4>4, NoFrames
      <4> QED BY <1>2, <3>3, <4>5
    <3> QED BY <3>7, <3>8
  <2> QED BY <2>1, <2>2, <2>3 DEF OuterKnown
<1> QED BY <1>3, <1>4

(* What a step keeps that leaves the summaries alone. *)
LEMMA TruthKept ==
  ASSUME Truthful, UNCHANGED <<per_query, meant>>
  PROVE  Truthful'
BY DEF Truthful

LEMMA OuterKept ==
  ASSUME OuterKnown, UNCHANGED <<outer_query, main>>, BeforeMain' => BeforeMain
  PROVE  OuterKnown'
BY DEF OuterKnown

LEMMA EnterQueryKeeps ==
  ASSUME Inv, EnterQuery
  PROVE  Inv'
<1> DEFINE a == Activation("query", made', "from")
           f == [node |-> made', sources |-> NoSources]
<1>1. Typed /\ Shaped /\ Scoped /\ BodiesKnown /\ Framed /\ OuterKnown /\ Truthful
  BY DEF Inv
<1>2. /\ made' = made + 1 /\ made' \in Node /\ made' \in 0..MaxNodes
      /\ made + 1 \in Node /\ (walk = <<>> => made = 0)
  BY <1>1, QueryMay DEF EnterQuery
<1>3. /\ stack' = Append(stack, f) /\ walk' = Append(walk, a)
      /\ UNCHANGED <<cte_bodies, per_query, ctes, meant>>
      /\ outer_query' \in {made', outer_query} /\ main' \in {made', main}
  BY DEF EnterQuery
<1>4. a \in Activations /\ a.node = "query" /\ a.id = made' /\ a.items = <<>> /\ a.bodies = <<>>
  BY <1>2, ActivationType
<1> HIDE DEF a
<1>5. Pushed(a) /\ Kept
  BY <1>1, <1>3, <1>4, PushIs, KeptUnchanged
<1>6. stack' \in Seq(Frame)
  <2>1. f \in Frame
    BY <1>2 DEF Frame, NoSources
  <2> HIDE DEF f
  <2>2. stack \in Seq(Frame)
    BY <1>1 DEF Typed, Frame
  <2> QED BY <1>3, <2>1, <2>2, AppendType
<1>7. Typed'
  BY <1>1, <1>2, <1>3, <1>5, <1>6 DEF Typed, Frame, Pushed
<1>8. Depth > 0 => Under(walk[Depth], a)
  <2> SUFFICES ASSUME Depth > 0 PROVE Under(walk[Depth], a)
    OBVIOUS
  <2>1. \/ walk[Depth].node \in {"source", "cte", "compound"}
        \/ walk[Depth].node = "with" /\ walk[Depth].part = "body"
        \/ walk[Depth].node = "query" /\ walk[Depth].part = "columns"
    BY <1>1, QueryMay DEF EnterQuery
  <2> QED BY <1>4, <2>1 DEF Under
<1>9. Shaped'
  BY <1>1, <1>2, <1>3, <1>4, <1>5, <1>8, ShapedPush
<1>10. Scoped'
  <2>1. Depth = 2 /\ walk[2].node = "cte" => walk[2].bodies = <<>>
    BY <1>1, QueryMay DEF EnterQuery
  <2> QED BY <1>1, <1>2, <1>3, <1>4, <1>5, <2>1, ScopedPush
<1>11. BodiesKnown'
  BY <1>1, <1>4, <1>5, BodiesPush
<1>12. Framed'
  <2>1. stack' = Append(stack, [node |-> made + 1, sources |-> NoSources]) /\ a.id = made + 1
    BY <1>2, <1>3, <1>4
  <2> QED BY <1>1, <1>2, <1>4, <1>5, <2>1, FramedEnter
<1>13. OuterKnown'
  BY <1>1, <1>4, <1>5, OuterEnter
<1>14. Truthful'
  BY <1>1, <1>3, TruthKept
<1> QED BY <1>7, <1>9, <1>10, <1>11, <1>12, <1>13, <1>14 DEF Inv

(* The activation on top is worked on. *)
LEMMA TopIsWorkedOn ==
  ASSUME Typed, Depth > 0, NEW t \in Activations, walk' = [walk EXCEPT ![Depth] = t],
         t.node = walk[Depth].node, t.id = walk[Depth].id, t.name = walk[Depth].name
  PROVE  Trimmed(Depth) /\ walk'[Depth] = t /\ Depth \in 1..Depth
<1>1. walk \in Seq(Activations) /\ Depth \in 1..Depth /\ Depth = Len(walk) /\ Depth \in Nat
  BY WalkTyped
<1>2. /\ walk' \in Seq(Activations) /\ Len(walk') = Depth /\ walk'[Depth] = t
      /\ \A d \in 1..Depth : d # Depth => walk'[d] = walk[d]
  BY <1>1, ReplaceType
<1>3. \A d \in 1..(Depth - 1) : d \in 1..Depth /\ d # Depth
  BY <1>1
<1> QED BY <1>1, <1>2, <1>3 DEF Trimmed

(* Of a step that works on the top and leaves its bodies alone. *)
LEMMA WorkKeeps ==
  ASSUME Typed, Shaped, Scoped, BodiesKnown, UNCHANGED <<per_query, ctes, cte_bodies, made>>,
         NEW n \in 1..Depth, walk[n].node \in {"query", "with"}, Trimmed(n),
         walk'[n].bodies = walk[n].bodies, walk[Depth].node # "cte"
  PROVE  Shaped' /\ Scoped' /\ BodiesKnown'
<1>1. n # 0 /\ Kept /\ \A d \in 1..(n - 1) : walk'[d] = walk[d]
  BY WalkTyped, KeptUnchanged DEF Trimmed
<1>2. \A k \in 1..Len(walk'[n].bodies) : walk'[n].bodies[k].id <= made
  BY <1>1 DEF Shaped
<1>3. \A k \in 1..Len(walk'[n].bodies) : KnownBody(per_query', walk'[n].bodies[k])
  BY <1>1, KnownBodyKept DEF BodiesKnown
<1>4. Shaped'
  BY <1>1, <1>2, ShapedTrim
<1>5. BodiesKnown'
  BY <1>1, <1>3, BodiesTrim
<1>6. ~BodyDue
  <2>1. Depth = 2 => walk[2].node # "cte"
    OBVIOUS
  <2> QED BY <2>1 DEF BodyDue
<1>7. Scoped'
  BY <1>1, <1>6, ScopedTrim
<1> QED BY <1>4, <1>5, <1>7

LEMMA TopInnermost ==
  ASSUME Typed, Depth > 0, walk[Depth].node = "query"
  PROVE  Innermost(Depth) /\ Depth \in 1..Depth /\ Depth \in Nat
<1>1. Depth \in Nat /\ Depth \in 1..Depth
  BY WalkTyped
<1> QED BY <1>1 DEF Innermost

LEMMA WalkSourceRefKeeps ==
  ASSUME Inv, WalkSourceRef
  PROVE  Inv'
<1>1. Typed /\ Shaped /\ Scoped /\ BodiesKnown /\ Framed /\ OuterKnown /\ Truthful
  BY DEF Inv
<1>2. /\ Depth > 0 /\ Top = walk[Depth] /\ walk[Depth].node = "query"
      /\ UNCHANGED <<cte_bodies, per_query, outer_query, ctes, made, main, meant>>
  BY DEF WalkSourceRef, InFrom, TopIs, Top
<1>3. PICK n \in Name, display \in Name :
        /\ Capture(display, Classify(n))
        /\ walk' = [walk EXCEPT ![Depth].items = Append(@, Item(display, Meaning(n)))]
  BY DEF WalkSourceRef
<1> DEFINE m == Meaning(n)
           s == Classify(n)
           top == walk[Depth]
           items == Append(top.items, Item(display, m))
           t == [top EXCEPT !.items = items]
<1>4. Depth \in 1..Depth /\ Depth \in Nat /\ Innermost(Depth) /\ walk # <<>>
  BY <1>1, <1>2, TopInnermost, WalkTyped
<1>5. /\ m \in Meanings /\ NamesItsColumns(m) /\ s \in Sources
      /\ m.followed => Faithful(per_query, s, m)
  BY <1>1, <1>4, MeaningType, Classified DEF Means
<1> HIDE DEF m, s
<1>6. top \in Activations /\ items \in Seq(Items)
  <2>1. top \in Activations /\ top.items \in Seq(Items)
    BY <1>1, <1>4, WalkTyped
  <2>2. Item(display, m) \in Items
    BY <1>5 DEF Item, Items
  <2> QED BY <2>1, <2>2, ItemAppended
<1>7. walk' = [walk EXCEPT ![Depth] = t]
  BY <1>3 DEF m
<1> HIDE DEF items
<1>8. /\ t \in Activations /\ t.items = items /\ t.node = top.node /\ t.id = top.id
      /\ t.name = top.name /\ t.part = top.part /\ t.bodies = top.bodies
  BY <1>6 DEF Activations
<1> HIDE DEF t
<1>9. Trimmed(Depth) /\ walk'[Depth] = t
  BY <1>1, <1>2, <1>7, <1>8, TopIsWorkedOn
<1>10. Captures(display, s)
  BY <1>3, LineageAssumption DEF Capture, Captures, s
<1>11. Framed' /\ stack' \in Seq(Frame)
  BY <1>1, <1>2, <1>4, <1>5, <1>8, <1>9, <1>10, FramedCapture DEF items
<1>12. Typed'
  BY <1>1, <1>2, <1>9, <1>11 DEF Typed, Frame, Trimmed
<1>13. Shaped' /\ Scoped' /\ BodiesKnown'
  BY <1>1, <1>2, <1>4, <1>8, <1>9, WorkKeeps
<1>14. OuterKnown'
  <2>1. BeforeMain' => BeforeMain
    <3>1. Depth' = Depth
      BY <1>4, <1>9 DEF Trimmed, Depth
    <3>2. walk' # <<>>
      <4>1. Len(<<>>) = 0 /\ Len(walk') = Depth
        BY <1>9 DEF Trimmed
      <4> QED BY <1>2, <4>1
    <3>3. walk'[1].node = walk[1].node /\ walk'[1].part = walk[1].part /\ walk'[1].bodies = walk[1].bodies
      <4>1. CASE Depth = 1
        BY <1>8, <1>9, <4>1
      <4>2. CASE Depth # 1
        BY <1>4, <1>9, <4>2 DEF Trimmed
      <4> QED BY <4>1, <4>2
    <3> QED BY <1>4, <3>1, <3>2, <3>3 DEF BeforeMain, InWith
  <2> QED BY <1>1, <1>2, <2>1, OuterKept
<1>15. Truthful'
  BY <1>1, <1>2, TruthKept
<1> QED BY <1>11, <1>12, <1>13, <1>14, <1>15 DEF Inv

LEMMA PushKeeps ==
  ASSUME Inv, UNCHANGED <<capture, ctes, main, meant>>,
         NEW a \in Activations, walk' = Append(walk, a), a.bodies = <<>>,
         a.node \in {"source", "compound"},
         made' \in {made, made + 1}, made' \in 0..MaxNodes,
         a.node = "compound" => a.id = made + 1 /\ made' = made + 1 /\ a.id \in Node,
         walk = <<>> => made = 0,
         a.node = "source" => Depth # 0,
         Depth > 0 => walk[Depth].node # "cte" /\ Under(walk[Depth], a)
  PROVE  Inv'
<1>1. /\ Typed /\ Shaped /\ Scoped /\ BodiesKnown /\ Framed /\ OuterKnown /\ Truthful
      /\ UNCHANGED <<stack, cte_bodies, per_query, outer_query>>
  BY DEF Inv, capture
<1>2. Pushed(a) /\ Kept
  BY <1>1, PushIs, KeptUnchanged
<1>3. Typed'
  BY <1>1, <1>2 DEF Typed, Pushed
<1>4. Shaped'
  BY <1>1, <1>2, ShapedPush
<1>5. Scoped'
  <2>1. Depth = 2 => walk[2].node # "cte"
    OBVIOUS
  <2> QED BY <1>1, <1>2, <2>1, ScopedPush
<1>6. BodiesKnown'
  BY <1>1, <1>2, BodiesPush
<1>7. Framed'
  BY <1>1, <1>2, FramedPush
<1>8. BeforeMain' => BeforeMain
  <2>1. /\ Depth \in Nat /\ Depth' = Depth + 1 /\ walk' # <<>>
        /\ walk'[Depth + 1] = a /\ \A d \in 1..Depth : walk'[d] = walk[d]
        /\ (walk = <<>> <=> Depth = 0)
    <3>1. \A S : \A q \in Seq(S) : q = <<>> <=> Len(q) = 0
      OBVIOUS
    <3> QED BY <1>1, <1>2, <3>1, WalkTyped DEF Pushed, Depth
  <2>2. CASE Depth = 0
    BY <2>1, <2>2 DEF BeforeMain, InWith
  <2>3. CASE Depth # 0
    <3>1. walk'[1] = walk[1] /\ Depth' # 1 /\ walk # <<>>
      BY <2>1, <2>3
    <3> QED BY <2>1, <3>1 DEF BeforeMain, InWith
  <2> QED BY <2>2, <2>3
<1>9. OuterKnown' /\ Truthful'
  BY <1>1, <1>8, OuterKept, TruthKept
<1> QED BY <1>3, <1>4, <1>5, <1>6, <1>7, <1>9 DEF Inv

LEMMA EnterScopedSourceKeeps ==
  ASSUME Inv, EnterScopedSource
  PROVE  Inv'
<1> DEFINE a == Activation("source", None, "body")
<1>1. /\ Depth > 0 /\ walk[Depth].node = "query" /\ walk[Depth].part = "from"
      /\ walk' = Append(walk, a) /\ UNCHANGED <<capture, ctes, made, main, meant>>
  BY DEF EnterScopedSource, InFrom, TopIs, Top
<1>2. a \in Activations /\ a.node = "source" /\ a.bodies = <<>>
  BY ActivationType
<1> HIDE DEF a
<1>3. made \in 0..MaxNodes /\ walk # <<>>
  BY <1>1, WalkTyped DEF Inv, Typed
<1>4. Under(walk[Depth], a)
  BY <1>1, <1>2 DEF Under
<1> QED BY <1>1, <1>2, <1>3, <1>4, PushKeeps

(* In a statement the capture follows, no compound is the body of a CTE.    *)
LEMMA EnterCompoundKeeps ==
  ASSUME Inv, EnterCompound, simple'
  PROVE  Inv'
<1> DEFINE a == Activation("compound", made', "body")
<1>1. Typed /\ Shaped /\ Framed
  BY DEF Inv
<1>2. /\ BodyMayStart /\ made' = made + 1 /\ walk' = Append(walk, a)
      /\ (stack # <<>> \/ Outermost) /\ UNCHANGED <<capture, ctes, main, meant>>
  BY DEF EnterCompound
<1>3. /\ made + 1 \in Node /\ made' \in 0..MaxNodes /\ (walk = <<>> => made = 0)
      /\ Depth > 0 => \/ walk[Depth].node \in {"source", "cte"}
                      \/ walk[Depth].node = "with" /\ walk[Depth].part = "body"
  BY <1>1, <1>2, BodyMay
<1>4. a \in Activations /\ a.node = "compound" /\ a.id = made + 1 /\ a.bodies = <<>>
  BY <1>2, <1>3, ActivationType
<1> HIDE DEF a
<1>5. ASSUME Depth > 0
      PROVE  walk[Depth].node # "cte"
  <2> SUFFICES ASSUME walk[Depth].node = "cte" PROVE FALSE
    OBVIOUS
  <2>1. Depth \in Nat /\ (walk = <<>> <=> Depth = 0)
    BY <1>1, WalkTyped
  <2>2. ~Outermost
    <3>1. walk # <<>> /\ walk[Depth].node # "with"
      BY <1>5, <2>1
    <3> QED BY <3>1 DEF Outermost, Top
  <2>3. PICK d \in 1..Depth : walk[d].node = "query"
    BY <1>1, <1>2, <2>2, NoFrames
  <2>4. Depth - 1 \in 1..(Depth - 1) /\ (Depth - 1) + 1 = Depth
    <3>1. d # Depth
      BY <2>3
    <3> QED BY <2>1, <3>1
  <2>5. Under(walk[Depth - 1], walk[Depth])
    BY <1>1, <2>4 DEF Shaped
  <2>6. walk[Depth - 1].node = "with"
    BY <2>5 DEF Under
  <2>7. Depth - 1 \in 1..Depth
    BY <2>1, <2>4
  <2>8. Depth - 1 = 1
    BY <1>1, <2>6, <2>7 DEF Shaped
  <2>9. d = 1 \/ d = Depth
    BY <2>1, <2>8
  <2> QED BY <2>3, <2>6, <2>8, <2>9
<1>6. Depth > 0 => Under(walk[Depth], a)
  BY <1>3, <1>4, <1>5 DEF Under
<1> QED BY <1>2, <1>3, <1>4, <1>5, <1>6, PushKeeps

LEMMA EndFromKeeps ==
  ASSUME Inv, EndFrom
  PROVE  Inv'
<1> DEFINE top == walk[Depth]
           t == [top EXCEPT !.part = "columns"]
<1>1. Typed /\ Shaped /\ Scoped /\ BodiesKnown /\ Framed /\ OuterKnown /\ Truthful
  BY DEF Inv
<1>2. /\ Depth > 0 /\ top.node = "query" /\ walk' = [walk EXCEPT ![Depth] = t]
      /\ UNCHANGED <<stack, cte_bodies, per_query, outer_query, ctes, made, main, meant>>
  BY DEF EndFrom, TopIs, Top, capture
<1>3. Depth \in 1..Depth /\ Depth \in Nat /\ Innermost(Depth) /\ walk # <<>>
  BY <1>1, <1>2, TopInnermost, WalkTyped
<1>4. top \in Activations
  BY <1>1, <1>3, WalkTyped
<1>5. /\ t \in Activations /\ t.node = top.node /\ t.id = top.id /\ t.name = top.name
      /\ t.items = top.items /\ t.bodies = top.bodies
  BY <1>4 DEF Activations
<1> HIDE DEF t
<1>6. Trimmed(Depth) /\ walk'[Depth] = t /\ Kept
  BY <1>1, <1>2, <1>5, TopIsWorkedOn, KeptUnchanged
<1>7. Typed'
  BY <1>1, <1>2, <1>6 DEF Typed, Trimmed
<1>8. Shaped' /\ Scoped' /\ BodiesKnown'
  BY <1>1, <1>2, <1>3, <1>5, <1>6, WorkKeeps
<1>9. Framed'
  <2>1. \A d \in 1..Depth : d > Depth => walk[d].node # "query"
    BY <1>3
  <2>2. \A d \in 1..Depth : walk'[d].items = walk[d].items
    <3>1. ASSUME NEW d \in 1..Depth
          PROVE  walk'[d].items = walk[d].items
      <4>1. CASE d = Depth
        BY <1>5, <1>6, <4>1
      <4>2. CASE d # Depth
        <5>1. d \in 1..(Depth - 1)
          BY <1>3, <4>2
        <5> QED BY <1>6, <5>1 DEF Trimmed
      <4> QED BY <4>1, <4>2
    <3> QED BY <3>1
  <2> QED BY <1>1, <1>2, <1>6, <2>1, <2>2, FramedStays
<1>10. BeforeMain' => BeforeMain
  <2>1. Depth' = Depth /\ walk' # <<>> /\ Depth # 0
    <3>1. Len(<<>>) = 0 /\ Len(walk') = Depth
      BY <1>6 DEF Trimmed
    <3> QED BY <1>2, <3>1 DEF Depth
  <2>2. Depth # 1 => walk'[1] = walk[1]
    BY <1>3, <1>6 DEF Trimmed
  <2>3. Depth = 1 => walk[1].node # "with" /\ walk'[1].node # "with"
    BY <1>2, <1>5, <1>6
  <2> QED BY <1>3, <2>1, <2>2, <2>3 DEF BeforeMain, InWith
<1>11. OuterKnown' /\ Truthful'
  BY <1>1, <1>2, <1>10, OuterKept, TruthKept
<1> QED BY <1>7, <1>8, <1>9, <1>11 DEF Inv

(* The top is taken away, and the activation under it worked on. *)
LEMMA FrontIs ==
  ASSUME Typed, Depth > 1
  PROVE  LET rest == Front(walk) IN
         /\ rest \in Seq(Activations) /\ Len(rest) = Depth - 1
         /\ \A d \in 1..(Depth - 1) : rest[d] = walk[d]
         /\ Depth - 1 \in 1..(Depth - 1) /\ Depth - 1 \in 1..Depth /\ Depth - 1 \in 0..Len(walk)
<1>1. walk \in Seq(Activations) /\ Depth \in Nat /\ Depth = Len(walk) /\ walk # <<>>
  BY WalkTyped
<1>2. Front(walk) = SubSeq(walk, 1, Len(walk) - 1)
  BY DEF Front
<1>3. /\ Front(walk) \in Seq(Activations) /\ Len(Front(walk)) = Len(walk) - 1
      /\ \A d \in 1..(Len(walk) - 1) : Front(walk)[d] = walk[d]
  BY <1>1, <1>2, PrefixType
<1> QED BY <1>1, <1>3

LEMMA UnderIsWorkedOn ==
  ASSUME Typed, Depth > 1, NEW t \in Activations,
         walk' = [Front(walk) EXCEPT ![Depth - 1] = t],
         t.node = walk[Depth - 1].node, t.id = walk[Depth - 1].id,
         t.name = walk[Depth - 1].name
  PROVE  Trimmed(Depth - 1) /\ walk'[Depth - 1] = t
<1> DEFINE n == Depth - 1
           rest == Front(walk)
<1>1. /\ rest \in Seq(Activations) /\ Len(rest) = n /\ \A d \in 1..n : rest[d] = walk[d]
      /\ n \in 1..n /\ n \in 1..Depth /\ n \in 0..Len(walk)
  BY FrontIs
<1> HIDE DEF n, rest
<1>2. walk' = [rest EXCEPT ![n] = t]
  BY DEF n, rest
<1>3. /\ walk' \in Seq(Activations) /\ Len(walk') = n /\ walk'[n] = t
      /\ \A d \in 1..n : d # n => walk'[d] = rest[d]
  <2>1. rest \in Seq(Activations) /\ n \in 1..Len(rest)
    BY <1>1
  <2>2. /\ walk' \in Seq(Activations) /\ Len(walk') = Len(rest) /\ walk'[n] = t
        /\ \A d \in 1..Len(rest) : d # n => walk'[d] = rest[d]
    <3> DEFINE w == walk'
    <3>1. w = [rest EXCEPT ![n] = t]
      BY <1>2
    <3> HIDE DEF w
    <3>2. /\ w \in Seq(Activations) /\ Len(w) = Len(rest) /\ w[n] = t
          /\ \A d \in 1..Len(rest) : d # n => w[d] = rest[d]
      BY <2>1, <3>1, ReplaceType
    <3> QED BY <3>2 DEF w
  <2> QED BY <1>1, <2>2
<1>4. \A d \in 1..(n - 1) : d \in 1..n /\ d # n
  BY <1>1
<1>5. t.node = walk[n].node /\ t.id = walk[n].id /\ t.name = walk[n].name
  BY DEF n
<1>6. \A d \in 1..n : d = n \/ walk'[d] = walk[d]
  BY <1>1, <1>3
<1>7. Trimmed(n)
  BY <1>1, <1>3, <1>4, <1>5, <1>6 DEF Trimmed
<1> QED BY <1>3, <1>7 DEF n

LEMMA EndScopedSourceKeeps ==
  ASSUME Inv, EndScopedSource
  PROVE  Inv'
<1> DEFINE n == Depth - 1
           body == walk[Depth].bodies[1]
           names == IF per_query[body.id] = None THEN Unknown
                    ELSE per_query[body.id].column_names
           s(alias) == [canonical |-> alias, columns |-> names,
                        kind |-> "nested", body |-> body.id]
           under == walk[n]
           items(alias) == Append(under.items, Item(alias, body.meaning))
           t(alias) == [under EXCEPT !.items = items(alias)]
<1>1. Typed /\ Shaped /\ Scoped /\ BodiesKnown /\ Framed /\ OuterKnown /\ Truthful
  BY DEF Inv
<1>2. /\ Depth > 0 /\ walk[Depth].node = "source" /\ Len(walk[Depth].bodies) = 1
      /\ UNCHANGED <<cte_bodies, per_query, outer_query, ctes, made, main, meant>>
  BY DEF EndScopedSource, TopIs, Top
<1>3. PICK alias \in Aliases :
        /\ IF alias = NoName THEN UNCHANGED stack ELSE Capture(alias, s(alias))
        /\ walk' = [Front(walk) EXCEPT ![Depth - 1].items = Append(@, Item(alias, body.meaning))]
  BY DEF EndScopedSource, Top
<1>4. Depth \in 1..Depth /\ Depth \in Nat /\ Depth > 1
  <2>1. Depth \in Nat /\ Depth \in 1..Depth
    BY <1>1, <1>2, WalkTyped
  <2>2. Depth # 1
    BY <1>1, <1>2, <2>1 DEF Shaped
  <2> QED BY <1>2, <2>1, <2>2
<1>5. /\ n \in 1..n /\ n \in 1..Depth /\ n \in 1..(Depth - 1) /\ n + 1 = Depth /\ n \in Nat
      /\ \A d \in 1..Depth : d > n => d = Depth
  BY <1>4
<1>6. under.node = "query" /\ Innermost(n)
  <2>1. Under(under, walk[Depth])
    BY <1>1, <1>5 DEF Shaped
  <2>2. under.node = "query"
    BY <1>2, <2>1 DEF Under
  <2> QED BY <1>2, <1>5, <2>2 DEF Innermost
<1>7. alias \in {NoName} \cup Name
  BY LineageAssumption
<1>8. /\ body.id \in Node /\ body.meaning \in Meanings /\ KnownBody(per_query, body)
  <2>1. walk[Depth].bodies[1] \in Bodies
    BY <1>1, <1>2, <1>4, WalkTyped
  <2>2. KnownBody(per_query, body)
    BY <1>1, <1>2, <1>4 DEF BodiesKnown
  <2> QED BY <2>1, <2>2 DEF Bodies
<1> HIDE DEF body
<1>9. names \in Names
  <2>1. per_query[body.id] # None => per_query[body.id] \in Summaries
    BY <1>1, <1>8 DEF Typed
  <2> QED BY <2>1 DEF Summaries, Names
<1>10. body.meaning.followed /\ body.meaning.names # Unknown => names = body.meaning.names
  BY <1>8 DEF KnownBody, Summarised
<1>11. alias # NoName => s(alias) \in Sources
  BY <1>7, <1>8, <1>9 DEF Sources
<1>12. alias # NoName /\ body.meaning.followed => Faithful(per_query, s(alias), body.meaning)
  <2>1. s(alias).kind = "nested" /\ s(alias).body = body.id /\ s(alias).columns = names
    OBVIOUS
  <2> HIDE DEF s, names
  <2>2. body.meaning.followed => Summarised(per_query, body.id, body.meaning)
    BY <1>8 DEF KnownBody
  <2> QED BY <1>10, <1>11, <2>1, <2>2 DEF Faithful
<1>13. Captures(alias, s(alias))
  BY <1>3 DEF Captures, Capture
<1>14. under \in Activations /\ items(alias) \in Seq(Items)
  <2>1. under \in Activations /\ under.items \in Seq(Items)
    BY <1>1, <1>5, WalkTyped
  <2>2. Item(alias, body.meaning) \in Items
    BY <1>7, <1>8 DEF Item, Items
  <2> QED BY <2>1, <2>2, ItemAppended
<1> HIDE DEF s, names
<1>15. walk' = [Front(walk) EXCEPT ![Depth - 1] = t(alias)]
  <2>1. Front(walk)[n] = under /\ n \in DOMAIN Front(walk)
    <3>1. Front(walk) \in Seq(Activations) /\ Len(Front(walk)) = n
      BY <1>1, <1>4, FrontIs
    <3>2. DOMAIN Front(walk) = 1..n
      BY <3>1
    <3> QED BY <1>1, <1>4, <1>5, <3>2, FrontIs
  <2> QED BY <1>3, <2>1
<1> HIDE DEF items
<1>16. /\ t(alias) \in Activations /\ t(alias).items = items(alias)
       /\ t(alias).node = under.node /\ t(alias).id = under.id
       /\ t(alias).name = under.name /\ t(alias).part = under.part /\ t(alias).bodies = under.bodies
  BY <1>14 DEF Activations
<1> HIDE DEF t
<1>17. Trimmed(n) /\ walk'[n] = t(alias)
  BY <1>1, <1>4, <1>15, <1>16, UnderIsWorkedOn
<1> HIDE DEF n
<1>18. Framed' /\ stack' \in Seq(Frame)
  <2>1. walk'[n].items = Append(walk[n].items, Item(alias, body.meaning))
    BY <1>16, <1>17 DEF items
  <2>2. NamesItsColumns(body.meaning)
    BY <1>8 DEF KnownBody
  <2> QED BY <1>1, <1>2, <1>6, <1>7, <1>8, <1>11, <1>12, <1>13, <1>17, <2>1, <2>2, FramedCapture
<1>19. Typed'
  BY <1>1, <1>2, <1>17, <1>18 DEF Typed, Frame, Trimmed
<1>20. Shaped' /\ Scoped' /\ BodiesKnown'
  BY <1>1, <1>2, <1>5, <1>6, <1>16, <1>17, WorkKeeps
<1>21. BeforeMain' => BeforeMain
  <2>1. Depth' = n /\ walk' # <<>> /\ walk # <<>> /\ n # 0 /\ Depth # 0
    <3>1. Len(<<>>) = 0 /\ Len(walk') = n
      BY <1>17 DEF Trimmed
    <3> QED BY <1>1, <1>4, <1>5, <3>1, WalkTyped DEF Depth
  <2>2. n # 1 => walk'[1] = walk[1]
    BY <1>5, <1>17 DEF Trimmed
  <2>3. n = 1 => walk'[1].node # "with"
    BY <1>6, <1>16, <1>17
  <2> QED BY <2>1, <2>2, <2>3 DEF BeforeMain, InWith
<1>22. OuterKnown' /\ Truthful'
  BY <1>1, <1>2, <1>21, OuterKept, TruthKept
<1> QED BY <1>18, <1>19, <1>20, <1>22 DEF Inv

(* A query or compound ends, and is the body of what is under it.           *)
LEMMA ReturnKeeps ==
  ASSUME Typed, Shaped, Scoped, BodiesKnown, Kept, UNCHANGED <<ctes, cte_bodies, made>>,
         Depth > 0, walk[Depth].node \in {"query", "compound"},
         NEW b \in Bodies, walk' = Returned(b), b.id = walk[Depth].id,
         KnownBody(per_query', b),
         walk[Depth].node = "compound" => UNCHANGED per_query,
         \A q \in Node : q # walk[Depth].id => per_query'[q] = per_query[q]
  PROVE  /\ Shaped' /\ Scoped' /\ BodiesKnown' /\ (BeforeMain' => BeforeMain)
         /\ Trimmed(Depth - 1)
         /\ \A d \in 1..(Depth - 1) : walk'[d].items = walk[d].items
<1> DEFINE n == Depth - 1
           id == walk[Depth].id
<1>1. /\ Depth \in 1..Depth /\ Depth \in Nat /\ n \in Nat /\ walk # <<>> /\ Depth = Len(walk)
      /\ Depth = n + 1
      /\ n # 0 => n \in 1..Depth /\ n \in 1..n
      /\ \A d \in 1..n : d \in 1..Depth /\ d < Depth
      /\ \A d \in 1..(n - 1) : d \in 1..n
  BY WalkTyped
<1>2. /\ Trimmed(n)
      /\ \A d \in 1..n : walk'[d].items = walk[d].items /\ walk'[d].part = walk[d].part
      /\ n > 0 => walk'[n].bodies = IF walk[n].node = "query" THEN walk[n].bodies
                                    ELSE Append(walk[n].bodies, b)
  <2>1. Depth > 1 <=> n > 0
    BY <1>1
  <2> QED BY <1>1, <2>1, ReturnedIs
<1>3. id \in 1..made /\ id \in Node /\ made \in Nat /\ b.id = id
  BY <1>1, LineageAssumption DEF Shaped, Typed, Node
<1> HIDE DEF n, id
<1>4. ASSUME n # 0, NEW k \in 1..Len(walk'[n].bodies)
      PROVE  walk'[n].bodies[k].id <= made /\ KnownBody(per_query', walk'[n].bodies[k])
  <2>1. ASSUME NEW j \in 1..Len(walk[n].bodies)
        PROVE  walk[n].bodies[j].id <= made /\ KnownBody(per_query', walk[n].bodies[j])
    <3>1. walk[n].bodies[j].id <= made
      BY <1>1, <1>4 DEF Shaped
    <3>2. KnownBody(per_query, walk[n].bodies[j])
      BY <1>1, <1>4 DEF BodiesKnown
    <3> QED BY <3>1, <3>2, KnownBodyKept
  <2>2. CASE walk[n].node = "query"
    BY <1>1, <1>2, <1>4, <2>1, <2>2
  <2>3. CASE walk[n].node # "query"
    <3> DEFINE all == Append(walk[n].bodies, b)
               l == Len(walk[n].bodies)
    <3>1. walk'[n].bodies = all
      BY <1>1, <1>2, <1>4, <2>3
    <3>2. Len(all) = l + 1 /\ all[l + 1] = b /\ l \in Nat /\ \A j \in 1..l : all[j] = walk[n].bodies[j]
      <4>1. walk[n].bodies \in Seq(Bodies)
        BY <1>1, <1>4, WalkTyped
      <4> HIDE DEF all
      <4> QED BY <4>1, AppendType DEF all
    <3> HIDE DEF all
    <3>3. k \in 1..l \/ k = l + 1
      BY <1>4, <3>1, <3>2
    <3>4. b.id <= made /\ KnownBody(per_query', b)
      BY <1>3
    <3>5. CASE k \in 1..l
      BY <2>1, <3>1, <3>2, <3>5
    <3>6. CASE k = l + 1
      BY <3>1, <3>2, <3>4, <3>6
    <3> QED BY <3>3, <3>5, <3>6
  <2> QED BY <2>2, <2>3
<1>5. ASSUME NEW q \in Node, per_query[q] = None,
             (\E d \in 1..n : walk[d].node = "query" /\ walk[d].id = q) \/ q > made
      PROVE  per_query'[q] = None
  <2>1. CASE q > made
    <3>1. q # id
      BY <1>3, <2>1
    <3> QED BY <1>5, <3>1 DEF id
  <2>2. CASE \E d \in 1..n : walk[d].node = "query" /\ walk[d].id = q
    <3>1. PICK d \in 1..n : walk[d].node = "query" /\ walk[d].id = q
      BY <2>2
    <3>2. CASE walk[Depth].node = "query"
      <4>1. walk[d].id < id
        BY <1>1, <3>1, <3>2 DEF Shaped, id
      <4>2. q # id
        BY <1>3, <3>1, <4>1
      <4> QED BY <1>5, <4>2 DEF id
    <3>3. CASE walk[Depth].node = "compound"
      BY <1>5, <3>3
    <3> QED BY <3>2, <3>3
  <2> QED BY <1>5, <2>1, <2>2
<1>6. Shaped'
  <2>1. \A d \in 1..(n - 1) : walk'[d].part = walk[d].part
    BY <1>1, <1>2
  <2>2. \A k \in 1..Len(walk'[n].bodies) : n \in 1..Depth => walk'[n].bodies[k].id <= made
    <3>1. n \in 1..Depth => n # 0
      OBVIOUS
    <3> QED BY <1>4, <3>1
  <2> QED BY <1>2, <1>5, <2>1, <2>2, ShapedTrim
<1>7. BodiesKnown'
  <2>1. n > 0 => \A k \in 1..Len(walk'[n].bodies) : KnownBody(per_query', walk'[n].bodies[k])
    BY <1>1, <1>4
  <2> QED BY <1>2, <2>1, BodiesTrim
<1>8. n = 0 => made # 0 /\ ~InWith
  <2>1. n = 0 => Depth = 1
    BY <1>1
  <2> QED BY <1>3, <2>1 DEF InWith
<1>9. Scoped'
  <2>1. ~BodyDue
    <3>1. Depth = 2 => walk[2].node # "cte"
      OBVIOUS
    <3> QED BY <3>1 DEF BodyDue
  <2>2. n # 0 /\ walk[n].node = "cte" =>
           Depth = n + 1 /\ \E c : /\ walk'[n].bodies = Append(walk[n].bodies, c)
                                   /\ c.id = walk[n + 1].id
    <3>1. Depth = n + 1 /\ (n # 0 => n > 0)
      BY <1>1
    <3>2. b.id = walk[n + 1].id
      BY <3>1
    <3> QED BY <1>2, <3>1, <3>2
  <2> QED BY <1>2, <1>8, <2>1, <2>2, ScopedTrim
<1>10. BeforeMain' => BeforeMain
  <2>1. Depth' = n /\ (walk' = <<>> <=> n = 0)
    <3>1. \A S : \A q \in Seq(S) : q = <<>> <=> Len(q) = 0
      OBVIOUS
    <3> QED BY <1>2, <3>1 DEF Trimmed, Depth
  <2>2. CASE n = 0
    BY <1>3, <2>1, <2>2 DEF BeforeMain, InWith
  <2>3. CASE n # 0
    <3>1. walk'[1].node = walk[1].node /\ walk'[1].part = walk[1].part
      <4>1. 1 \in 1..n
        BY <1>1, <2>3
      <4> QED BY <1>2, <4>1 DEF Trimmed
    <3>2. n = 1 /\ walk[1].node = "with" => walk'[1].bodies # <<>>
      <4> SUFFICES ASSUME n = 1, walk[1].node = "with" PROVE walk'[1].bodies # <<>>
        OBVIOUS
      <4>1. walk'[1].bodies = Append(walk[1].bodies, b)
        BY <1>2
      <4>2. walk[1].bodies \in Seq(Bodies)
        BY <1>1, <2>3, WalkTyped
      <4>3. Len(walk'[1].bodies) # 0
        <5> HIDE DEF Bodies
        <5>1. Len(walk'[1].bodies) = Len(walk[1].bodies) + 1 /\ Len(walk[1].bodies) \in Nat
          BY <4>1, <4>2, AppendType
        <5> QED BY <5>1
      <4>4. Len(<<>>) = 0
        OBVIOUS
      <4> QED BY <4>3, <4>4
    <3> QED BY <1>1, <2>1, <2>3, <3>1, <3>2 DEF BeforeMain, InWith
  <2> QED BY <2>2, <2>3
<1> QED BY <1>2, <1>6, <1>7, <1>9, <1>10 DEF n

LEMMA LeavesOfTop ==
  ASSUME Typed, Shaped, Framed, Depth > 0, walk[Depth].node = "query"
  PROVE  Leaves(walk[Depth].items, stack[Len(stack)].sources) /\ stack # <<>>
<1> DEFINE items == walk[Depth].items
           sources == stack[Len(stack)].sources
<1>1. Innermost(Depth) /\ Depth \in 1..Depth
  BY TopInnermost
<1>2. FrameKnown(per_query, items, sources) /\ Len(stack) \in 1..Len(stack)
  BY <1>1, TopFrame
<1>3. items \in Seq(Items)
  BY <1>1, WalkTyped
<1>4. stack[Len(stack)] \in Frame /\ stack # <<>>
  <2>1. Len(stack) # 0
    BY <1>2
  <2> QED BY <1>2, <2>1, StackTyped DEF Frame
<1>5. sources \in [Name -> {None} \cup Sources]
  BY <1>4 DEF Frame
<1> HIDE DEF items, sources
<1>6. ASSUME NEW j \in 1..Len(items)
      PROVE  Means(items[j].meaning)
  <2>1. items[j] \in Items
    BY <1>3
  <2>2. NamesItsColumns(items[j].meaning)
    BY <1>2 DEF FrameKnown
  <2> QED BY <2>1, <2>2 DEF Means, Items
<1>7. Leaves(items, sources)
  BY <1>2, <1>3, <1>5, <1>6 DEF Leaves, Mean
<1> QED BY <1>4, <1>7 DEF items, sources

(* A query is summarised as it is left. *)
LEMMA ExitQueryKeeps ==
  ASSUME Inv, ExitQuery
  PROVE  Inv'
<1> DEFINE items == walk[Depth].items
           sources == stack[Len(stack)].sources
           id == walk[Depth].id
<1>1. Typed /\ Shaped /\ Scoped /\ BodiesKnown /\ Framed /\ OuterKnown /\ Truthful
  BY DEF Inv
<1>2. /\ Depth > 0 /\ walk[Depth].node = "query" /\ stack' = Front(stack)
      /\ UNCHANGED <<cte_bodies, outer_query, ctes, made, main>>
  BY DEF ExitQuery, TopIs, Top
<1>3. PICK list \in Results :
        /\ \E pick : /\ \A i \in DOMAIN list : pick[i] \in TraceExpr(sources, list[i])
                     /\ per_query' = [per_query EXCEPT ![id] = Finalized(items, sources, list, pick)]
        /\ meant' = [meant EXCEPT ![id] = QueryMeaning(items, list)]
        /\ walk' = Returned([id |-> id, meaning |-> meant'[id]])
  BY DEF ExitQuery, Top, Last
<1>4. PICK pick : /\ \A i \in DOMAIN list : pick[i] \in TraceExpr(sources, list[i])
                  /\ per_query' = [per_query EXCEPT ![id] = Finalized(items, sources, list, pick)]
  BY <1>3
<1> DEFINE f == Finalized(items, sources, list, pick)
           m == QueryMeaning(items, list)
           b == [id |-> id, meaning |-> m]
<1>5. Leaves(items, sources) /\ stack # <<>>
  BY <1>1, <1>2, LeavesOfTop
<1>6. Innermost(Depth) /\ Depth \in 1..Depth
  BY <1>1, <1>2, TopInnermost
<1>7. id \in Node /\ per_query[id] = None
  <2>1. id \in 1..made /\ per_query[id] = None
    BY <1>2, <1>6, <1>1 DEF Shaped
  <2>2. made \in 0..MaxNodes /\ MaxNodes \in Nat
    BY <1>1, LineageAssumption DEF Typed
  <2> QED BY <2>1, <2>2 DEF Node
<1> HIDE DEF id, items, sources
<1>8. f \in Summaries
  <2>1. Summarising /\ Mean(items) /\ sources \in [Name -> {None} \cup Sources]
    BY <1>1, <1>5 DEF Typed, Summarising, Leaves
  <2> QED BY <1>4, <2>1, FinalizedType
<1>9. Means(m)
  BY <1>5, QueryMeaningType DEF Leaves
<1>10. m.followed => /\ f.columns = m.columns /\ f.relations = m.relations
                     /\ f.complete = m.whole
                     /\ (m.names # Unknown => f.column_names = m.names)
  BY <1>4, <1>5, FinalizedIsTrue
<1>11. per_query' = [per_query EXCEPT ![id] = f] /\ meant' = [meant EXCEPT ![id] = m]
  BY <1>3, <1>4
<1> HIDE DEF f, m
<1>12. /\ per_query'[id] = f /\ meant'[id] = m
       /\ \A q \in Node : q # id => per_query'[q] = per_query[q] /\ meant'[q] = meant[q]
       /\ per_query' \in [Node -> {None} \cup Summaries]
       /\ meant' \in [Node -> {None} \cup Meanings]
  <2>1. per_query \in [Node -> {None} \cup Summaries] /\ meant \in [Node -> {None} \cup Meanings]
    BY <1>1 DEF Typed
  <2>2. m \in Meanings
    BY <1>9 DEF Means
  <2> QED BY <1>7, <1>8, <1>11, <2>1, <2>2
<1>13. Kept
  BY <1>7, <1>12 DEF Kept
<1>14. m.followed => Summarised(per_query', id, m)
  <2>1. f # None
    BY <1>8, LineageAssumption
  <2> QED BY <1>7, <1>10, <1>12, <2>1 DEF Summarised
<1>15. b \in Bodies /\ b.id = id /\ KnownBody(per_query', b) /\ walk' = Returned(b)
  <2>1. b.id = id /\ b.meaning = m
    OBVIOUS
  <2>2. b \in Bodies
    BY <1>7, <1>9 DEF Bodies, Means
  <2>3. walk' = Returned(b)
    BY <1>3, <1>12
  <2> HIDE DEF b
  <2>4. KnownBody(per_query', b)
    BY <1>9, <1>14, <2>1 DEF KnownBody, Means
  <2> QED BY <2>1, <2>2, <2>3, <2>4
<1> HIDE DEF b
<1>16. /\ Shaped' /\ Scoped' /\ BodiesKnown' /\ (BeforeMain' => BeforeMain)
       /\ Trimmed(Depth - 1)
       /\ \A d \in 1..(Depth - 1) : walk'[d].items = walk[d].items
  <2>1. \A q \in Node : q # walk[Depth].id => per_query'[q] = per_query[q]
    BY <1>12 DEF id
  <2>2. b.id = walk[Depth].id
    BY <1>15 DEF id
  <2> QED BY <1>1, <1>2, <1>13, <1>15, <2>1, <2>2, ReturnKeeps
<1>17. Framed'
  BY <1>1, <1>2, <1>6, <1>13, <1>16, FramedLeave
<1>18. Typed'
  <2>1. walk' \in Seq(Activations)
    BY <1>16 DEF Trimmed
  <2>2. stack' \in Seq(Frame)
    <3>1. stack \in Seq(Frame) /\ stack' = SubSeq(stack, 1, Len(stack) - 1)
      BY <1>1, <1>2 DEF Typed, Frame, Front
    <3> QED BY <1>5, <3>1, PrefixType
  <2> QED BY <1>1, <1>2, <1>12, <2>1, <2>2 DEF Typed, Frame
<1>19. OuterKnown'
  BY <1>1, <1>2, <1>16, OuterKept
<1>20. Truthful'
  <2>1. ASSUME NEW q \in Node, meant'[q] # None, meant'[q].followed
        PROVE  /\ per_query'[q].relations = meant'[q].relations
               /\ per_query'[q].columns = meant'[q].columns
               /\ per_query'[q].complete = meant'[q].whole
    <3>1. CASE q = id
      BY <1>10, <1>12, <2>1, <3>1
    <3>2. CASE q # id
      BY <1>1, <1>12, <2>1, <3>2 DEF Truthful
    <3> QED BY <3>1, <3>2
  <2> QED BY <2>1 DEF Truthful
<1> QED BY <1>16, <1>17, <1>18, <1>19, <1>20 DEF Inv

(* A compound has the columns of its left arm, without their origins.       *)
LEMMA CompoundType ==
  ASSUME NEW l, NEW r, Means(l), Means(r)
  PROVE  /\ Means(CompoundMeaning(l, r)) /\ ~CompoundMeaning(l, r).followed
<1> DEFINE m == CompoundMeaning(l, r)
           bare(i) == [l.columns[i] EXCEPT !.origin = None]
           columns == [i \in 1..Len(l.columns) |-> bare(i)]
<1>1. l \in Meanings /\ r \in Meanings /\ NamesItsColumns(l) /\ l.columns \in Seq(AColumn)
  BY DEF Means, Meanings, Columns, AColumn
<1>2. Len(l.columns) \in Nat /\ DOMAIN l.columns = 1..Len(l.columns)
  BY <1>1
<1>3. ASSUME NEW i \in 1..Len(l.columns)
      PROVE  bare(i) \in AColumn /\ bare(i).name = l.columns[i].name
  <2>1. l.columns[i] \in AColumn
    BY <1>1
  <2> QED BY <2>1 DEF AColumn, Origins
<1>4. m = [names |-> l.names, columns |-> columns, relations |-> l.relations \cup r.relations,
           whole |-> l.whole /\ r.whole, followed |-> FALSE]
  <2>1. [i \in DOMAIN l.columns |-> bare(i)] = columns
    BY <1>2
  <2> HIDE DEF columns
  <2>2. m = [l EXCEPT !.columns = columns, !.relations = l.relations \cup r.relations,
                      !.whole = l.whole /\ r.whole, !.followed = FALSE]
    BY <2>1 DEF CompoundMeaning
  <2> HIDE DEF m
  <2> QED BY <1>1, <2>2 DEF Meanings
<1> HIDE DEF m, bare
<1>5. columns \in [1..Len(l.columns) -> AColumn] /\ \A i \in 1..Len(l.columns) : columns[i] = bare(i)
  BY <1>3
<1> HIDE DEF columns
<1>6. columns \in Seq(AColumn) /\ Len(columns) = Len(l.columns)
  BY <1>2, <1>5, FunctionIsSequence
<1>7. l.relations \cup r.relations \in Relations
  BY <1>1 DEF Meanings, Relations
<1>8. (l.whole /\ r.whole) \in BOOLEAN /\ l.names \in Names
  BY <1>1 DEF Meanings
<1>9. m \in Meanings
  BY <1>4, <1>6, <1>7, <1>8 DEF Meanings, Columns, AColumn
<1>10. NamesItsColumns(m)
  <2>1. m.names = l.names /\ m.columns = columns
    BY <1>4
  <2>2. ASSUME l.names # Unknown
        PROVE  /\ Len(l.names) = Len(columns)
               /\ \A i \in 1..Len(l.names) : l.names[i] = columns[i].name
    BY <1>1, <1>3, <1>5, <1>6, <2>2 DEF NamesItsColumns
  <2> QED BY <2>1, <2>2 DEF NamesItsColumns
<1> QED BY <1>4, <1>9, <1>10 DEF Means, m

LEMMA BodyOf ==
  ASSUME Typed, BodiesKnown, NEW d \in 1..Depth, NEW k \in 1..Len(walk[d].bodies)
  PROVE  /\ walk[d].bodies[k] \in Bodies /\ Means(walk[d].bodies[k].meaning)
         /\ KnownBody(per_query, walk[d].bodies[k])
<1>1. walk[d].bodies[k] \in Bodies
  BY WalkTyped
<1>2. KnownBody(per_query, walk[d].bodies[k])
  BY DEF BodiesKnown
<1> QED BY <1>1, <1>2 DEF Bodies, Means, KnownBody

LEMMA EndCompoundKeeps ==
  ASSUME Inv, EndCompound
  PROVE  Inv'
<1> DEFINE l == walk[Depth].bodies[1].meaning
           r == walk[Depth].bodies[2].meaning
           id == walk[Depth].id
           m == CompoundMeaning(l, r)
           b == [id |-> id, meaning |-> m]
<1>1. Typed /\ Shaped /\ Scoped /\ BodiesKnown /\ Framed /\ OuterKnown /\ Truthful
  BY DEF Inv
<1>2. /\ Depth > 0 /\ walk[Depth].node = "compound" /\ Len(walk[Depth].bodies) = 2
      /\ walk' = Returned(b)
      /\ UNCHANGED <<stack, cte_bodies, per_query, outer_query, ctes, made, main, meant>>
  BY DEF EndCompound, TopIs, Top, capture
<1>3. Depth \in 1..Depth /\ Depth \in Nat
  BY <1>1, <1>2, WalkTyped
<1>4. Means(l) /\ Means(r)
  BY <1>1, <1>2, <1>3, BodyOf
<1> HIDE DEF l, r
<1>5. Means(m) /\ ~m.followed
  BY <1>4, CompoundType
<1> HIDE DEF m
<1>6. id \in Node
  <2>1. id \in 1..made
    BY <1>2, <1>3, <1>1 DEF Shaped
  <2>2. made \in 0..MaxNodes /\ MaxNodes \in Nat
    BY <1>1, LineageAssumption DEF Typed
  <2> QED BY <2>1, <2>2 DEF Node
<1>7. b \in Bodies /\ b.id = id /\ KnownBody(per_query', b)
  <2>1. b.id = id /\ b.meaning = m
    OBVIOUS
  <2>2. b \in Bodies
    BY <1>5, <1>6 DEF Bodies, Means
  <2> HIDE DEF b
  <2> QED BY <1>5, <2>1, <2>2 DEF KnownBody, Means
<1> HIDE DEF b
<1>8. Kept
  BY <1>2, KeptUnchanged
<1>9. /\ Shaped' /\ Scoped' /\ BodiesKnown' /\ (BeforeMain' => BeforeMain)
      /\ Trimmed(Depth - 1)
      /\ \A d \in 1..(Depth - 1) : walk'[d].items = walk[d].items
  BY <1>1, <1>2, <1>7, <1>8, ReturnKeeps
<1>10. Framed'
  <2>1. \A d \in 1..Depth : d > Depth - 1 => walk[d].node # "query"
    <3>1. \A d \in 1..Depth : d > Depth - 1 => d = Depth
      BY <1>3
    <3> QED BY <1>2, <3>1
  <2> QED BY <1>1, <1>2, <1>8, <1>9, <2>1, FramedStays
<1>11. Typed'
  <2>1. walk' \in Seq(Activations)
    BY <1>9 DEF Trimmed
  <2> QED BY <1>1, <1>2, <2>1 DEF Typed
<1>12. OuterKnown' /\ Truthful'
  BY <1>1, <1>2, <1>9, OuterKept, TruthKept
<1> QED BY <1>9, <1>10, <1>11, <1>12 DEF Inv

-----------------------------------------------------------------------------
(* The WITH clause of the statement *)

(* The WITH is alone on the walk, and nothing is captured around it. *)
LEMMA WithAlone ==
  ASSUME Typed, Shaped, Scoped, Framed, Depth > 0, walk[Depth].node = "with"
  PROVE  /\ Depth = 1 /\ InWith /\ Len(ctes) = 1 /\ stack = <<>> /\ Len(walk) = 1
         /\ ctes \in Seq([Name -> {None} \cup Meanings])
         /\ ctes[1] \in [Name -> {None} \cup Meanings]
         /\ walk[1] \in Activations /\ walk \in Seq(Activations)
<1>1. Depth = 1 /\ InWith /\ stack = <<>>
  BY TopInWith, NoFrames
<1> DEFINE S == [Name -> {None} \cup Meanings]
<1>2. Len(ctes) = 1 /\ ctes \in Seq(S)
  BY <1>1 DEF Scoped, Typed
<1> HIDE DEF S
<1>3. ctes[1] \in S
  <2>1. \A T : \A q \in Seq(T) : Len(q) = 1 => q[1] \in T
    OBVIOUS
  <2> QED BY <1>2, <2>1
<1>4. walk[1] \in Activations /\ walk \in Seq(Activations) /\ Len(walk) = 1
  <2>1. 1 \in 1..Depth
    BY <1>1
  <2> QED BY <1>1, <2>1, WalkTyped
<1> QED BY <1>1, <1>2, <1>3, <1>4 DEF S

LEMMA EnterWithKeeps ==
  ASSUME Inv, EnterWith, simple'
  PROVE  Inv'
<1> DEFINE a == Activation("with", None, "bindings")
           none == [n \in Name |-> None]
<1>1. Typed /\ Shaped /\ Scoped /\ BodiesKnown /\ Framed /\ OuterKnown /\ Truthful
  BY DEF Inv
<1>2. /\ walk = <<>> /\ BodyMayStart
      /\ walk' = Append(walk, a) /\ ctes' = Append(ctes, none)
      /\ UNCHANGED <<stack, cte_bodies, per_query, outer_query, made, main, meant>>
  BY DEF EnterWith, capture
<1>3. made = 0 /\ Depth = 0 /\ ~InWith
  BY <1>1, <1>2, BodyMay, WalkTyped DEF InWith
<1>4. a \in Activations /\ a.node = "with" /\ a.part = "bindings" /\ a.bodies = <<>>
  BY ActivationType
<1> HIDE DEF a
<1>5. Pushed(a) /\ Kept
  BY <1>1, <1>2, <1>4, PushIs, KeptUnchanged
<1>6. Len(walk') = 1 /\ walk'[1] = a /\ Depth' = 1 /\ walk' # <<>>
  <2>1. Len(<<>>) = 0 /\ Len(walk) = 0
    BY <1>2
  <2>2. Len(walk') = 1 /\ walk'[1] = a
    BY <1>5, <2>1 DEF Pushed
  <2> QED BY <2>1, <2>2 DEF Depth
<1>7. ctes' \in Seq([Name -> {None} \cup Meanings]) /\ Len(ctes') = 1 /\ ctes'[1] = none
  <2>1. ctes = <<>>
    BY <1>1, <1>3 DEF Scoped
  <2>2. none \in [Name -> {None} \cup Meanings]
    OBVIOUS
  <2> HIDE DEF none
  <2>3. ctes' = <<none>>
    BY <1>2, <2>1
  <2> QED BY <2>2, <2>3
<1>8. Typed'
  BY <1>1, <1>2, <1>5, <1>7 DEF Typed, Pushed
<1>9. Shaped'
  BY <1>1, <1>2, <1>3, <1>4, <1>5, ShapedPush
<1>10. Scoped'
  <2>1. InWith' /\ Depth' = 1
    BY <1>4, <1>6 DEF InWith
  <2>2. \A n \in Name : cte_bodies[n] = None
    BY <1>1, <1>3 DEF Scoped
  <2>3. \A n \in Name : cte_bodies'[n] = None /\ ctes'[1][n] = None
    BY <1>2, <1>7, <2>2
  <2> QED BY <1>7, <2>1, <2>3 DEF Scoped
<1>11. BodiesKnown'
  BY <1>1, <1>4, <1>5, BodiesPush
<1>12. Framed'
  BY <1>1, <1>2, <1>4, <1>5, FramedPush
<1>13. OuterKnown' /\ Truthful'
  <2>1. BeforeMain
    BY <1>2, <1>3 DEF BeforeMain
  <2> QED BY <1>1, <1>2, <2>1, OuterKept, TruthKept
<1> QED BY <1>8, <1>9, <1>10, <1>11, <1>12, <1>13 DEF Inv

LEMMA EndBindingsKeeps ==
  ASSUME Inv, EndBindings
  PROVE  Inv'
<1> DEFINE top == walk[Depth]
           t == [top EXCEPT !.part = "body"]
<1>1. Typed /\ Shaped /\ Scoped /\ BodiesKnown /\ Framed /\ OuterKnown /\ Truthful
  BY DEF Inv
<1>2. /\ Depth > 0 /\ top.node = "with" /\ top.part = "bindings"
      /\ walk' = [walk EXCEPT ![Depth] = t]
      /\ UNCHANGED <<stack, cte_bodies, per_query, outer_query, ctes, made, main, meant>>
  BY DEF EndBindings, TopIs, Top, capture
<1>3. Depth = 1 /\ InWith /\ top \in Activations
  BY <1>1, <1>2, WithAlone
<1>4. /\ t \in Activations /\ t.node = top.node /\ t.id = top.id /\ t.name = top.name
      /\ t.items = top.items /\ t.bodies = top.bodies
  BY <1>3 DEF Activations
<1> HIDE DEF t
<1>5. Trimmed(Depth) /\ walk'[Depth] = t /\ Kept
  BY <1>1, <1>2, <1>4, TopIsWorkedOn, KeptUnchanged
<1>6. Typed'
  BY <1>1, <1>2, <1>5 DEF Typed, Trimmed
<1>7. Shaped' /\ Scoped' /\ BodiesKnown'
  <2>1. Depth \in 1..Depth
    BY <1>3
  <2> QED BY <1>1, <1>2, <1>4, <1>5, <2>1, WorkKeeps
<1>8. Framed'
  <2>1. \A d \in 1..Depth : d > Depth => walk[d].node # "query"
    BY <1>3
  <2>2. \A d \in 1..Depth : walk'[d].items = walk[d].items
    BY <1>3, <1>4, <1>5
  <2> QED BY <1>1, <1>2, <1>5, <2>1, <2>2, FramedStays
<1>9. OuterKnown' /\ Truthful'
  <2>1. BeforeMain
    BY <1>2, <1>3 DEF BeforeMain
  <2> QED BY <1>1, <1>2, <2>1, OuterKept, TruthKept
<1> QED BY <1>6, <1>7, <1>8, <1>9 DEF Inv

LEMMA UntracedMeans ==
  ASSUME NEW names \in Names
  PROVE  /\ Untraced(names) \in Columns
         /\ names # Unknown =>
              /\ Len(names) = Len(Untraced(names))
              /\ \A i \in 1..Len(names) : names[i] = Untraced(names)[i].name
<1>1. CASE names = Unknown
  BY <1>1 DEF Untraced, Columns
<1>2. CASE names # Unknown
  <2> DEFINE column(i) == [name |-> names[i], origin |-> None]
             columns == [i \in 1..Len(names) |-> column(i)]
  <2>1. names \in Seq(Column) /\ Len(names) \in Nat /\ DOMAIN names = 1..Len(names)
    BY <1>2 DEF Names
  <2>2. \A i \in 1..Len(names) : column(i) \in AColumn /\ column(i).name = names[i]
    BY <2>1 DEF AColumn, Origins
  <2>3. Untraced(names) = columns
    BY <1>2, <2>1 DEF Untraced
  <2> HIDE DEF column
  <2>4. columns \in [1..Len(names) -> AColumn] /\ \A i \in 1..Len(names) : columns[i] = column(i)
    BY <2>2
  <2> HIDE DEF columns
  <2>5. columns \in Seq(AColumn) /\ Len(columns) = Len(names)
    BY <2>1, <2>4, FunctionIsSequence
  <2> QED BY <2>2, <2>3, <2>4, <2>5 DEF Columns, AColumn
<1> QED BY <1>1, <1>2

LEMMA RecursiveMeans ==
  ASSUME NEW declared \in Names
  PROVE  Means(Recursive(declared)) /\ ~Recursive(declared).followed
<1> DEFINE m == Recursive(declared)
<1>1. m = [names |-> declared, columns |-> Untraced(declared), relations |-> {},
           whole |-> TRUE, followed |-> FALSE]
  BY DEF Recursive
<1> HIDE DEF m
<1>2. m \in Meanings
  BY <1>1, UntracedMeans DEF Meanings, Relations
<1>3. NamesItsColumns(m)
  BY <1>1, UntracedMeans DEF NamesItsColumns
<1> QED BY <1>1, <1>2, <1>3 DEF Means, m

(* A CTE that renames the columns of its body, as many as it declares.      *)
LEMMA RenamedMeans ==
  ASSUME NEW m, Means(m), NEW declared \in Names,
         declared # Unknown /\ m.names # Unknown => Len(declared) = Len(m.names)
  PROVE  /\ Means(Renamed(m, declared))
         /\ Renamed(m, declared).followed => Renamed(m, declared) = m
<1> DEFINE r == Renamed(m, declared)
<1>1. m \in Meanings /\ NamesItsColumns(m) /\ m.columns \in Seq(AColumn)
  BY DEF Means, Meanings, Columns, AColumn
<1>2. CASE declared \in {Unknown, m.names}
  BY <1>2 DEF Renamed
<1>3. CASE declared \notin {Unknown, m.names}
  <2> DEFINE column(i) == [m.columns[i] EXCEPT !.name = declared[i]]
             named == [i \in DOMAIN m.columns |-> column(i)]
             columns == IF m.names = Unknown THEN Untraced(declared) ELSE named
  <2>1. declared \in Seq(Column) /\ declared # Unknown
    BY <1>3 DEF Names
  <2>2. r = [m EXCEPT !.names = declared, !.followed = FALSE, !.columns = columns]
    BY <1>3 DEF Renamed
  <2>3. /\ columns \in Columns /\ Len(declared) = Len(columns)
        /\ \A i \in 1..Len(declared) : declared[i] = columns[i].name
    <3>1. CASE m.names = Unknown
      BY <2>1, <3>1, UntracedMeans
    <3>2. CASE m.names # Unknown
      <4>1. /\ Len(declared) = Len(m.columns) /\ Len(m.columns) \in Nat
            /\ DOMAIN m.columns = 1..Len(m.columns)
        BY <1>1, <2>1, <3>2 DEF NamesItsColumns
      <4>2. \A i \in 1..Len(m.columns) : column(i) \in AColumn /\ column(i).name = declared[i]
        <5>1. ASSUME NEW i \in 1..Len(m.columns)
              PROVE  column(i) \in AColumn /\ column(i).name = declared[i]
          <6>1. m.columns[i] \in AColumn /\ declared[i] \in Column
            BY <1>1, <2>1, <4>1
          <6> QED BY <6>1 DEF AColumn
        <5> QED BY <5>1
      <4> HIDE DEF column
      <4>3. named \in [1..Len(m.columns) -> AColumn] /\ \A i \in 1..Len(m.columns) : named[i] = column(i)
        BY <4>1, <4>2
      <4> HIDE DEF named
      <4>4. named \in Seq(AColumn) /\ Len(named) = Len(m.columns)
        BY <4>1, <4>3, FunctionIsSequence
      <4>5. \A i \in 1..Len(declared) : declared[i] = named[i].name
        BY <4>1, <4>2, <4>3
      <4> QED BY <3>2, <4>1, <4>4, <4>5 DEF Columns, AColumn
    <3> QED BY <3>1, <3>2
  <2> HIDE DEF columns, r
  <2>4. /\ r.names = declared /\ r.columns = columns /\ r.followed = FALSE
        /\ r = [names |-> declared, columns |-> columns, relations |-> m.relations,
                whole |-> m.whole, followed |-> FALSE]
    BY <1>1, <2>2 DEF Meanings
  <2>5. r \in Meanings
    BY <1>1, <2>3, <2>4 DEF Meanings
  <2>6. NamesItsColumns(r)
    BY <2>3, <2>4 DEF NamesItsColumns
  <2> QED BY <2>4, <2>5, <2>6 DEF Means, r
<1> QED BY <1>2, <1>3

LEMMA ReplaceOnly ==
  ASSUME NEW F, NEW q \in Seq(F), Len(q) = 1, NEW e \in F, NEW r, r = [q EXCEPT ![1] = e]
  PROVE  r \in Seq(F) /\ Len(r) = 1 /\ r[1] = e
<1>1. 1 \in 1..Len(q)
  OBVIOUS
<1> QED BY <1>1, ReplaceType

LEMMA BindIs ==
  ASSUME NEW S, ctes \in Seq([Name -> S]), Len(ctes) = 1, ctes[1] \in [Name -> S],
         NEW n \in Name, NEW m \in S, Bind(n, m)
  PROVE  /\ ctes' \in Seq([Name -> S]) /\ Len(ctes') = 1
         /\ ctes'[1][n] = m /\ \A x \in Name : x # n => ctes'[1][x] = ctes[1][x]
<1> DEFINE scope == [ctes[1] EXCEPT ![n] = m]
           F == [Name -> S]
           all == ctes'
<1>1. scope \in F /\ scope[n] = m /\ \A x \in Name : x # n => scope[x] = ctes[1][x]
  OBVIOUS
<1>2. all = [ctes EXCEPT ![1] = scope]
  BY DEF Bind
<1> HIDE DEF scope, all
<1>3. all \in Seq(F) /\ Len(all) = 1 /\ all[1] = scope
  <2>1. ctes \in Seq(F) /\ Len(ctes) = 1
    OBVIOUS
  <2> HIDE DEF F
  <2> QED BY <1>1, <1>2, <2>1, ReplaceOnly
<1> QED BY <1>1, <1>3 DEF all

LEMMA WalkCteKeeps ==
  ASSUME Inv, WalkCte
  PROVE  Inv'
<1>1. Typed /\ Shaped /\ Scoped /\ BodiesKnown /\ Framed /\ OuterKnown /\ Truthful
  BY DEF Inv
<1>2. /\ Depth > 0 /\ walk[Depth].node = "with" /\ walk[Depth].part = "bindings"
      /\ made < MaxNodes
      /\ UNCHANGED <<stack, per_query, outer_query, made, main, meant>>
  BY DEF WalkCte, TopIs, Top
<1>3. PICK n \in Bindings, declared \in Declared :
        /\ cte_bodies' = IF stack = <<>> THEN [cte_bodies EXCEPT ![n] = made + 1]
                         ELSE cte_bodies
        /\ Bind(n, Recursive(declared))
        /\ walk' = Append(walk, [Activation("cte", None, "body") EXCEPT !.name = n, !.declared = declared])
  BY DEF WalkCte
<1> DEFINE a == [Activation("cte", None, "body") EXCEPT !.name = n, !.declared = declared]
           m == Recursive(declared)
<1>4. /\ Depth = 1 /\ InWith /\ Len(ctes) = 1 /\ stack = <<>> /\ Len(walk) = 1
      /\ ctes \in Seq([Name -> {None} \cup Meanings])
      /\ ctes[1] \in [Name -> {None} \cup Meanings]
      /\ walk[1] \in Activations
  BY <1>1, <1>2, WithAlone
<1>5. n \in Name /\ declared \in Names /\ None \notin Nat /\ None \notin Meanings
  BY LineageAssumption
<1>6. made \in Nat /\ made + 1 \in Node /\ made + 1 \in Nat
  BY <1>1, <1>2, LineageAssumption DEF Typed, Node
<1>7. /\ a \in Activations /\ a.node = "cte" /\ a.bodies = <<>> /\ a.name = n
  <2>1. /\ Activation("cte", None, "body") \in Activations
        /\ Activation("cte", None, "body").node = "cte"
        /\ Activation("cte", None, "body").bodies = <<>>
    BY ActivationType
  <2> QED BY <1>5, <2>1 DEF Activations
<1>8. Means(m) /\ ~m.followed
  BY <1>5, RecursiveMeans
<1> HIDE DEF a, m
<1>9. Pushed(a) /\ Kept
  BY <1>1, <1>2, <1>3, <1>7, PushIs, KeptUnchanged DEF a
<1>10. /\ Depth' = 2 /\ walk'[1] = walk[1] /\ walk'[2] = a /\ walk' # <<>>
  <2>1. Len(walk') = 2 /\ walk'[2] = a /\ walk'[1] = walk[1]
    BY <1>4, <1>9 DEF Pushed
  <2>2. Len(<<>>) = 0
    OBVIOUS
  <2> QED BY <2>1, <2>2 DEF Depth
<1>11. /\ cte_bodies'[n] = made + 1 /\ \A x \in Name : x # n => cte_bodies'[x] = cte_bodies[x]
       /\ cte_bodies' \in [Name -> {None} \cup Node]
  BY <1>1, <1>3, <1>4, <1>5, <1>6 DEF Typed
<1>12. /\ ctes' \in Seq([Name -> {None} \cup Meanings]) /\ Len(ctes') = 1
       /\ ctes'[1][n] = m /\ \A x \in Name : x # n => ctes'[1][x] = ctes[1][x]
  <2>1. m \in {None} \cup Meanings
    BY <1>8 DEF Means
  <2>2. Bind(n, m)
    BY <1>3 DEF m
  <2> DEFINE S == {None} \cup Meanings
  <2>3. /\ ctes \in Seq([Name -> S]) /\ ctes[1] \in [Name -> S]
        /\ Len(ctes) = 1 /\ n \in Name /\ m \in S /\ Bind(n, m)
    BY <1>4, <1>5, <2>1, <2>2
  <2> HIDE DEF S
  <2>4. /\ ctes' \in Seq([Name -> S]) /\ Len(ctes') = 1
        /\ ctes'[1][n] = m /\ \A x \in Name : x # n => ctes'[1][x] = ctes[1][x]
    BY ONLY <2>3, BindIs
  <2> QED BY <2>4 DEF S
<1>13. Typed'
  BY <1>1, <1>2, <1>9, <1>11, <1>12 DEF Typed, Pushed
<1>14. Shaped'
  <2>1. Under(walk[Depth], a)
    BY <1>2, <1>7 DEF Under
  <2> QED BY <1>1, <1>2, <1>4, <1>5, <1>7, <1>9, <2>1, ShapedPush
<1>15. Scoped'
  <2>1. InWith' /\ Depth' = 2
    BY <1>4, <1>10 DEF InWith
  <2>2. ASSUME NEW x \in Name
        PROVE  /\ cte_bodies'[x] = None <=> ctes'[1][x] = None
               /\ ctes'[1][x] # None =>
                    /\ NamesItsColumns(ctes'[1][x])
                    /\ ctes'[1][x].followed => Summarised(per_query', cte_bodies'[x], ctes'[1][x])
               /\ cte_bodies'[x] # None => cte_bodies'[x] <= made' \/ (BodyDue' /\ x = walk'[2].name)
    <3>1. CASE x = n
      <4>1. BodyDue' /\ walk'[2].name = n
        BY <1>7, <1>10 DEF BodyDue
      <4> QED BY <1>5, <1>6, <1>8, <1>11, <1>12, <3>1, <4>1 DEF Means
    <3>2. CASE x # n
      <4>1. cte_bodies'[x] = cte_bodies[x] /\ ctes'[1][x] = ctes[1][x]
        BY <1>11, <1>12, <3>2
      <4>2. /\ cte_bodies[x] = None <=> ctes[1][x] = None
            /\ ctes[1][x] # None =>
                 /\ NamesItsColumns(ctes[1][x])
                 /\ ctes[1][x].followed => Summarised(per_query, cte_bodies[x], ctes[1][x])
        BY <1>1, <1>4 DEF Scoped
      <4>3. cte_bodies[x] # None => cte_bodies[x] <= made
        <5>1. ~BodyDue
          BY <1>4 DEF BodyDue
        <5> QED BY <1>1, <5>1 DEF Scoped
      <4> QED BY <1>2, <4>1, <4>2, <4>3
    <3> QED BY <3>1, <3>2
  <2>3. cte_bodies'[walk'[2].name] =
          IF walk'[2].bodies # <<>> THEN walk'[2].bodies[1].id
          ELSE IF Depth' = 2 THEN made' + 1 ELSE walk'[3].id
    BY <1>2, <1>7, <1>10, <1>11, <2>1
  <2> QED BY <1>12, <2>1, <2>2, <2>3 DEF Scoped
<1>16. BodiesKnown'
  BY <1>1, <1>7, <1>9, BodiesPush
<1>17. Framed'
  BY <1>1, <1>2, <1>7, <1>9, FramedPush
<1>18. OuterKnown' /\ Truthful'
  <2>1. BeforeMain
    BY <1>2, <1>4 DEF BeforeMain
  <2> QED BY <1>1, <1>2, <2>1, OuterKept, TruthKept
<1> QED BY <1>13, <1>14, <1>15, <1>16, <1>17, <1>18 DEF Inv

LEMMA EndCteKeeps ==
  ASSUME Inv, EndCte
  PROVE  Inv'
<1> DEFINE top == walk[Depth]
           body == top.bodies[1]
           n == top.name
           declared == top.declared
           m == Renamed(body.meaning, declared)
           S == {None} \cup Meanings
<1>1. Typed /\ Shaped /\ Scoped /\ BodiesKnown /\ Framed /\ OuterKnown /\ Truthful
  BY DEF Inv
<1>2. /\ Depth > 0 /\ top.node = "cte" /\ Len(top.bodies) = 1
      /\ declared # Unknown /\ body.meaning.names # Unknown => Len(declared) = Len(body.meaning.names)
      /\ Bind(n, m) /\ walk' = Front(walk)
      /\ UNCHANGED <<stack, cte_bodies, per_query, outer_query, made, main, meant>>
  BY DEF EndCte, TopIs, Top, capture
<1>3. /\ Depth = 2 /\ walk[1].node = "with" /\ walk[1].part = "bindings" /\ InWith
      /\ walk # <<>> /\ top.bodies # <<>>
  <2>1. Depth \in Nat /\ Depth \in 1..Depth /\ walk # <<>>
    BY <1>1, <1>2, WalkTyped
  <2>2. Depth # 1
    BY <1>1, <1>2, <2>1 DEF Shaped
  <2>3. Depth - 1 \in 1..(Depth - 1) /\ Depth - 1 \in 1..Depth /\ (Depth - 1) + 1 = Depth
    BY <1>2, <2>1, <2>2
  <2>4. Under(walk[Depth - 1], top)
    BY <1>1, <2>3 DEF Shaped
  <2>5. walk[Depth - 1].node = "with" /\ walk[Depth - 1].part = "bindings"
    BY <1>2, <2>4 DEF Under
  <2>6. Depth - 1 = 1
    BY <1>1, <2>3, <2>5 DEF Shaped
  <2>7. Len(<<>>) = 0
    OBVIOUS
  <2> QED BY <1>2, <2>1, <2>5, <2>6, <2>7 DEF InWith
<1>4. /\ top = walk[2] /\ top \in Activations /\ n \in Name /\ declared \in Names
      /\ 2 \in 1..Depth /\ 1 \in 1..Depth /\ 1 \in 1..Len(top.bodies)
  <2>1. 2 \in 1..Depth /\ 1 \in 1..Depth
    BY <1>3
  <2>2. top \in Activations
    BY <1>1, <1>3, <2>1, WalkTyped
  <2>3. declared \in Names
    BY <2>2 DEF Activations
  <2> QED BY <1>1, <1>2, <1>3, <2>1, <2>2, <2>3 DEF Shaped
<1>5. body \in Bodies /\ Means(body.meaning) /\ KnownBody(per_query, body)
  BY <1>1, <1>3, <1>4, BodyOf
<1>6. cte_bodies[n] = body.id /\ body.id \in Node /\ body.id <= made /\ None \notin Node
  <2>1. cte_bodies[n] = body.id
    BY <1>1, <1>3, <1>4, <1>2 DEF Scoped
  <2>2. body.id <= made
    BY <1>1, <1>3, <1>4 DEF Shaped
  <2> QED BY <1>5, <2>1, <2>2, LineageAssumption DEF Bodies, Node
<1>7. Means(m) /\ (m.followed => m = body.meaning)
  BY <1>2, <1>4, <1>5, RenamedMeans
<1> HIDE DEF m, body, top
<1>8. /\ Trimmed(1) /\ walk'[1] = walk[1] /\ Depth' = 1 /\ Kept /\ walk' # <<>>
  <2>1. walk' \in Seq(Activations) /\ Len(walk') = 1 /\ walk'[1] = walk[1] /\ 1 \in 0..Len(walk)
    BY <1>1, <1>2, <1>3, FrontIs
  <2>2. Len(<<>>) = 0
    OBVIOUS
  <2>3. \A d \in 1..1 : d = 1 /\ d \notin 1..(1 - 1)
    OBVIOUS
  <2>4. Trimmed(1)
    BY <2>1, <2>3 DEF Trimmed
  <2>5. Kept
    BY <1>2, KeptUnchanged
  <2>6. walk' # <<>> /\ Depth' = 1
    BY <2>1, <2>2, SMTT(30) DEF Depth
  <2> QED BY <2>1, <2>4, <2>5, <2>6
<1>9. /\ ctes' \in Seq([Name -> S]) /\ Len(ctes') = 1 /\ Len(ctes) = 1
      /\ ctes'[1][n] = m /\ \A x \in Name : x # n => ctes'[1][x] = ctes[1][x]
  <2>1. Len(ctes) = 1 /\ ctes \in Seq([Name -> S])
    BY <1>1, <1>3 DEF Scoped, Typed
  <2>2. ctes[1] \in [Name -> S]
    <3>1. \A T : \A q \in Seq(T) : Len(q) = 1 => q[1] \in T
      OBVIOUS
    <3> QED BY <2>1, <3>1
  <2>3. m \in S /\ Bind(n, m) /\ n \in Name
    BY <1>2, <1>4, <1>7 DEF Means
  <2> HIDE DEF S, n
  <2> QED BY ONLY <2>1, <2>2, <2>3, BindIs
<1>10. Typed'
  <2>1. walk' \in Seq(Activations)
    BY <1>8 DEF Trimmed
  <2> QED BY <1>1, <1>2, <1>9, <2>1 DEF Typed
<1>11. Shaped'
  <2>1. \A k \in 1..Len(walk'[1].bodies) : walk'[1].bodies[k].id <= made
    BY <1>1, <1>4, <1>8 DEF Shaped
  <2>2. \A d \in 1..(1 - 1) : walk'[d].part = walk[d].part
    OBVIOUS
  <2> QED BY <1>1, <1>2, <1>8, <2>1, <2>2, ShapedTrim
<1>12. Scoped'
  <2>1. InWith' /\ ~(Depth' > 1)
    BY <1>3, <1>8 DEF InWith
  <2>2. ASSUME NEW x \in Name
        PROVE  /\ cte_bodies'[x] = None <=> ctes'[1][x] = None
               /\ ctes'[1][x] # None =>
                    /\ NamesItsColumns(ctes'[1][x])
                    /\ ctes'[1][x].followed => Summarised(per_query', cte_bodies'[x], ctes'[1][x])
               /\ cte_bodies'[x] # None => cte_bodies'[x] <= made' \/ (BodyDue' /\ x = walk'[2].name)
    <3>1. CASE x = n
      <4>1. ctes'[1][x] = m /\ cte_bodies'[x] = body.id /\ made' = made /\ per_query' = per_query
        BY <1>2, <1>6, <1>9, <3>1
      <4>2. m # None /\ body.id # None
        BY <1>6, <1>7, LineageAssumption DEF Means
      <4>3. m.followed => Summarised(per_query, body.id, m)
        BY <1>5, <1>7 DEF KnownBody
      <4> QED BY <1>6, <1>7, <4>1, <4>2, <4>3 DEF Means
    <3>2. CASE x # n
      <4>1. /\ cte_bodies'[x] = cte_bodies[x] /\ ctes'[1][x] = ctes[1][x]
            /\ made' = made /\ per_query' = per_query
        BY <1>2, <1>9, <3>2
      <4>2. /\ cte_bodies[x] = None <=> ctes[1][x] = None
            /\ ctes[1][x] # None =>
                 /\ NamesItsColumns(ctes[1][x])
                 /\ ctes[1][x].followed => Summarised(per_query, cte_bodies[x], ctes[1][x])
        BY <1>1, <1>3 DEF Scoped
      <4>3. cte_bodies[x] # None => cte_bodies[x] <= made
        <5>1. ~BodyDue
          BY <1>3, <1>4 DEF BodyDue
        <5> QED BY <1>1, <5>1 DEF Scoped
      <4> QED BY <4>1, <4>2, <4>3
    <3> QED BY <3>1, <3>2
  <2> QED BY <1>9, <2>1, <2>2 DEF Scoped
<1>13. BodiesKnown'
  <2>1. \A k \in 1..Len(walk'[1].bodies) : KnownBody(per_query', walk'[1].bodies[k])
    BY <1>1, <1>2, <1>4, <1>8 DEF BodiesKnown
  <2> QED BY <1>1, <1>8, <2>1, BodiesTrim
<1>14. Framed'
  <2>1. \A d \in 1..Depth : d > 1 => d = 2
    BY <1>3
  <2>2. \A d \in 1..Depth : d > 1 => walk[d].node # "query"
    BY <1>2, <1>4, <2>1
  <2>3. \A d \in 1..1 : walk'[d].items = walk[d].items
    BY <1>8
  <2> QED BY <1>1, <1>2, <1>8, <2>2, <2>3, FramedStays
<1>15. OuterKnown' /\ Truthful'
  <2>1. BeforeMain
    BY <1>3 DEF BeforeMain
  <2> QED BY <1>1, <1>2, <2>1, OuterKept, TruthKept
<1> QED BY <1>10, <1>11, <1>12, <1>13, <1>14, <1>15 DEF Inv

LEMMA EndWithKeeps ==
  ASSUME Inv, EndWith
  PROVE  Inv'
<1>1. Typed /\ Shaped /\ Scoped /\ BodiesKnown /\ Framed /\ OuterKnown /\ Truthful
  BY DEF Inv
<1>2. /\ Depth > 0 /\ walk[Depth].node = "with" /\ walk[Depth].part = "body"
      /\ Len(walk[Depth].bodies) = 1
      /\ ctes' = Front(ctes)
      /\ \E b : walk' = Returned(b)
      /\ UNCHANGED <<stack, cte_bodies, per_query, outer_query, made, main, meant>>
  BY DEF EndWith, TopIs, Top, capture
<1>3. /\ Depth = 1 /\ InWith /\ Len(ctes) = 1 /\ stack = <<>> /\ Len(walk) = 1
      /\ ctes \in Seq([Name -> {None} \cup Meanings]) /\ walk \in Seq(Activations)
  BY <1>1, <1>2, WithAlone
<1>4. \A T : \A q \in Seq(T) : Len(q) = 1 => Front(q) = <<>> /\ Front(q) \in Seq(T)
  BY DEF Front
<1>5. walk' = <<>> /\ ctes' = <<>> /\ walk' \in Seq(Activations)
      /\ ctes' \in Seq([Name -> {None} \cup Meanings])
  <2>1. Front(walk) = <<>> /\ Front(walk) \in Seq(Activations)
    BY <1>3, <1>4
  <2>2. Front(ctes) = <<>> /\ Front(ctes) \in Seq([Name -> {None} \cup Meanings])
    <3> DEFINE T == [Name -> {None} \cup Meanings]
    <3>1. Len(ctes) = 1 /\ ctes \in Seq(T)
      BY <1>3
    <3> HIDE DEF T
    <3>2. Front(ctes) = <<>> /\ Front(ctes) \in Seq(T)
      BY <3>1, <1>4
    <3> QED BY <3>2 DEF T
  <2> QED BY <1>2, <2>1, <2>2 DEF Returned
<1>6. made \in Nat /\ made # 0
  <2>1. 1 \in 1..Depth /\ 1 \in 1..Len(walk[1].bodies)
    <3>1. Len(walk[1].bodies) = 1 /\ Depth = 1
      BY <1>2, <1>3
    <3> QED BY <3>1
  <2>2. walk[1].bodies[1] \in Bodies /\ walk[1].bodies[1].id <= made
    BY <1>1, <2>1, WalkTyped DEF Shaped
  <2>3. walk[1].bodies[1].id \in Nat /\ walk[1].bodies[1].id > 0 /\ made \in Nat
    BY <1>1, <2>2, LineageAssumption DEF Bodies, Node, Typed
  <2> QED BY <2>2, <2>3
<1>7. Trimmed(0) /\ Depth' = 0 /\ Kept
  <2>1. Len(walk') = 0
    BY <1>5
  <2> QED BY <1>2, <1>3, <1>5, <2>1, KeptUnchanged DEF Trimmed, Depth
<1>8. Typed'
  BY <1>1, <1>2, <1>5 DEF Typed
<1>9. Shaped'
  <2>1. /\ \A d \in 1..(0 - 1) : walk'[d].part = walk[d].part
        /\ 0 \notin 1..Depth
    BY <1>3
  <2> QED BY <1>1, <1>2, <1>7, <2>1, ShapedTrim
<1>10. Scoped'
  <2>1. ~InWith' /\ ~BodyDue' /\ ~(Depth' > 1) /\ walk' = <<>> /\ made' # 0
    BY <1>2, <1>5, <1>6, <1>7 DEF InWith, BodyDue
  <2>2. ASSUME NEW x \in Name, cte_bodies'[x] # None
        PROVE  cte_bodies'[x] <= made'
    <3>1. ~BodyDue
      BY <1>3 DEF BodyDue
    <3> QED BY <1>1, <1>2, <2>2, <3>1 DEF Scoped
  <2> QED BY <1>5, <2>1, <2>2 DEF Scoped
<1>11. BodiesKnown'
  BY <1>1, <1>7, BodiesTrim
<1>12. Framed'
  <2>1. \A d \in 1..Depth : d > 0 => walk[d].node # "query"
    <3>1. \A d \in 1..Depth : d = Depth
      BY <1>3
    <3> QED BY <1>2, <3>1
  <2>2. \A d \in 1..0 : walk'[d].items = walk[d].items
    OBVIOUS
  <2> QED BY <1>1, <1>2, <1>7, <2>1, <2>2, FramedStays
<1>13. OuterKnown' /\ Truthful'
  <2>1. ~BeforeMain'
    BY <1>2, <1>5, <1>6 DEF BeforeMain, InWith
  <2> QED BY <1>1, <1>2, <2>1, OuterKept, TruthKept
<1> QED BY <1>8, <1>9, <1>10, <1>11, <1>12, <1>13 DEF Inv

-----------------------------------------------------------------------------
(* Every step, and the theorems *)

LEMMA InitIs ==
  ASSUME Init
  PROVE  Inv
<1>1. /\ stack = <<>> /\ walk = <<>> /\ ctes = <<>> /\ made = 0
      /\ outer_query = None /\ main = None
      /\ cte_bodies = [n \in Name |-> None]
      /\ per_query = [q \in Node |-> None] /\ meant = [q \in Node |-> None]
  BY DEF Init
<1>2. Depth = 0 /\ Len(stack) = 0 /\ 1..Depth = {} /\ 1..Len(stack) = {} /\ ~InWith
  BY <1>1 DEF Depth, InWith
<1>3. \A S : <<>> \in Seq(S)
  OBVIOUS
<1>4. Typed
  BY <1>1, <1>3, LineageAssumption DEF Typed
<1>5. Shaped
  <2>1. 1..(Depth - 1) = {}
    BY <1>2
  <2> QED BY <1>1, <1>2, <2>1 DEF Shaped
<1>6. Scoped
  BY <1>1, <1>2 DEF Scoped
<1>7. BodiesKnown /\ Framed
  BY <1>2 DEF BodiesKnown, Framed
<1>8. OuterKnown /\ Truthful
  BY <1>1 DEF OuterKnown, Truthful
<1> QED BY <1>4, <1>5, <1>6, <1>7, <1>8 DEF Inv

LEMMA NothingChanges ==
  ASSUME Inv, UNCHANGED vars
  PROVE  Inv'
<1>1. UNCHANGED <<stack, cte_bodies, per_query, outer_query, walk, ctes, made, meant, main>>
  BY DEF vars, capture
<1>2. /\ Typed' = Typed /\ Shaped' = Shaped /\ BodiesKnown' = BodiesKnown
      /\ OuterKnown' = OuterKnown /\ Truthful' = Truthful
  BY <1>1 DEF Typed, Shaped, BodiesKnown, OuterKnown, Truthful, BeforeMain, InWith, Depth
<1>3. Scoped' = Scoped /\ Framed' = Framed
  BY <1>1 DEF Scoped, Framed, InWith, BodyDue, Depth
<1> QED BY <1>2, <1>3 DEF Inv

(* What is not simple never becomes so. *)
LEMMA SimpleBefore ==
  ASSUME [Next]_vars, simple'
  PROVE  simple
<1>1. CASE UNCHANGED simple
  BY <1>1
<1>2. CASE EnterCompound
  BY <1>2 DEF EnterCompound
<1>3. CASE EnterWith
  BY <1>3 DEF EnterWith
<1> QED
  BY <1>1, <1>2, <1>3
     DEF Next, vars, EnterQuery, WalkSourceRef, EnterScopedSource, EndScopedSource, EndFrom,
         ExitQuery, EndCompound, WalkCte, EndCte, EndBindings, EndWith

LEMMA NextKeeps ==
  ASSUME Inv, [Next]_vars, simple'
  PROVE  Inv'
<1>1. CASE EnterQuery
  BY <1>1, EnterQueryKeeps
<1>2. CASE WalkSourceRef
  BY <1>2, WalkSourceRefKeeps
<1>3. CASE EnterScopedSource
  BY <1>3, EnterScopedSourceKeeps
<1>4. CASE EndScopedSource
  BY <1>4, EndScopedSourceKeeps
<1>5. CASE EndFrom
  BY <1>5, EndFromKeeps
<1>6. CASE ExitQuery
  BY <1>6, ExitQueryKeeps
<1>7. CASE EnterCompound
  BY <1>7, EnterCompoundKeeps
<1>8. CASE EndCompound
  BY <1>8, EndCompoundKeeps
<1>9. CASE EnterWith
  BY <1>9, EnterWithKeeps
<1>10. CASE WalkCte
  BY <1>10, WalkCteKeeps
<1>11. CASE EndCte
  BY <1>11, EndCteKeeps
<1>12. CASE EndBindings
  BY <1>12, EndBindingsKeeps
<1>13. CASE EndWith
  BY <1>13, EndWithKeeps
<1>14. CASE UNCHANGED vars
  BY <1>14, NothingChanges
<1> QED
  BY <1>1, <1>2, <1>3, <1>4, <1>5, <1>6, <1>7, <1>8, <1>9, <1>10, <1>11, <1>12, <1>13, <1>14
     DEF Next

(* The invariant holds as long as no WITH and no compound stood where the   *)
(* capture misplaces them.                                                  *)
LEMMA InvHolds == Spec => [](simple => Inv)
<1>1. Init => (simple => Inv)
  BY InitIs
<1>2. (simple => Inv) /\ [Next]_vars => (simple => Inv)'
  <2> SUFFICES ASSUME simple => Inv, [Next]_vars, simple'
               PROVE  Inv'
    OBVIOUS
  <2> QED BY SimpleBefore, NextKeeps
<1> QED BY <1>1, <1>2, PTL DEF Spec

(* A query of a shape the capture follows gets the lineage it has, for      *)
(* every schema, every set of names and columns, every nesting of           *)
(* subqueries and compounds and every WITH clause of the statement: the     *)
(* tables and views it reads, the origin of each of its columns, and        *)
(* Complete exactly when everything was traced to tables (LineageCapture,   *)
(* Finalizer).                                                              *)
THEOREM LineageTrue == Spec => []LineageIsTrue
<1>1. (simple => Inv) => LineageIsTrue
  BY DEF Inv, Truthful, LineageIsTrue
<1> QED BY <1>1, InvHolds, PTL

(* The lineage of the statement is that of its own query, never of a body   *)
(* of its WITH clause or of a subquery (enter_query, build_lineage).        *)
THEOREM OuterQueryRight == Spec => []OuterQueryIsTheStatements
<1>1. (simple => Inv) => OuterQueryIsTheStatements
  BY DEF Inv, OuterKnown, OuterQueryIsTheStatements
<1> QED BY <1>1, InvHolds, PTL
=============================================================================
