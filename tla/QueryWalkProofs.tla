---------------------------- MODULE QueryWalkProofs ----------------------------
(***************************************************************************)
(* The scopes of the walk are those of the statement's nesting, whatever    *)
(* the statement, its FROM clauses, its depth and its WITH clauses.         *)
(*                                                                         *)
(* The properties of QueryWalk speak of the walk as it stands; the proofs   *)
(* need the same of every prefix of it, because leaving a scope leads back  *)
(* to what its caller had.  So what the nesting says is defined here of any *)
(* walk w up to its activation k, the invariant (Consistent) is stated of   *)
(* any values of the variables, and every action is put together from five  *)
(* moves that keep it: entering a scope, leaving one, and changing the      *)
(* innermost activation, its frame or its WITH clause.                      *)
(***************************************************************************)
EXTENDS QueryWalk, SequenceLemmas

Nodes == {"query", "source", "cte", "with", "dml", "upsert", "compound",
          "order", "trigger", "table"}
Parts == {"from", "on", "columns", "clauses", "query", "done"}
FrameType == [named : [Bindable -> {None} \cup Sources], anon : SUBSET Sources]
CteType == [Name -> {None} \cup Sources]
LimitType == {None} \cup [frame : Nat, later : SUBSET Bindable]
ActivationType ==
  [node : Nodes, from : Seq(Items), part : Parts, at : Nat \ {0},
   aliases : SUBSET Column, right : BOOLEAN, limit : LimitType]

HasFrame(a) == a.node \notin {"with", "compound"}
IsSelect(a) == a.node \in {"query", "dml"}

(* The frames, the WITH clauses, the RIGHT JOIN flag and the limit that the *)
(* first k activations of w ask for.                                        *)
FramesTo(w, k) == Cardinality({j \in 1..k : HasFrame(w[j])})
WithsTo(w, k) == Cardinality({j \in 1..k : w[j].node = "with"})
QueriesTo(w, k) == {j \in 1..k : w[j].node = "query"}
RightTo(w, k) ==
  QueriesTo(w, k) # {} /\ HasRightJoin(w[Highest(QueriesTo(w, k))].from)
OnsTo(w, k) == {j \in 1..k : w[j].part = "on"}
Beyond(a) == {a.from[j].bound : j \in DOMAIN a.from \ (FirstItem(a)..a.at)}
               \ (JoinNames(a) \cup {NoName})
LimitAt(a, r, frame) ==
  IF r \/ a.from[a.at].join # "inner"
  THEN [frame |-> frame, later |-> Beyond(a)] ELSE None
LimitTo(w, k) ==
  IF OnsTo(w, k) = {} THEN None
  ELSE LimitAt(w[Highest(OnsTo(w, k))], RightTo(w, Highest(OnsTo(w, k))),
               FramesTo(w, Highest(OnsTo(w, k))))

(* What is in the frame f of an activation a of a query, under the WITH     *)
(* clauses cs.                                                              *)
NamedItems(a) == {j \in DOMAIN a.from : a.from[j].bound # NoName}
FrameIs(a, f, cs) ==
  /\ Bound(f) \ {Selected} = {a.from[j].bound : j \in NamedItems(a)}
  /\ Distinct(a.from) =>
       \A j \in NamedItems(a) : f.named[a.from[j].bound] = SourceOf(cs, a.from[j])
  /\ f.anon = {SourceOf(cs, a.from[j]) : j \in Walked(a) \ NamedItems(a)}
  /\ Selected \in Bound(f) <=>
       a.node = "query" /\ a.part = "clauses" /\ a.aliases # {}

(* How an activation stands on those below it, and what it has kept of its  *)
(* caller.                                                                  *)
Shape(w, k) ==
  LET a == w[k] IN
  /\ IsSelect(a) => a.part \in {"from", "on", "columns", "clauses"}
  /\ IsSelect(a) /\ a.part \in {"from", "on"} => a.at \in DOMAIN a.from
  /\ a.part = "on" => IsSelect(a) /\ a.limit = LimitTo(w, k - 1)
  /\ a.node = "query" => a.right = RightTo(w, k - 1)
  /\ a.node = "source" =>
       /\ k > 1 /\ IsSelect(w[k - 1]) /\ w[k - 1].part = "from"
       /\ a.from = <<w[k - 1].from[w[k - 1].at]>>
  /\ a.node = "cte" => k > 1 /\ w[k - 1].node = "with" /\ Len(a.from) = 1
  /\ a.node = "trigger" => k = 1
  /\ a.node = "dml" => \A j \in 1..(k - 1) : w[j].node # "query"

Holds(w, fs, cs, k) ==
  IsSelect(w[k]) =>
    FrameIs(w[k], fs[FramesTo(w, k)], SubSeq(cs, 1, WithsTo(w, k)))

Typed(w, fs, cs, r, lim) ==
  /\ w \in Seq(ActivationType) /\ fs \in Seq(FrameType)
  /\ cs \in Seq(CteType) /\ r \in BOOLEAN /\ lim \in LimitType

Consistent(w, fs, cs, r, lim) ==
  /\ Typed(w, fs, cs, r, lim)
  /\ Len(fs) = FramesTo(w, Len(w)) /\ Len(cs) = WithsTo(w, Len(w))
  /\ r = RightTo(w, Len(w)) /\ lim = LimitTo(w, Len(w))
  /\ \A k \in 1..Len(w) : Shape(w, k) /\ Holds(w, fs, cs, k)

IInv == Consistent(walk, frames, ctes, right, limit)

-----------------------------------------------------------------------------
(* Sets of positions *)

LEMMA HighestIs ==
  ASSUME NEW n \in Nat, NEW S \in SUBSET (1..n), S # {}
  PROVE  Highest(S) \in S /\ \A j \in S : j <= Highest(S)
<1> DEFINE T == {m \in Nat : \A j \in S : j <= m}
<1>1. n \in T
  OBVIOUS
<1>2. PICK m \in T : \A i \in T : m <= i
  BY <1>1, LeastNat
<1>3. m \in S
  <2>1. SUFFICES ASSUME m \notin S
                 PROVE  FALSE
    OBVIOUS
  <2>2. \A j \in S : j <= m - 1 /\ j \in Nat /\ j >= 1
    BY <2>1
  <2>3. PICK j \in S : TRUE
    OBVIOUS
  <2>4. m - 1 \in Nat
    BY <2>2, <2>3
  <2>5. m - 1 \in T /\ m \in Nat
    BY <2>2, <2>4
  <2> HIDE DEF T
  <2> QED BY <1>2, <2>4, <2>5
<1>4. \E k \in S : \A j \in S : j <= k
  BY <1>3
<1> QED BY <1>4 DEF Highest

LEMMA HighestIsLast ==
  ASSUME NEW k \in Nat, NEW S \in SUBSET (1..k), k \in S
  PROVE  Highest(S) = k
<1> DEFINE h == Highest(S)
<1>1. h \in S /\ k <= h
  BY HighestIs
<1> HIDE DEF h
<1>2. h = k
  BY <1>1
<1> QED BY <1>2 DEF h

CountTo(S, n) == Cardinality({j \in 1..n : j \in S})

LEMMA CountStep ==
  ASSUME NEW k \in Nat, NEW S
  PROVE  /\ CountTo(S, 0) = 0 /\ CountTo(S, k) \in Nat
         /\ CountTo(S, k + 1) = CountTo(S, k) + IF k + 1 \in S THEN 1 ELSE 0
         /\ \A n \in 0..k : CountTo(S, n) <= CountTo(S, k) /\ CountTo(S, n) \in Nat
<1> DEFINE E(n) == {j \in 1..n : j \in S}
<1>1. \A n \in Nat : IsFiniteSet(E(n)) /\ Cardinality(E(n)) \in Nat
  <2>1. ASSUME NEW n \in Nat
        PROVE  IsFiniteSet(E(n))
    <3>1. IsFiniteSet(1..n)
      BY FS_Interval
    <3>2. E(n) \subseteq 1..n
      OBVIOUS
    <3> HIDE DEF E
    <3> QED BY <3>1, <3>2, FS_Subset
  <2> HIDE DEF E
  <2> QED BY <2>1, FS_CardinalityType
<1>2. E(0) = {}
  OBVIOUS
<1>3. E(k + 1) = IF k + 1 \in S THEN E(k) \cup {k + 1} ELSE E(k)
  OBVIOUS
<1>4. k + 1 \notin E(k)
  OBVIOUS
<1>5. \A n \in 0..k : E(n) \subseteq E(k)
  OBVIOUS
<1>6. \A n \in 0..k : n \in Nat
  OBVIOUS
<1> HIDE DEF E
<1>7. Cardinality(E(0)) = 0
  BY <1>2, FS_EmptySet
<1>8. Cardinality(E(k + 1)) = Cardinality(E(k)) + IF k + 1 \in S THEN 1 ELSE 0
  BY <1>1, <1>3, <1>4, FS_AddElement
<1>9. \A n \in 0..k : Cardinality(E(n)) <= Cardinality(E(k))
  BY <1>1, <1>5, <1>6, FS_Subset
<1> QED BY <1>1, <1>6, <1>7, <1>8, <1>9 DEF E, CountTo

-----------------------------------------------------------------------------
(* What a longer walk asks for *)

LEMMA FramesStep ==
  ASSUME NEW w, NEW k \in Nat
  PROVE  /\ FramesTo(w, 0) = 0 /\ FramesTo(w, k) \in Nat
         /\ FramesTo(w, k + 1) = FramesTo(w, k)
              + IF HasFrame(w[k + 1]) THEN 1 ELSE 0
         /\ \A n \in 0..k : FramesTo(w, n) <= FramesTo(w, k) /\ FramesTo(w, n) \in Nat
<1> DEFINE S == {j \in Nat : HasFrame(w[j])}
<1>1. \A n \in Nat : {j \in 1..n : HasFrame(w[j])} = {j \in 1..n : j \in S}
  OBVIOUS
<1>2. k + 1 \in S <=> HasFrame(w[k + 1])
  OBVIOUS
<1>3. \A n \in 0..k : n \in Nat
  OBVIOUS
<1> HIDE DEF S
<1>4. \A n \in Nat : FramesTo(w, n) = CountTo(S, n)
  BY <1>1 DEF FramesTo, CountTo
<1>5. /\ CountTo(S, 0) = 0 /\ CountTo(S, k) \in Nat
      /\ CountTo(S, k + 1) = CountTo(S, k) + IF k + 1 \in S THEN 1 ELSE 0
      /\ \A n \in 0..k : CountTo(S, n) <= CountTo(S, k) /\ CountTo(S, n) \in Nat
  BY CountStep
<1> QED BY <1>2, <1>3, <1>4, <1>5

LEMMA WithsStep ==
  ASSUME NEW w, NEW k \in Nat
  PROVE  /\ WithsTo(w, 0) = 0 /\ WithsTo(w, k) \in Nat
         /\ WithsTo(w, k + 1) = WithsTo(w, k)
              + IF w[k + 1].node = "with" THEN 1 ELSE 0
         /\ \A n \in 0..k : WithsTo(w, n) <= WithsTo(w, k) /\ WithsTo(w, n) \in Nat
<1> DEFINE S == {j \in Nat : w[j].node = "with"}
<1>1. \A n \in Nat : {j \in 1..n : w[j].node = "with"} = {j \in 1..n : j \in S}
  OBVIOUS
<1>2. k + 1 \in S <=> w[k + 1].node = "with"
  OBVIOUS
<1>3. \A n \in 0..k : n \in Nat
  OBVIOUS
<1> HIDE DEF S
<1>4. \A n \in Nat : WithsTo(w, n) = CountTo(S, n)
  BY <1>1 DEF WithsTo, CountTo
<1>5. /\ CountTo(S, 0) = 0 /\ CountTo(S, k) \in Nat
      /\ CountTo(S, k + 1) = CountTo(S, k) + IF k + 1 \in S THEN 1 ELSE 0
      /\ \A n \in 0..k : CountTo(S, n) <= CountTo(S, k) /\ CountTo(S, n) \in Nat
  BY CountStep
<1> QED BY <1>2, <1>3, <1>4, <1>5

LEMMA RightStep ==
  ASSUME NEW w, NEW k \in Nat
  PROVE  /\ RightTo(w, 0) = FALSE /\ RightTo(w, k) \in BOOLEAN
         /\ RightTo(w, k + 1) = IF w[k + 1].node = "query"
                                THEN HasRightJoin(w[k + 1].from)
                                ELSE RightTo(w, k)
<1> USE DEF HasRightJoin
<1>1. QueriesTo(w, 0) = {}
  BY DEF QueriesTo
<1>4. RightTo(w, 0) = FALSE
  BY <1>1 DEF RightTo
<1>5. RightTo(w, k) \in BOOLEAN
  BY DEF RightTo
<1>2. CASE w[k + 1].node = "query"
  <2>1. /\ QueriesTo(w, k + 1) \in SUBSET (1..(k + 1))
        /\ k + 1 \in QueriesTo(w, k + 1)
    BY <1>2 DEF QueriesTo
  <2>2. Highest(QueriesTo(w, k + 1)) = k + 1
    BY <2>1, HighestIsLast
  <2> QED BY <1>1, <1>2, <1>4, <1>5, <2>1, <2>2 DEF RightTo
<1>3. CASE w[k + 1].node # "query"
  <2>1. QueriesTo(w, k + 1) = QueriesTo(w, k)
    BY <1>3 DEF QueriesTo
  <2> QED BY <1>3, <1>4, <1>5, <2>1 DEF RightTo
<1> QED BY <1>2, <1>3

LEMMA LimitStep ==
  ASSUME NEW w, NEW k \in Nat
  PROVE  /\ LimitTo(w, 0) = None
         /\ LimitTo(w, k + 1) = IF w[k + 1].part = "on"
                                THEN LimitAt(w[k + 1], RightTo(w, k + 1),
                                             FramesTo(w, k + 1))
                                ELSE LimitTo(w, k)
<1>1. OnsTo(w, 0) = {}
  BY DEF OnsTo
<1>2. CASE w[k + 1].part = "on"
  <2>1. /\ OnsTo(w, k + 1) \in SUBSET (1..(k + 1))
        /\ k + 1 \in OnsTo(w, k + 1)
    BY <1>2 DEF OnsTo
  <2>2. Highest(OnsTo(w, k + 1)) = k + 1
    BY <2>1, HighestIsLast
  <2> QED BY <1>1, <1>2, <2>1, <2>2 DEF LimitTo
<1>3. CASE w[k + 1].part # "on"
  <2>1. OnsTo(w, k + 1) = OnsTo(w, k)
    BY <1>3 DEF OnsTo
  <2> QED BY <1>1, <1>3, <2>1 DEF LimitTo
<1> QED BY <1>2, <1>3

(* Two walks that agree up to m ask for the same. *)
LEMMA SamePrefix ==
  ASSUME NEW w, NEW v, NEW m \in Nat, \A j \in 1..m : v[j] = w[j]
  PROVE  /\ FramesTo(v, m) = FramesTo(w, m) /\ WithsTo(v, m) = WithsTo(w, m)
         /\ RightTo(v, m) = RightTo(w, m) /\ LimitTo(v, m) = LimitTo(w, m)
<1>1. ASSUME NEW k \in 0..m
      PROVE  /\ FramesTo(v, k) = FramesTo(w, k)
             /\ RightTo(v, k) = RightTo(w, k)
  <2>1. k \in Nat /\ \A j \in 1..k : v[j] = w[j]
    OBVIOUS
  <2>2. {j \in 1..k : HasFrame(v[j])} = {j \in 1..k : HasFrame(w[j])}
    BY <2>1
  <2>3. QueriesTo(v, k) = QueriesTo(w, k) /\ QueriesTo(w, k) \in SUBSET (1..k)
    BY <2>1 DEF QueriesTo
  <2>4. QueriesTo(w, k) # {} => Highest(QueriesTo(w, k)) \in 1..k
    BY <2>1, <2>3, HighestIs
  <2> QED BY <2>1, <2>2, <2>3, <2>4 DEF FramesTo, RightTo
<1>2. {j \in 1..m : v[j].node = "with"} = {j \in 1..m : w[j].node = "with"}
  OBVIOUS
<1>3. OnsTo(v, m) = OnsTo(w, m) /\ OnsTo(w, m) \in SUBSET (1..m)
  BY DEF OnsTo
<1>4. OnsTo(w, m) # {} => Highest(OnsTo(w, m)) \in 1..m
  BY <1>3, HighestIs
<1>5. ASSUME OnsTo(w, m) # {}
      PROVE  LimitTo(v, m) = LimitTo(w, m)
  <2> DEFINE on == Highest(OnsTo(w, m))
  <2>1. on \in 1..m /\ on \in 0..m
    BY <1>4, <1>5
  <2> HIDE DEF on
  <2>2. v[on] = w[on] /\ FramesTo(v, on) = FramesTo(w, on) /\ RightTo(v, on) = RightTo(w, on)
    BY <1>1, <2>1
  <2> QED BY <1>3, <1>5, <2>2 DEF LimitTo, on
<1>6. LimitTo(v, m) = LimitTo(w, m)
  BY <1>3, <1>5 DEF LimitTo
<1> QED BY <1>1, <1>2, <1>6, m \in 0..m DEF WithsTo

-----------------------------------------------------------------------------
(* The moves *)

LEMMA FrameIndex ==
  ASSUME NEW w, NEW m \in Nat, NEW k \in 1..m
  PROVE  /\ FramesTo(w, k) \in Nat /\ FramesTo(w, k) <= FramesTo(w, m)
         /\ HasFrame(w[k]) => FramesTo(w, k) >= 1
         /\ WithsTo(w, k) \in Nat /\ WithsTo(w, k) <= WithsTo(w, m)
<1>1. k - 1 \in Nat /\ (k - 1) + 1 = k /\ k \in 0..m /\ k \in Nat
  OBVIOUS
<1>2. /\ FramesTo(w, k) \in Nat /\ FramesTo(w, k) <= FramesTo(w, m)
      /\ WithsTo(w, k) \in Nat /\ WithsTo(w, k) <= WithsTo(w, m)
  BY <1>1, FramesStep, WithsStep
<1>3. HasFrame(w[k]) => FramesTo(w, k) = FramesTo(w, k - 1) + 1
  BY <1>1, FramesStep
<1>4. FramesTo(w, k - 1) \in Nat
  BY <1>1, FramesStep
<1> QED BY <1>2, <1>3, <1>4

(* What activation k says of itself is left alone by whatever happens above *)
(* the activation m it is under.                                            *)
LEMMA Kept ==
  ASSUME NEW w, NEW v, NEW m \in Nat, \A j \in 1..m : v[j] = w[j],
         NEW fs, NEW gs, \A i \in 1..FramesTo(w, m) : gs[i] = fs[i],
         NEW cs \in Seq(CteType), NEW ds \in Seq(CteType),
         WithsTo(w, m) <= Len(cs), WithsTo(w, m) <= Len(ds),
         \A i \in 1..WithsTo(w, m) : ds[i] = cs[i],
         \A k \in 1..m : Shape(w, k) /\ Holds(w, fs, cs, k)
  PROVE  \A k \in 1..m : Shape(v, k) /\ Holds(v, gs, ds, k)
<1> SUFFICES ASSUME NEW k \in 1..m
             PROVE  Shape(v, k) /\ Holds(v, gs, ds, k)
  OBVIOUS
<1>1. /\ k \in Nat /\ k - 1 \in Nat /\ v[k] = w[k]
      /\ \A j \in 1..k : v[j] = w[j]
      /\ \A j \in 1..(k - 1) : v[j] = w[j]
      /\ k > 1 => v[k - 1] = w[k - 1]
  OBVIOUS
<1>2. Shape(w, k) /\ Holds(w, fs, cs, k)
  OBVIOUS
<1>3. Shape(v, k)
  <2>1. RightTo(v, k - 1) = RightTo(w, k - 1) /\ LimitTo(v, k - 1) = LimitTo(w, k - 1)
    BY <1>1, SamePrefix
  <2> QED BY <1>1, <1>2, <2>1 DEF Shape
<1>4. ASSUME IsSelect(w[k])
      PROVE  FrameIs(v[k], gs[FramesTo(v, k)], SubSeq(ds, 1, WithsTo(v, k)))
  <2>1. FramesTo(v, k) = FramesTo(w, k) /\ WithsTo(v, k) = WithsTo(w, k)
    BY <1>1, SamePrefix
  <2>2. HasFrame(w[k])
    BY <1>4 DEF HasFrame, IsSelect
  <2>3. /\ FramesTo(w, k) \in Nat /\ FramesTo(w, k) <= FramesTo(w, m)
        /\ FramesTo(w, k) >= 1 /\ FramesTo(w, m) \in Nat
        /\ WithsTo(w, k) \in Nat /\ WithsTo(w, k) <= WithsTo(w, m)
        /\ WithsTo(w, m) \in Nat
    BY <2>2, FrameIndex, FramesStep, WithsStep
  <2>4. gs[FramesTo(w, k)] = fs[FramesTo(w, k)]
    BY <2>3
  <2>5. SubSeq(ds, 1, WithsTo(w, k)) = SubSeq(cs, 1, WithsTo(w, k))
    <3> DEFINE n == WithsTo(w, k)
    <3>1. n \in Nat /\ n <= Len(cs) /\ n <= Len(ds) /\ \A i \in 1..n : ds[i] = cs[i]
      BY <2>3
    <3> HIDE DEF n
    <3>2. SubSeq(ds, 1, n) = [i \in 1..n |-> ds[i]]
      BY <3>1
    <3>3. SubSeq(cs, 1, n) = [i \in 1..n |-> cs[i]]
      BY <3>1
    <3>4. [i \in 1..n |-> ds[i]] = [i \in 1..n |-> cs[i]]
      BY <3>1
    <3>5. SubSeq(ds, 1, n) = SubSeq(cs, 1, n)
      BY <3>2, <3>3, <3>4
    <3> QED BY <3>5 DEF n
  <2> QED BY <1>1, <1>2, <1>4, <2>1, <2>4, <2>5 DEF Holds
<1> QED BY <1>1, <1>3, <1>4 DEF Holds

(* An activation b that may be entered from the innermost one of w. *)
MayEnter(w, b, r) ==
  /\ b.part # "on"
  /\ IsSelect(b) => /\ b.part \in {"from", "columns", "clauses"}
                    /\ b.part = "from" => b.at \in DOMAIN b.from
  /\ b.node = "query" => b.right = r
  /\ b.node = "source" =>
       /\ w # <<>> /\ IsSelect(w[Len(w)]) /\ w[Len(w)].part = "from"
       /\ b.from = <<w[Len(w)].from[w[Len(w)].at]>>
  /\ b.node = "cte" => w # <<>> /\ w[Len(w)].node = "with" /\ Len(b.from) = 1
  /\ b.node = "trigger" => w = <<>>
  /\ b.node = "dml" => \A j \in 1..Len(w) : w[j].node # "query"

LEMMA Entered ==
  ASSUME NEW w, NEW fs, NEW cs, NEW r, NEW lim, Consistent(w, fs, cs, r, lim),
         NEW b \in ActivationType, MayEnter(w, b, r),
         NEW gs \in Seq(FrameType), NEW ds \in Seq(CteType), NEW r2,
         Len(gs) = Len(fs) + (IF HasFrame(b) THEN 1 ELSE 0),
         \A i \in 1..Len(fs) : gs[i] = fs[i],
         Len(ds) = Len(cs) + (IF b.node = "with" THEN 1 ELSE 0),
         \A i \in 1..Len(cs) : ds[i] = cs[i],
         r2 = IF b.node = "query" THEN HasRightJoin(b.from) ELSE r,
         IsSelect(b) => FrameIs(b, gs[Len(gs)], ds)
  PROVE  Consistent(Append(w, b), gs, ds, r2, lim)
<1> DEFINE v == Append(w, b)
           n == Len(w)
<1>0. /\ w \in Seq(ActivationType) /\ fs \in Seq(FrameType) /\ cs \in Seq(CteType)
      /\ r \in BOOLEAN /\ lim \in LimitType /\ n \in Nat
      /\ Len(fs) = FramesTo(w, n) /\ Len(cs) = WithsTo(w, n)
      /\ r = RightTo(w, n) /\ lim = LimitTo(w, n)
      /\ \A k \in 1..n : Shape(w, k) /\ Holds(w, fs, cs, k)
  BY DEF Consistent, Typed
<1>1. /\ v \in Seq(ActivationType) /\ Len(v) = n + 1 /\ v[n + 1] = b
      /\ \A j \in 1..n : v[j] = w[j]
  BY <1>0
<1> HIDE DEF v
<1>2. /\ FramesTo(v, n) = Len(fs) /\ WithsTo(v, n) = Len(cs)
      /\ RightTo(v, n) = r /\ LimitTo(v, n) = lim
  BY <1>0, <1>1, SamePrefix, ZenonT(30)
<1>3. /\ FramesTo(v, n + 1) = Len(gs) /\ WithsTo(v, n + 1) = Len(ds)
      /\ RightTo(v, n + 1) = r2 /\ LimitTo(v, n + 1) = lim
  <2>1. FramesTo(v, n + 1) = Len(gs)
    <3>1. FramesTo(v, n + 1)
            = FramesTo(v, n) + IF HasFrame(v[n + 1]) THEN 1 ELSE 0
      BY <1>0, FramesStep
    <3> QED BY <1>1, <1>2, <3>1
  <2>2. WithsTo(v, n + 1) = Len(ds)
    <3>1. WithsTo(v, n + 1)
            = WithsTo(v, n) + IF v[n + 1].node = "with" THEN 1 ELSE 0
      BY <1>0, WithsStep
    <3> QED BY <1>1, <1>2, <3>1
  <2>3. RightTo(v, n + 1) = r2
    BY <1>0, <1>1, <1>2, RightStep
  <2>4. LimitTo(v, n + 1) = lim
    BY <1>0, <1>1, <1>2, LimitStep DEF MayEnter
  <2> QED BY <2>1, <2>2, <2>3, <2>4
<1>4. \A k \in 1..n : Shape(v, k) /\ Holds(v, gs, ds, k)
  <2>1. WithsTo(w, n) <= Len(cs) /\ WithsTo(w, n) <= Len(ds)
    BY <1>0
  <2>2. /\ \A i \in 1..FramesTo(w, n) : gs[i] = fs[i]
        /\ \A i \in 1..WithsTo(w, n) : ds[i] = cs[i]
    BY <1>0
  <2> HIDE DEF n
  <2> QED BY <1>0, <1>1, <2>1, <2>2, Kept
<1>5. Shape(v, n + 1)
  <2>1. (n + 1) - 1 = n /\ (w # <<>> <=> n + 1 > 1) /\ (w # <<>> => v[n] = w[n])
    BY <1>0, <1>1, SMTT(30)
  <2>2. \A j \in 1..n : v[j].node = w[j].node
    BY <1>1
  <2> QED BY <1>1, <1>2, <2>1, <2>2 DEF Shape, MayEnter, IsSelect
<1>6. Holds(v, gs, ds, n + 1)
  <2>1. SubSeq(ds, 1, Len(ds)) = ds
    OBVIOUS
  <2> QED BY <1>1, <1>3, <2>1 DEF Holds
<1>7. r2 \in BOOLEAN
  BY <1>0 DEF HasRightJoin
<1>8. \A k \in 1..(n + 1) : Shape(v, k) /\ Holds(v, gs, ds, k)
  <2>1. \A k \in 1..(n + 1) : k \in 1..n \/ k = n + 1
    BY <1>0
  <2> QED BY <1>4, <1>5, <1>6, <2>1
<1>9. Consistent(v, gs, ds, r2, lim)
  BY <1>0, <1>1, <1>3, <1>7, <1>8 DEF Consistent, Typed
<1> QED BY <1>9 DEF v

LEMMA Left ==
  ASSUME NEW w, NEW fs, NEW cs, NEW r, NEW lim, Consistent(w, fs, cs, r, lim),
         w # <<>>, w[Len(w)].part # "on"
  PROVE  LET a == w[Len(w)] IN
         Consistent(WithoutLast(w),
                    IF HasFrame(a) THEN WithoutLast(fs) ELSE fs,
                    IF a.node = "with" THEN WithoutLast(cs) ELSE cs,
                    IF a.node = "query" THEN a.right ELSE r, lim)
<1> DEFINE n == Len(w)
           m == n - 1
           a == w[n]
           v == WithoutLast(w)
           gs == IF HasFrame(a) THEN WithoutLast(fs) ELSE fs
           ds == IF a.node = "with" THEN WithoutLast(cs) ELSE cs
           r2 == IF a.node = "query" THEN a.right ELSE r
<1>0. /\ w \in Seq(ActivationType) /\ fs \in Seq(FrameType) /\ cs \in Seq(CteType)
      /\ r \in BOOLEAN /\ lim \in LimitType /\ n \in Nat /\ m \in Nat /\ m + 1 = n
      /\ n \in 1..n /\ a \in ActivationType
      /\ Len(fs) = FramesTo(w, n) /\ Len(cs) = WithsTo(w, n)
      /\ r = RightTo(w, n) /\ lim = LimitTo(w, n)
      /\ \A k \in 1..n : Shape(w, k) /\ Holds(w, fs, cs, k)
  BY DEF Consistent, Typed
<1>1. v \in Seq(ActivationType) /\ Len(v) = m /\ \A j \in 1..m : v[j] = w[j]
  BY <1>0 DEF WithoutLast
<1>2. /\ FramesTo(w, m) \in Nat /\ WithsTo(w, m) \in Nat
      /\ Len(fs) = FramesTo(w, m) + IF HasFrame(a) THEN 1 ELSE 0
      /\ Len(cs) = WithsTo(w, m) + IF a.node = "with" THEN 1 ELSE 0
  BY <1>0, FramesStep, WithsStep, ZenonT(30)
<1>3. /\ gs \in Seq(FrameType) /\ Len(gs) = FramesTo(w, m)
      /\ \A i \in 1..FramesTo(w, m) : gs[i] = fs[i]
  <2>1. CASE HasFrame(a)
    <3>1. Len(fs) = FramesTo(w, m) + 1 /\ fs # <<>>
      BY <1>0, <1>2, <2>1
    <3> QED BY <1>0, <1>2, <2>1, <3>1 DEF WithoutLast
  <2>2. CASE ~HasFrame(a)
    BY <1>0, <1>2, <2>2
  <2> QED BY <2>1, <2>2
<1>4. /\ ds \in Seq(CteType) /\ Len(ds) = WithsTo(w, m)
      /\ \A i \in 1..WithsTo(w, m) : ds[i] = cs[i]
  <2>1. CASE a.node = "with"
    <3>1. Len(cs) = WithsTo(w, m) + 1 /\ cs # <<>>
      BY <1>0, <1>2, <2>1
    <3> QED BY <1>0, <1>2, <2>1, <3>1 DEF WithoutLast
  <2>2. CASE a.node # "with"
    BY <1>0, <1>2, <2>2
  <2> QED BY <2>1, <2>2
<1>5. r2 = RightTo(w, m) /\ r2 \in BOOLEAN
  <2>1. Shape(w, n)
    BY <1>0
  <2>2. a.node = "query" => a.right = RightTo(w, m)
    BY <2>1 DEF Shape
  <2>3. a.node # "query" => r = RightTo(w, m)
    <3>1. RightTo(w, m + 1) = IF w[m + 1].node = "query"
                              THEN HasRightJoin(w[m + 1].from)
                              ELSE RightTo(w, m)
      BY <1>0, RightStep
    <3> QED BY <1>0, <3>1
  <2> QED BY <1>0, <2>2, <2>3, RightStep, ZenonT(30)
<1>6. lim = LimitTo(w, m)
  BY <1>0, LimitStep
<1> HIDE DEF v, gs, ds, r2, m
<1>7. /\ FramesTo(v, m) = FramesTo(w, m) /\ WithsTo(v, m) = WithsTo(w, m)
      /\ RightTo(v, m) = RightTo(w, m) /\ LimitTo(v, m) = LimitTo(w, m)
  BY <1>0, <1>1, SamePrefix
<1>8. \A k \in 1..m : Shape(v, k) /\ Holds(v, gs, ds, k)
  <2>1. WithsTo(w, m) <= Len(cs) /\ WithsTo(w, m) <= Len(ds)
    BY <1>2, <1>4
  <2>2. \A k \in 1..m : Shape(w, k) /\ Holds(w, fs, cs, k)
    BY <1>0
  <2> QED BY <1>0, <1>1, <1>3, <1>4, <2>1, <2>2, Kept
<1>9. Consistent(v, gs, ds, r2, lim)
  BY <1>0, <1>1, <1>3, <1>4, <1>5, <1>6, <1>7, <1>8 DEF Consistent, Typed
<1> QED BY <1>9 DEF v, gs, ds, r2

(* The innermost activation is replaced by a, of the same node. *)
LEMMA Replaced ==
  ASSUME NEW w \in Seq(ActivationType), w # <<>>, NEW a \in ActivationType,
         a.node = w[Len(w)].node
  PROVE  LET n == Len(w)
             v == [w EXCEPT ![n] = a]
         IN /\ v \in Seq(ActivationType) /\ Len(v) = n /\ v[n] = a
            /\ n \in Nat /\ n - 1 \in Nat /\ (n - 1) + 1 = n
            /\ \A j \in 1..(n - 1) : v[j] = w[j] /\ j \in 1..n
            /\ \A j \in 1..n : j = n \/ j \in 1..(n - 1)
            /\ FramesTo(v, n) = FramesTo(w, n) /\ WithsTo(v, n) = WithsTo(w, n)
            /\ FramesTo(v, n - 1) = FramesTo(w, n - 1)
            /\ WithsTo(v, n - 1) = WithsTo(w, n - 1)
            /\ RightTo(v, n - 1) = RightTo(w, n - 1)
            /\ LimitTo(v, n - 1) = LimitTo(w, n - 1)
            /\ FramesTo(w, n - 1) \in Nat /\ WithsTo(w, n - 1) \in Nat
            /\ FramesTo(w, n) = FramesTo(w, n - 1) + IF HasFrame(a) THEN 1 ELSE 0
            /\ WithsTo(w, n) = WithsTo(w, n - 1) + IF a.node = "with" THEN 1 ELSE 0
<1> DEFINE n == Len(w)
           m == n - 1
           v == [w EXCEPT ![n] = a]
<1>1. /\ v \in Seq(ActivationType) /\ Len(v) = n /\ v[n] = a
      /\ n \in Nat /\ m \in Nat /\ m + 1 = n
      /\ \A j \in 1..m : v[j] = w[j] /\ j \in 1..n
      /\ \A j \in 1..n : j = n \/ j \in 1..m
  OBVIOUS
<1> HIDE DEF v, m
<1>2. /\ FramesTo(v, m) = FramesTo(w, m) /\ WithsTo(v, m) = WithsTo(w, m)
      /\ RightTo(v, m) = RightTo(w, m) /\ LimitTo(v, m) = LimitTo(w, m)
      /\ FramesTo(w, m) \in Nat /\ WithsTo(w, m) \in Nat
  BY <1>1, SamePrefix, FramesStep, WithsStep, ZenonT(30)
<1>3. /\ FramesTo(w, m + 1) = FramesTo(w, m) + IF HasFrame(w[m + 1]) THEN 1 ELSE 0
      /\ FramesTo(v, m + 1) = FramesTo(v, m) + IF HasFrame(v[m + 1]) THEN 1 ELSE 0
  BY <1>1, FramesStep
<1>4. /\ WithsTo(w, m + 1) = WithsTo(w, m) + IF w[m + 1].node = "with" THEN 1 ELSE 0
      /\ WithsTo(v, m + 1) = WithsTo(v, m) + IF v[m + 1].node = "with" THEN 1 ELSE 0
  BY <1>1, WithsStep
<1>5. HasFrame(w[n]) <=> HasFrame(a)
  BY DEF HasFrame
<1>6. /\ FramesTo(v, n) = FramesTo(w, n) /\ WithsTo(v, n) = WithsTo(w, n)
      /\ FramesTo(w, n) = FramesTo(w, m) + IF HasFrame(a) THEN 1 ELSE 0
      /\ WithsTo(w, n) = WithsTo(w, m) + IF a.node = "with" THEN 1 ELSE 0
  BY <1>1, <1>2, <1>3, <1>4, <1>5
<1>7. /\ v \in Seq(ActivationType) /\ Len(v) = n /\ v[n] = a
      /\ n \in Nat /\ m \in Nat /\ m + 1 = n
      /\ \A j \in 1..m : v[j] = w[j] /\ j \in 1..n
      /\ \A j \in 1..n : j = n \/ j \in 1..m
      /\ FramesTo(v, n) = FramesTo(w, n) /\ WithsTo(v, n) = WithsTo(w, n)
      /\ FramesTo(v, m) = FramesTo(w, m) /\ WithsTo(v, m) = WithsTo(w, m)
      /\ RightTo(v, m) = RightTo(w, m) /\ LimitTo(v, m) = LimitTo(w, m)
      /\ FramesTo(w, m) \in Nat /\ WithsTo(w, m) \in Nat
      /\ FramesTo(w, n) = FramesTo(w, m) + IF HasFrame(a) THEN 1 ELSE 0
      /\ WithsTo(w, n) = WithsTo(w, m) + IF a.node = "with" THEN 1 ELSE 0
  BY <1>1, <1>2, <1>6
<1> QED BY <1>7 DEF v, m

(* An innermost activation that is no query changes, and with it, when it   *)
(* is a WITH clause, what that clause defines.                              *)
LEMMA Changed ==
  ASSUME NEW w, NEW fs, NEW cs, NEW r, NEW lim, Consistent(w, fs, cs, r, lim),
         w # <<>>, NEW a \in ActivationType, a.node = w[Len(w)].node,
         ~IsSelect(a), a.part # "on",
         a.node \in {"source", "cte"} => a.from = w[Len(w)].from,
         NEW ds \in Seq(CteType), Len(ds) = Len(cs),
         IF a.node = "with" THEN \A i \in 1..(Len(cs) - 1) : ds[i] = cs[i]
                            ELSE ds = cs
  PROVE  Consistent([w EXCEPT ![Len(w)] = a], fs, ds, r, lim)
<1> DEFINE n == Len(w)
           m == n - 1
           v == [w EXCEPT ![n] = a]
<1>0. /\ w \in Seq(ActivationType) /\ fs \in Seq(FrameType) /\ cs \in Seq(CteType)
      /\ r \in BOOLEAN /\ lim \in LimitType
      /\ Len(fs) = FramesTo(w, n) /\ Len(cs) = WithsTo(w, n)
      /\ r = RightTo(w, n) /\ lim = LimitTo(w, n)
      /\ \A k \in 1..n : Shape(w, k) /\ Holds(w, fs, cs, k)
      /\ n \in 1..n
  BY DEF Consistent, Typed
<1>1. /\ v \in Seq(ActivationType) /\ Len(v) = n /\ v[n] = a
      /\ n \in Nat /\ m \in Nat /\ m + 1 = n
      /\ \A j \in 1..m : v[j] = w[j] /\ j \in 1..n
      /\ \A j \in 1..n : j = n \/ j \in 1..m
      /\ FramesTo(v, n) = FramesTo(w, n) /\ WithsTo(v, n) = WithsTo(w, n)
      /\ FramesTo(v, m) = FramesTo(w, m) /\ WithsTo(v, m) = WithsTo(w, m)
      /\ RightTo(v, m) = RightTo(w, m) /\ LimitTo(v, m) = LimitTo(w, m)
      /\ FramesTo(w, m) \in Nat /\ WithsTo(w, m) \in Nat
      /\ FramesTo(w, n) = FramesTo(w, m) + IF HasFrame(a) THEN 1 ELSE 0
      /\ WithsTo(w, n) = WithsTo(w, m) + IF a.node = "with" THEN 1 ELSE 0
  BY <1>0, Replaced
<1> HIDE DEF v, m
<1>2. Shape(w, n) /\ ~IsSelect(w[n]) /\ w[n].part # "on"
  BY <1>0 DEF Shape, IsSelect
<1>3. RightTo(v, n) = r
  <2>1. /\ RightTo(w, m + 1) = IF w[m + 1].node = "query" THEN HasRightJoin(w[m + 1].from)
                                                        ELSE RightTo(w, m)
        /\ RightTo(v, m + 1) = IF v[m + 1].node = "query" THEN HasRightJoin(v[m + 1].from)
                                                        ELSE RightTo(v, m)
    BY <1>1, RightStep
  <2> QED BY <1>0, <1>1, <2>1 DEF IsSelect
<1>4. LimitTo(v, n) = lim
  <2>1. /\ LimitTo(w, m + 1) = IF w[m + 1].part = "on"
              THEN LimitAt(w[m + 1], RightTo(w, m + 1), FramesTo(w, m + 1))
              ELSE LimitTo(w, m)
        /\ LimitTo(v, m + 1) = IF v[m + 1].part = "on"
              THEN LimitAt(v[m + 1], RightTo(v, m + 1), FramesTo(v, m + 1))
              ELSE LimitTo(v, m)
    BY <1>1, LimitStep
  <2> QED BY <1>0, <1>1, <1>2, <2>1
<1>5. \A k \in 1..m : Shape(v, k) /\ Holds(v, fs, ds, k)
  <2>1. WithsTo(w, m) <= Len(cs) /\ WithsTo(w, m) <= Len(ds)
    BY <1>0, <1>1
  <2>2. \A i \in 1..WithsTo(w, m) : ds[i] = cs[i]
    BY <1>0, <1>1
  <2>3. \A k \in 1..m : Shape(w, k) /\ Holds(w, fs, cs, k)
    BY <1>0, <1>1
  <2>4. \A i \in 1..FramesTo(w, m) : fs[i] = fs[i]
    OBVIOUS
  <2>5. \A j \in 1..m : v[j] = w[j]
    BY <1>1
  <2> QED BY <1>0, <1>1, <2>1, <2>2, <2>3, <2>4, <2>5, Kept
<1>6. Shape(v, n) /\ Holds(v, fs, ds, n)
  <2>1. n - 1 = m /\ (n > 1 => v[n - 1] = w[n - 1])
        /\ \A j \in 1..(n - 1) : v[j] = w[j]
    BY <1>1 DEF m
  <2> QED BY <1>1, <1>2, <2>1 DEF Shape, Holds, IsSelect
<1>7. Consistent(v, fs, ds, r, lim)
  BY <1>0, <1>1, <1>3, <1>4, <1>5, <1>6 DEF Consistent, Typed
<1> QED BY <1>7 DEF v

(* An innermost activation of a query goes on, and its frame with it. *)
LEMMA Moved ==
  ASSUME NEW w, NEW fs, NEW cs, NEW r, NEW lim, Consistent(w, fs, cs, r, lim),
         w # <<>>, NEW a \in ActivationType, IsSelect(w[Len(w)]),
         a.node = w[Len(w)].node, a.from = w[Len(w)].from,
         a.right = w[Len(w)].right,
         a.part \in {"from", "on", "columns", "clauses"},
         a.part \in {"from", "on"} => a.at \in DOMAIN a.from,
         a.part = "on" => a.limit = LimitTo(w, Len(w) - 1),
         NEW f \in FrameType, FrameIs(a, f, cs),
         NEW lim2 \in LimitType,
         lim2 = IF a.part = "on" THEN LimitAt(a, r, Len(fs))
                                 ELSE LimitTo(w, Len(w) - 1)
  PROVE  Consistent([w EXCEPT ![Len(w)] = a], [fs EXCEPT ![Len(fs)] = f],
                    cs, r, lim2)
<1> DEFINE n == Len(w)
           m == n - 1
           v == [w EXCEPT ![n] = a]
           gs == [fs EXCEPT ![Len(fs)] = f]
<1>0. /\ w \in Seq(ActivationType) /\ fs \in Seq(FrameType) /\ cs \in Seq(CteType)
      /\ r \in BOOLEAN /\ lim \in LimitType
      /\ Len(fs) = FramesTo(w, n) /\ Len(cs) = WithsTo(w, n)
      /\ r = RightTo(w, n) /\ lim = LimitTo(w, n)
      /\ \A k \in 1..n : Shape(w, k) /\ Holds(w, fs, cs, k)
      /\ n \in 1..n
  BY DEF Consistent, Typed
<1>1. /\ v \in Seq(ActivationType) /\ Len(v) = n /\ v[n] = a
      /\ n \in Nat /\ m \in Nat /\ m + 1 = n
      /\ \A j \in 1..m : v[j] = w[j] /\ j \in 1..n
      /\ \A j \in 1..n : j = n \/ j \in 1..m
      /\ FramesTo(v, n) = FramesTo(w, n) /\ WithsTo(v, n) = WithsTo(w, n)
      /\ FramesTo(v, m) = FramesTo(w, m) /\ WithsTo(v, m) = WithsTo(w, m)
      /\ RightTo(v, m) = RightTo(w, m) /\ LimitTo(v, m) = LimitTo(w, m)
      /\ FramesTo(w, m) \in Nat /\ WithsTo(w, m) \in Nat
      /\ FramesTo(w, n) = FramesTo(w, m) + IF HasFrame(a) THEN 1 ELSE 0
      /\ WithsTo(w, n) = WithsTo(w, m) + IF a.node = "with" THEN 1 ELSE 0
  BY <1>0, Replaced
<1> HIDE DEF v, m
<1>2. Shape(w, n) /\ HasFrame(a) /\ IsSelect(a)
  BY <1>0 DEF IsSelect, HasFrame
<1>3. /\ gs \in Seq(FrameType) /\ Len(gs) = Len(fs) /\ gs[Len(fs)] = f
      /\ Len(fs) = FramesTo(w, m) + 1 /\ \A i \in 1..FramesTo(w, m) : gs[i] = fs[i]
  BY <1>0, <1>1, <1>2
<1> HIDE DEF gs
<1>4. RightTo(v, n) = r
  <2>1. /\ RightTo(w, m + 1) = IF w[m + 1].node = "query" THEN HasRightJoin(w[m + 1].from)
                                                        ELSE RightTo(w, m)
        /\ RightTo(v, m + 1) = IF v[m + 1].node = "query" THEN HasRightJoin(v[m + 1].from)
                                                        ELSE RightTo(v, m)
    BY <1>1, RightStep
  <2> QED BY <1>0, <1>1, <2>1
<1>5. LimitTo(v, n) = lim2
  <2>1. LimitTo(v, m + 1) = IF v[m + 1].part = "on"
              THEN LimitAt(v[m + 1], RightTo(v, m + 1), FramesTo(v, m + 1))
              ELSE LimitTo(v, m)
    BY <1>1, LimitStep
  <2> QED BY <1>0, <1>1, <1>4, <2>1 DEF m
<1>6. \A k \in 1..m : Shape(v, k) /\ Holds(v, gs, cs, k)
  <2>1. WithsTo(w, m) <= Len(cs)
    BY <1>0, <1>1
  <2>2. \A i \in 1..WithsTo(w, m) : cs[i] = cs[i]
    OBVIOUS
  <2>3. \A k \in 1..m : Shape(w, k) /\ Holds(w, fs, cs, k)
    BY <1>0, <1>1
  <2>5. \A j \in 1..m : v[j] = w[j]
    BY <1>1
  <2> QED BY <1>0, <1>1, <1>3, <2>1, <2>2, <2>3, <2>5, Kept
<1>7. Shape(v, n)
  <2>1. n - 1 = m /\ \A j \in 1..(n - 1) : v[j] = w[j]
    BY <1>1 DEF m
  <2> QED BY <1>1, <1>2, <2>1 DEF Shape, IsSelect
<1>8. Holds(v, gs, cs, n)
  <2>1. SubSeq(cs, 1, Len(cs)) = cs
    BY <1>0
  <2> QED BY <1>0, <1>1, <1>3, <2>1 DEF Holds
<1>9. Consistent(v, gs, cs, r, lim2)
  BY <1>0, <1>1, <1>3, <1>4, <1>5, <1>6, <1>7, <1>8 DEF Consistent, Typed
<1> QED BY <1>9 DEF v, gs

-----------------------------------------------------------------------------
(* Sources and the items of a FROM clause *)

LEMMA InfoType ==
  ASSUME NEW cs \in Seq(CteType), NEW n \in Name
  PROVE  InfoUnder(cs, n) \in Sources
<1> DEFINE known == {j \in DOMAIN cs : cs[j][n] # None}
<1>1. known \in SUBSET (1..Len(cs)) /\ Len(cs) \in Nat
  OBVIOUS
<1>2. CASE known # {}
  <2>1. Highest(known) \in known
    BY <1>1, <1>2, HighestIs
  <2>2. \A j \in DOMAIN cs : cs[j] \in CteType
    OBVIOUS
  <2>3. cs[Highest(known)][n] # None /\ cs[Highest(known)] \in CteType
    BY <2>1, <2>2
  <2>4. cs[Highest(known)][n] \in Sources
    BY <2>3 DEF CteType
  <2> QED BY <1>2, <2>4 DEF InfoUnder
<1>3. CASE known = {} /\ Schema[n] # None
  <2>1. Schema[n] \in Sources
    BY <1>3, WalkAssumption
  <2> QED BY <1>3, <2>1 DEF InfoUnder
<1>4. CASE known = {} /\ Schema[n] = None
  <2>1. InfoUnder(cs, n) = [cols |-> Unknown, rowid |-> TRUE]
    BY <1>4 DEF InfoUnder
  <2> QED BY <2>1 DEF Sources
<1> QED BY <1>2, <1>3, <1>4

LEMMA SourceType ==
  ASSUME NEW cs \in Seq(CteType), NEW i \in Items
  PROVE  SourceOf(cs, i) \in Sources /\ SourceOf(cs, i) # None
<1>1. SourceOf(cs, i) \in Sources
  <2>1. CASE i.rel # None
    <3>1. i.rel \in Name
      BY <2>1 DEF Items
    <3> QED BY <2>1, <3>1, InfoType DEF SourceOf
  <2>2. CASE i.rel = None
    <3>1. i.cols \in {Unknown} \cup SUBSET Column
      BY DEF Items
    <3> QED BY <2>2, <3>1 DEF SourceOf, Sources
  <2> QED BY <2>1, <2>2
<1> QED BY <1>1, WalkAssumption

LEMMA ItemNames ==
  ASSUME NEW from \in Seq(Items), NEW j \in DOMAIN from
  PROVE  /\ from[j] \in Items
         /\ from[j].bound # NoName =>
              /\ from[j].bound \in Name /\ from[j].bound \in Bindable
              /\ from[j].bound # Selected
<1>1. from[j] \in Items
  OBVIOUS
<1> QED BY <1>1, WalkAssumption DEF Items, Bindable

(* What entering a query puts into its frame *)
LEMMA Registered ==
  ASSUME NEW cs \in Seq(CteType), NEW from \in Seq(Items), NEW f,
         f = [named |-> RegisterSources(Empty.named, cs, from), anon |-> {}]
  PROVE  /\ f \in FrameType
         /\ Bound(f) = {from[j].bound :
                          j \in {j \in DOMAIN from : from[j].bound # NoName}}
         /\ Selected \notin Bound(f)
         /\ Distinct(from) => \A j \in DOMAIN from : from[j].bound # NoName =>
              f.named[from[j].bound] = SourceOf(cs, from[j])
<1> DEFINE At(n) == {k \in DOMAIN from : from[k].bound = n}
<1>1. f.anon = {} /\ f.named = [n \in Bindable |->
                IF At(n) = {} THEN None ELSE SourceOf(cs, from[Highest(At(n))])]
  BY DEF RegisterSources, BindNamed, Empty
<1>2. \A n : At(n) \in SUBSET (1..Len(from)) /\ Len(from) \in Nat
  OBVIOUS
<1>3. \A n : At(n) # {} => Highest(At(n)) \in At(n)
  BY <1>2, HighestIs
<1>4. \A k \in DOMAIN from : from[k] \in Items
  OBVIOUS
<1>5. \A n : At(n) # {} => /\ SourceOf(cs, from[Highest(At(n))]) \in Sources
                           /\ SourceOf(cs, from[Highest(At(n))]) # None
  BY <1>3, <1>4, SourceType
<1>6. ASSUME NEW n \in Bindable
      PROVE  /\ f.named[n] \in {None} \cup Sources
             /\ f.named[n] # None <=> At(n) # {}
  <2> HIDE DEF At
  <2>1. f.named[n] = IF At(n) = {} THEN None ELSE SourceOf(cs, from[Highest(At(n))])
    BY <1>1
  <2> QED BY <1>5, <2>1
<1>7. f \in FrameType
  <2>1. f.named \in [Bindable -> {None} \cup Sources]
    BY <1>1, <1>6
  <2>2. f = [named |-> f.named, anon |-> f.anon]
    OBVIOUS
  <2> QED BY <1>1, <2>1, <2>2 DEF FrameType
<1>8. Bound(f) = {n \in Bindable : At(n) # {}}
  BY <1>6 DEF Bound
<1>9. Bound(f) = {from[j].bound : j \in {j \in DOMAIN from : from[j].bound # NoName}}
  <2>1. ASSUME NEW n \in Bindable, At(n) # {}
        PROVE  \E j \in {j \in DOMAIN from : from[j].bound # NoName} : n = from[j].bound
    <3>1. PICK j \in DOMAIN from : from[j].bound = n
      BY <2>1
    <3> QED BY <3>1, WalkAssumption
  <2>2. ASSUME NEW j \in DOMAIN from, from[j].bound # NoName
        PROVE  from[j].bound \in Bindable /\ At(from[j].bound) # {}
    BY <2>2, ItemNames
  <2> HIDE DEF At
  <2> QED BY <1>8, <2>1, <2>2, ZenonT(30)
<1>10. Selected \notin Bound(f)
  BY <1>9, ItemNames
<1>11. ASSUME Distinct(from), NEW j \in DOMAIN from, from[j].bound # NoName
       PROVE  f.named[from[j].bound] = SourceOf(cs, from[j])
  <2>1. from[j].bound \in Bindable /\ j \in At(from[j].bound)
    BY <1>11, ItemNames
  <2>2. \A k \in At(from[j].bound) : k = j
    BY <1>11 DEF Distinct
  <2>3. Highest(At(from[j].bound)) = j
    BY <1>3, <2>1, <2>2
  <2> HIDE DEF At
  <2> QED BY <1>1, <2>1, <2>3
<1> QED BY <1>7, <1>9, <1>10, <1>11

(* On from an item that has been walked *)
LEMMA OnwardIs ==
  ASSUME NEW a \in ActivationType, IsSelect(a)
  PROVE  LET b == Onward(a) IN
         /\ b \in ActivationType
         /\ b.node = a.node /\ b.from = a.from /\ b.right = a.right
         /\ b.aliases = a.aliases
         /\ b.part \in {"from", "columns", "clauses"}
         /\ b.part = "from" => b.at \in DOMAIN b.from
         /\ b.node = "query" => b.part # "clauses"
         /\ Walked(b) = {j \in DOMAIN a.from : j <= a.at}
<1>1. /\ a.at \in Nat \ {0} /\ a.from \in Seq(Items) /\ Len(a.from) \in Nat
      /\ DOMAIN a.from = 1..Len(a.from)
  BY DEF ActivationType
<1>2. CASE a.node = "dml" /\ a.at = 1 /\ a.part = "from"
  <2>1. Onward(a) = [a EXCEPT !.part = "columns"]
    BY <1>2 DEF Onward
  <2> QED BY <1>1, <1>2, <2>1 DEF ActivationType, Walked, Parts
<1>3. CASE ~(a.node = "dml" /\ a.at = 1 /\ a.part = "from") /\ a.at < Len(a.from)
  <2>1. Onward(a) = [a EXCEPT !.part = "from", !.at = @ + 1]
    BY <1>3 DEF Onward
  <2> DEFINE k == a.at + 1
             b == [a EXCEPT !.part = "from", !.at = k]
  <2>2. Onward(a) = b
    BY <2>1
  <2>3. k \in Nat \ {0} /\ k \in DOMAIN a.from /\ k = a.at + 1
    BY <1>1, <1>3
  <2> HIDE DEF k
  <2>4. /\ b \in ActivationType /\ b.part = "from" /\ b.at = k
        /\ b.node = a.node /\ b.from = a.from /\ b.right = a.right
        /\ b.aliases = a.aliases
    BY <2>3 DEF ActivationType, Parts
  <2> HIDE DEF b
  <2>5. Walked(b) = {j \in DOMAIN a.from : j <= a.at}
    BY <1>1, <2>3, <2>4 DEF Walked
  <2> QED BY <2>2, <2>3, <2>4, <2>5
<1>4. CASE ~(a.node = "dml" /\ a.at = 1 /\ a.part = "from") /\ ~(a.at < Len(a.from))
  <2>1. Onward(a) = [a EXCEPT !.part = IF a.node = "query" THEN "columns" ELSE "clauses"]
    BY <1>4 DEF Onward
  <2> DEFINE p == IF a.node = "query" THEN "columns" ELSE "clauses"
             b == [a EXCEPT !.part = p]
  <2>2. p \in {"columns", "clauses"} /\ (a.node = "query" => p # "clauses")
    OBVIOUS
  <2>3. Onward(a) = b
    BY <2>1
  <2> HIDE DEF p
  <2>4. /\ b \in ActivationType /\ b.part = p /\ b.at = a.at
        /\ b.node = a.node /\ b.from = a.from /\ b.right = a.right
        /\ b.aliases = a.aliases
    BY <2>2 DEF ActivationType, Parts
  <2> HIDE DEF b
  <2>5. Walked(b) = {j \in DOMAIN a.from : j <= a.at}
    BY <1>1, <2>2, <2>4 DEF Walked
  <2> QED BY <2>2, <2>3, <2>4, <2>5
<1> QED BY <1>2, <1>3, <1>4

After(a, lim) == IF ClosesJoin(a) THEN [a EXCEPT !.part = "on", !.limit = lim]
                                  ELSE Onward(a)
BindTo(f, i, cs) ==
  IF i.bound = NoName THEN [f EXCEPT !.anon = @ \cup {SourceOf(cs, i)}]
  ELSE [f EXCEPT !.named[i.bound] = SourceOf(cs, i)]

LEMMA AfterIs ==
  ASSUME NEW a \in ActivationType, IsSelect(a), a.part = "from",
         a.at \in DOMAIN a.from, NEW lim \in LimitType
  PROVE  LET b == After(a, lim) IN
         /\ b \in ActivationType
         /\ b.node = a.node /\ b.from = a.from /\ b.right = a.right
         /\ b.aliases = a.aliases
         /\ b.part \in {"from", "on", "columns", "clauses"}
         /\ b.part \in {"from", "on"} => b.at \in DOMAIN b.from
         /\ b.part = "on" <=> ClosesJoin(a)
         /\ b.part = "on" => b.limit = lim /\ b.at = a.at
         /\ b.node = "query" => b.part # "clauses"
         /\ Walked(b) = {j \in DOMAIN a.from : j <= a.at}
<1>1. CASE ClosesJoin(a)
  <2>1. After(a, lim) = [a EXCEPT !.part = "on", !.limit = lim]
    BY <1>1 DEF After
  <2>2. Walked(After(a, lim)) = {j \in DOMAIN a.from : j <= a.at}
    BY <2>1 DEF Walked, ActivationType
  <2> QED BY <1>1, <2>1, <2>2 DEF ActivationType, Parts
<1>2. CASE ~ClosesJoin(a)
  <2>1. After(a, lim) = Onward(a)
    BY <1>2 DEF After
  <2> QED BY <1>2, <2>1, OnwardIs
<1> QED BY <1>1, <1>2

LEMMA ItemWalked ==
  ASSUME NEW a \in ActivationType, IsSelect(a), a.part = "from",
         a.at \in DOMAIN a.from, NEW lim \in LimitType,
         NEW f \in FrameType, NEW cs \in Seq(CteType), FrameIs(a, f, cs)
  PROVE  LET b == After(a, lim)
             g == BindTo(f, a.from[a.at], cs)
         IN /\ g \in FrameType /\ FrameIs(b, g, cs)
            /\ Bound(g) \ JoinNames(a) = Beyond(a)
<1> DEFINE b == After(a, lim)
           i == a.from[a.at]
           s == SourceOf(cs, i)
           g == BindTo(f, i, cs)
           named == NamedItems(a)
<1>1. /\ b.node = a.node /\ b.from = a.from /\ b.aliases = a.aliases
      /\ b.node = "query" => b.part # "clauses"
      /\ Walked(b) = {j \in DOMAIN a.from : j <= a.at}
  BY AfterIs
<1> HIDE DEF b
<1>2. a.from \in Seq(Items) /\ a.at \in Nat
  BY DEF ActivationType
<1>3. i \in Items /\ s \in Sources /\ s # None
  BY <1>2, SourceType
<1>4. Walked(b) = Walked(a) \cup {a.at} /\ a.at \notin Walked(a)
  BY <1>1, <1>2 DEF Walked
<1>5. Selected \notin Bound(f)
  BY DEF FrameIs
<1>6. /\ Bound(f) = {a.from[j].bound : j \in named}
      /\ f.anon = {SourceOf(cs, a.from[j]) : j \in Walked(a) \ named}
      /\ Distinct(a.from) =>
           \A j \in named : f.named[a.from[j].bound] = SourceOf(cs, a.from[j])
  BY <1>5 DEF FrameIs
<1>7. NamedItems(b) = named
  BY <1>1 DEF NamedItems
<1>8. f.named \in [Bindable -> {None} \cup Sources] /\ f.anon \in SUBSET Sources
  BY DEF FrameType
<1> DEFINE Good == /\ g \in FrameType /\ FrameIs(b, g, cs)
                   /\ Bound(g) = {a.from[j].bound : j \in named}
<1>9. ASSUME i.bound = NoName
      PROVE  Good
  <2>1. g.named = f.named /\ g.anon = f.anon \cup {s} /\ g \in FrameType
    BY <1>3, <1>8, <1>9 DEF BindTo, FrameType
  <2>2. Bound(g) = Bound(f)
    BY <2>1 DEF Bound
  <2>3. a.at \notin named
    BY <1>9 DEF NamedItems
  <2>4. g.anon = {SourceOf(cs, a.from[j]) : j \in Walked(b) \ named}
    BY <1>4, <1>6, <2>1, <2>3
  <2>5. Distinct(a.from) =>
          \A j \in named : g.named[a.from[j].bound] = SourceOf(cs, a.from[j])
    BY <1>6, <2>1
  <2> HIDE DEF g, named
  <2>6. FrameIs(b, g, cs)
    BY <1>1, <1>5, <1>6, <1>7, <2>2, <2>4, <2>5 DEF FrameIs
  <2> QED BY <1>6, <2>1, <2>2, <2>6
<1>10. ASSUME i.bound # NoName
       PROVE  Good
  <2>0. i.bound \in Bindable /\ i.bound # Selected /\ a.at \in named
    BY <1>2, <1>10, ItemNames DEF NamedItems
  <2>1. /\ g.named = [f.named EXCEPT ![i.bound] = s] /\ g.anon = f.anon
        /\ g \in FrameType
    BY <1>3, <1>8, <1>10 DEF BindTo, FrameType
  <2>2. Bound(g) = Bound(f)
    <3>1. i.bound \in Bound(f)
      BY <1>6, <2>0
    <3> QED BY <1>3, <1>8, <2>0, <2>1, <3>1 DEF Bound
  <2>4. g.anon = {SourceOf(cs, a.from[j]) : j \in Walked(b) \ named}
    BY <1>4, <1>6, <2>0, <2>1
  <2>5. ASSUME Distinct(a.from), NEW j \in named
        PROVE  g.named[a.from[j].bound] = SourceOf(cs, a.from[j])
    <3>1. j \in DOMAIN a.from /\ a.from[j].bound # NoName
      BY DEF NamedItems
    <3>2. a.from[j].bound \in Bindable
      BY <1>2, <3>1, ItemNames
    <3>3. CASE a.from[j].bound = i.bound
      <4>1. j = a.at
        BY <2>5, <3>1, <3>3 DEF Distinct
      <4> QED BY <1>8, <2>1, <3>2, <4>1
    <3>4. CASE a.from[j].bound # i.bound
      BY <1>6, <1>8, <2>1, <2>5, <3>2, <3>4
    <3> QED BY <3>3, <3>4
  <2> HIDE DEF g, named
  <2>6. FrameIs(b, g, cs)
    BY <1>1, <1>5, <1>6, <1>7, <2>2, <2>4, <2>5 DEF FrameIs
  <2> QED BY <1>6, <2>1, <2>2, <2>6
<1>11. g \in FrameType /\ FrameIs(b, g, cs) /\ Bound(g) = {a.from[j].bound : j \in named}
  BY <1>6, <1>9, <1>10
<1>12. {a.from[j].bound : j \in named} \ JoinNames(a) = Beyond(a)
  <2>1. \A j \in FirstItem(a)..a.at : a.from[j].bound \in JoinNames(a)
    BY DEF JoinNames
  <2> QED BY <2>1 DEF Beyond, NamedItems
<1> QED BY <1>11, <1>12 DEF b

(* walk_source_ref and the end of walk_scoped_source: the innermost query   *)
(* has walked an item.                                                      *)
LEMMA ItemStep ==
  ASSUME NEW w, NEW fs, NEW cs, NEW r, NEW lim, Consistent(w, fs, cs, r, lim),
         w # <<>>, IsSelect(w[Len(w)]), w[Len(w)].part = "from",
         NEW g, g = BindTo(fs[Len(fs)], w[Len(w)].from[w[Len(w)].at], cs),
         NEW lim2, lim2 = IF ClosesJoin(w[Len(w)])
                          THEN LimitOf(w[Len(w)], r, g, Len(fs)) ELSE lim
  PROVE  Consistent([w EXCEPT ![Len(w)] = After(w[Len(w)], lim)],
                    [fs EXCEPT ![Len(fs)] = g], cs, r, lim2)
<1> DEFINE n == Len(w)
           a == w[n]
           f == fs[Len(fs)]
           b == After(a, lim)
<1>0. /\ w \in Seq(ActivationType) /\ fs \in Seq(FrameType) /\ cs \in Seq(CteType)
      /\ r \in BOOLEAN /\ lim \in LimitType /\ n \in Nat \ {0} /\ n \in 1..n
      /\ Len(fs) = FramesTo(w, n) /\ Len(cs) = WithsTo(w, n)
      /\ lim = LimitTo(w, n) /\ Shape(w, n) /\ Holds(w, fs, cs, n)
      /\ a \in ActivationType
  BY DEF Consistent, Typed
<1>1. a.at \in DOMAIN a.from
  BY <1>0 DEF Shape
<1>2. Len(fs) \in Nat /\ Len(fs) >= 1 /\ f \in FrameType
  <2>1. FramesTo(w, n) >= 1 /\ FramesTo(w, n) \in Nat
    BY <1>0, FrameIndex DEF HasFrame, IsSelect
  <2> QED BY <1>0, <2>1
<1>3. FrameIs(a, f, cs)
  <2>1. SubSeq(cs, 1, Len(cs)) = cs
    BY <1>0
  <2> QED BY <1>0, <2>1 DEF Holds
<1>4. lim = LimitTo(w, n - 1)
  <2>1. n - 1 \in Nat /\ (n - 1) + 1 = n
    BY <1>0
  <2>2. LimitTo(w, (n - 1) + 1) = IF w[(n - 1) + 1].part = "on"
              THEN LimitAt(w[(n - 1) + 1], RightTo(w, (n - 1) + 1), FramesTo(w, (n - 1) + 1))
              ELSE LimitTo(w, n - 1)
    BY <2>1, LimitStep
  <2> QED BY <1>0, <2>1, <2>2
<1>5. /\ b \in ActivationType
      /\ b.node = a.node /\ b.from = a.from /\ b.right = a.right
      /\ b.part \in {"from", "on", "columns", "clauses"}
      /\ b.part \in {"from", "on"} => b.at \in DOMAIN b.from
      /\ b.part = "on" <=> ClosesJoin(a)
      /\ b.part = "on" => b.limit = lim /\ b.at = a.at
  BY <1>0, <1>1, AfterIs
<1>6. g \in FrameType /\ FrameIs(b, g, cs) /\ Bound(g) \ JoinNames(a) = Beyond(a)
  BY <1>0, <1>1, <1>2, <1>3, ItemWalked
<1> HIDE DEF b, f, a
<1>7. lim2 = IF b.part = "on" THEN LimitAt(b, r, Len(fs)) ELSE LimitTo(w, n - 1)
  <2>1. CASE b.part = "on"
    <3>1. ClosesJoin(a) /\ b.at = a.at /\ b.from = a.from /\ b.node = a.node
      BY <1>5, <2>1
    <3>2. Beyond(b) = Beyond(a)
      BY <3>1 DEF Beyond, JoinNames, FirstItem
    <3>3. lim2 = LimitOf(a, r, g, Len(fs))
      BY <3>1 DEF a
    <3>4. LimitOf(a, r, g, Len(fs)) = LimitAt(b, r, Len(fs))
      BY <1>6, <3>1, <3>2 DEF LimitOf, LimitAt
    <3> QED BY <2>1, <3>3, <3>4
  <2>2. CASE b.part # "on"
    <3>1. ~ClosesJoin(w[Len(w)])
      BY <1>5, <2>2 DEF a
    <3> QED BY <1>4, <2>2, <3>1
  <2> QED BY <2>1, <2>2
<1>8. lim2 \in LimitType
  <2>1. Beyond(b) \subseteq Bindable
    <3>1. b.from \in Seq(Items)
      BY <1>5 DEF ActivationType
    <3> QED BY <3>1, ItemNames DEF Beyond
  <2>2. LimitAt(b, r, Len(fs)) \in LimitType
    BY <1>2, <2>1 DEF LimitAt, LimitType
  <2> QED BY <1>0, <1>4, <1>7, <2>2
<1>9. Consistent([w EXCEPT ![Len(w)] = b], [fs EXCEPT ![Len(fs)] = g], cs, r, lim2)
  <2>1. /\ IsSelect(w[Len(w)]) /\ b.node = w[Len(w)].node /\ b.from = w[Len(w)].from
        /\ b.right = w[Len(w)].right
        /\ b.part = "on" => b.limit = LimitTo(w, Len(w) - 1)
        /\ lim2 = IF b.part = "on" THEN LimitAt(b, r, Len(fs))
                                   ELSE LimitTo(w, Len(w) - 1)
    BY <1>4, <1>5, <1>7 DEF a
  <2> HIDE DEF n
  <2> QED BY <1>5, <1>6, <1>8, <2>1, Moved
<1> QED BY <1>9 DEF b, a

-----------------------------------------------------------------------------
(* The actions *)

LEMMA TopFacts ==
  ASSUME IInv
  PROVE  /\ walk \in Seq(ActivationType) /\ frames \in Seq(FrameType)
         /\ ctes \in Seq(CteType) /\ right \in BOOLEAN /\ limit \in LimitType
         /\ Depth \in Nat /\ Len(frames) \in Nat /\ Len(ctes) \in Nat
         /\ Depth > 0 =>
              /\ walk # <<>> /\ Depth \in 1..Depth /\ Top = walk[Len(walk)]
              /\ Top \in ActivationType /\ Shape(walk, Depth)
              /\ HasFrame(Top) => Len(frames) >= 1 /\ Inner \in FrameType
              /\ IsSelect(Top) => HasFrame(Top) /\ FrameIs(Top, Inner, ctes)
              /\ Top.part # "on" => limit = LimitTo(walk, Depth - 1)
              /\ Top.node = "with" => Len(ctes) >= 1
<1>1. /\ walk \in Seq(ActivationType) /\ frames \in Seq(FrameType)
      /\ ctes \in Seq(CteType) /\ right \in BOOLEAN /\ limit \in LimitType
      /\ Len(frames) = FramesTo(walk, Len(walk)) /\ Len(ctes) = WithsTo(walk, Len(walk))
      /\ limit = LimitTo(walk, Len(walk))
      /\ \A k \in 1..Len(walk) : Shape(walk, k) /\ Holds(walk, frames, ctes, k)
  BY DEF IInv, Consistent, Typed
<1>2. Depth \in Nat /\ Len(frames) \in Nat /\ Len(ctes) \in Nat
  BY <1>1 DEF Depth
<1>3. ASSUME Depth > 0
      PROVE  /\ walk # <<>> /\ Depth \in 1..Depth /\ Top = walk[Len(walk)]
             /\ Top \in ActivationType /\ Shape(walk, Depth)
             /\ HasFrame(Top) => Len(frames) >= 1 /\ Inner \in FrameType
             /\ IsSelect(Top) => HasFrame(Top) /\ FrameIs(Top, Inner, ctes)
             /\ Top.part # "on" => limit = LimitTo(walk, Depth - 1)
             /\ Top.node = "with" => Len(ctes) >= 1
  <2>1. /\ walk # <<>> /\ Depth \in 1..Depth /\ Top = walk[Len(walk)]
        /\ Top \in ActivationType /\ Shape(walk, Depth) /\ Holds(walk, frames, ctes, Depth)
        /\ Depth - 1 \in Nat /\ (Depth - 1) + 1 = Depth /\ Top = walk[Depth]
    BY <1>1, <1>2, <1>3 DEF Depth, Top
  <2>2. HasFrame(Top) => Len(frames) >= 1 /\ Inner \in FrameType
    <3>1. HasFrame(Top) => FramesTo(walk, Depth) >= 1
      BY <1>2, <2>1, FrameIndex
    <3>2. HasFrame(Top) => Len(frames) >= 1
      BY <1>1, <3>1 DEF Depth
    <3> QED BY <1>1, <3>2 DEF Inner
  <2>3. ASSUME IsSelect(Top)
        PROVE  HasFrame(Top) /\ FrameIs(Top, Inner, ctes)
    <3>1. SubSeq(ctes, 1, Len(ctes)) = ctes
      BY <1>1
    <3> QED BY <1>1, <2>1, <2>3, <3>1 DEF IsSelect, HasFrame, Holds, Inner, Depth
  <2>4. ASSUME Top.part # "on"
        PROVE  limit = LimitTo(walk, Depth - 1)
    <3>1. LimitTo(walk, (Depth - 1) + 1) = IF walk[(Depth - 1) + 1].part = "on"
            THEN LimitAt(walk[(Depth - 1) + 1], RightTo(walk, (Depth - 1) + 1),
                         FramesTo(walk, (Depth - 1) + 1))
            ELSE LimitTo(walk, Depth - 1)
      BY <2>1, LimitStep
    <3>2. limit = LimitTo(walk, Depth)
      BY <1>1 DEF Depth
    <3> QED BY <2>1, <2>4, <3>1, <3>2
  <2>5. Top.node = "with" => Len(ctes) >= 1
    <3>1. WithsTo(walk, (Depth - 1) + 1) = WithsTo(walk, Depth - 1)
            + IF walk[(Depth - 1) + 1].node = "with" THEN 1 ELSE 0
      BY <2>1, WithsStep
    <3>2. WithsTo(walk, Depth - 1) \in Nat /\ Len(ctes) = WithsTo(walk, Depth)
      BY <1>1, <2>1, WithsStep DEF Depth
    <3> QED BY <2>1, <3>1, <3>2
  <2> QED BY <2>1, <2>2, <2>3, <2>4, <2>5
<1> QED BY <1>1, <1>2, <1>3

(* The caller of a scope that ends goes on. *)
LEMMA Returned ==
  ASSUME IInv, Depth > 0, NEW fs, NEW cs, NEW r, NEW lim,
         Consistent(WithoutLast(walk), fs, cs, r, lim)
  PROVE  Consistent(Resumed, fs, cs, r, lim)
<1> DEFINE rest == WithoutLast(walk)
           m == Depth - 1
<1>1. /\ walk \in Seq(ActivationType) /\ Depth \in Nat /\ walk # <<>>
  BY TopFacts
<1>2. /\ rest \in Seq(ActivationType) /\ Len(rest) = m
      /\ \A j \in 1..m : rest[j] = walk[j]
  <2>1. /\ SubSeq(walk, 1, Len(walk) - 1) \in Seq(ActivationType)
        /\ Len(SubSeq(walk, 1, Len(walk) - 1)) = Len(walk) - 1
        /\ \A j \in 1..(Len(walk) - 1) : SubSeq(walk, 1, Len(walk) - 1)[j] = walk[j]
    BY <1>1, PrefixType
  <2> QED BY <2>1 DEF WithoutLast, Depth
<1>3. CASE rest = <<>> \/ Below.part # "query"
  <2>1. Resumed = rest
    BY <1>3 DEF Resumed
  <2> QED BY <2>1
<1>4. CASE rest # <<>> /\ Below.part = "query"
  <2>1. m \in 1..m /\ m \in Nat /\ rest[m] = Below /\ Below \in ActivationType
    BY <1>1, <1>2, <1>4 DEF Below
  <2>2. ~IsSelect(Below)
    <3>1. Shape(rest, m)
      BY <1>2, <2>1 DEF Consistent
    <3> QED BY <1>4, <2>1, <3>1 DEF Shape
  <2>3. PICK a \in ActivationType :
          /\ Resumed = [rest EXCEPT ![m] = a]
          /\ a.node = Below.node /\ a.part # "on" /\ a.from = Below.from
    <3>1. CASE Below.node = "compound" /\ Below.at = 1
      <4> DEFINE a == [Below EXCEPT !.at = 2]
      <4>1. Resumed = [rest EXCEPT ![m] = a]
        BY <1>4, <2>1, <3>1 DEF Resumed
      <4>2. a \in ActivationType /\ a.node = Below.node /\ a.part = Below.part
            /\ a.from = Below.from
        BY <2>1 DEF ActivationType
      <4> HIDE DEF a
      <4> QED BY <1>4, <4>1, <4>2
    <3>2. CASE ~(Below.node = "compound" /\ Below.at = 1)
      <4> DEFINE a == [Below EXCEPT !.part = "done"]
      <4>1. Resumed = [rest EXCEPT ![m] = a]
        BY <1>4, <2>1, <3>2 DEF Resumed
      <4>2. a \in ActivationType /\ a.node = Below.node /\ a.part = "done"
            /\ a.from = Below.from
        BY <2>1 DEF ActivationType, Parts
      <4> HIDE DEF a
      <4> QED BY <1>4, <4>1, <4>2
    <3> QED BY <3>1, <3>2
  <2> HIDE DEF rest, m
  <2>4. /\ ~IsSelect(a) /\ rest # <<>> /\ a.node = rest[Len(rest)].node
        /\ a.from = rest[Len(rest)].from
    BY <1>2, <1>4, <2>1, <2>2, <2>3 DEF IsSelect
  <2>5. cs \in Seq(CteType) /\ Consistent(rest, fs, cs, r, lim)
    BY DEF Consistent, Typed, rest
  <2>6. \A i \in 1..(Len(cs) - 1) : cs[i] = cs[i]
    OBVIOUS
  <2>7. Consistent([rest EXCEPT ![Len(rest)] = a], fs, cs, r, lim)
    BY <2>3, <2>4, <2>5, <2>6, Changed
  <2> QED BY <1>2, <2>3, <2>7
<1> QED BY <1>3, <1>4

LEMMA ActivationIs ==
  ASSUME IInv, NEW node \in Nodes, NEW from \in Seq(Items), NEW part \in Parts,
         NEW b, b = Activation(node, from, part)
  PROVE  /\ b \in ActivationType /\ b.node = node /\ b.from = from
         /\ b.part = part /\ b.at = 1 /\ b.aliases = {} /\ b.right = right
BY TopFacts DEF Activation, ActivationType

LEMMA EmptyType == Empty.named \in [Bindable -> {None} \cup Sources]
BY DEF Empty

(* A scope that is no query is entered from a walk w, with a frame of its   *)
(* own: a subquery, a CTE, an upsert, a trigger, a table, an ORDER BY.      *)
LEMMA ScopeEntered ==
  ASSUME NEW w, NEW cs, NEW r, NEW lim, NEW fs, Consistent(w, fs, cs, r, lim),
         NEW b \in ActivationType, HasFrame(b), ~IsSelect(b), MayEnter(w, b, r),
         NEW named \in [Bindable -> {None} \cup Sources]
  PROVE  Consistent(Append(w, b), Append(fs, [named |-> named, anon |-> {}]),
                    cs, r, lim)
<1> DEFINE f == [named |-> named, anon |-> {}]
           gs == Append(fs, f)
<1>1. fs \in Seq(FrameType) /\ cs \in Seq(CteType)
  BY DEF Consistent, Typed
<1>2. f \in FrameType
  BY DEF FrameType
<1> HIDE DEF f
<1>3. gs \in Seq(FrameType) /\ Len(gs) = Len(fs) + 1 /\ \A i \in 1..Len(fs) : gs[i] = fs[i]
  BY <1>1, <1>2
<1>4. Len(cs) = Len(cs) + 0 /\ Len(cs) \in Nat /\ \A i \in 1..Len(cs) : cs[i] = cs[i]
  BY <1>1
<1>5. b.node # "with" /\ b.node # "query"
  BY DEF HasFrame, IsSelect
<1> HIDE DEF gs
<1>6. /\ Len(gs) = Len(fs) + (IF HasFrame(b) THEN 1 ELSE 0)
      /\ Len(cs) = Len(cs) + (IF b.node = "with" THEN 1 ELSE 0)
      /\ r = IF b.node = "query" THEN HasRightJoin(b.from) ELSE r
      /\ IsSelect(b) => FrameIs(b, gs[Len(gs)], cs)
  BY <1>3, <1>4, <1>5
<1>7. Consistent(Append(w, b), gs, cs, r, lim)
  BY <1>1, <1>3, <1>4, <1>6, Entered
<1> QED BY <1>7 DEF gs, f

(* A scope ends and its caller goes on. *)
LEMMA ScopeLeft ==
  ASSUME IInv, Depth > 0, Top.part # "on"
  PROVE  Consistent(Resumed,
                    IF HasFrame(Top) THEN WithoutLast(frames) ELSE frames,
                    IF Top.node = "with" THEN WithoutLast(ctes) ELSE ctes,
                    IF Top.node = "query" THEN Top.right ELSE right, limit)
<1> DEFINE gs == IF HasFrame(Top) THEN WithoutLast(frames) ELSE frames
           ds == IF Top.node = "with" THEN WithoutLast(ctes) ELSE ctes
           r2 == IF Top.node = "query" THEN Top.right ELSE right
<1>1. walk # <<>> /\ Top = walk[Len(walk)]
  BY TopFacts
<1>2. Consistent(WithoutLast(walk), gs, ds, r2, limit)
  BY <1>1, Left DEF IInv
<1> HIDE DEF gs, ds, r2
<1>3. Consistent(Resumed, gs, ds, r2, limit)
  BY <1>2, Returned
<1> QED BY <1>3 DEF gs, ds, r2

LEMMA WalkSourceRefStep ==
  ASSUME IInv, WalkSourceRef
  PROVE  IInv'
<1>1. /\ Depth > 0 /\ Top.part = "from" /\ IsSelect(Top)
      /\ frames' = [frames EXCEPT ![Len(frames)] = BindItem(Inner, Top.from[Top.at])]
      /\ limit' = IF ClosesJoin(Top)
                  THEN LimitOf(Top, right, BindItem(Inner, Top.from[Top.at]), Len(frames))
                  ELSE limit
      /\ walk' = [walk EXCEPT ![Depth] = AfterItem(Top)]
      /\ ctes' = ctes /\ right' = right
  BY DEF WalkSourceRef, IsSelect, Becomes, LimitAfterItem
<1>2. walk # <<>> /\ Top = walk[Len(walk)] /\ Inner = frames[Len(frames)] /\ Depth = Len(walk)
  BY <1>1, TopFacts DEF Inner, Depth
<1> DEFINE g == BindItem(Inner, Top.from[Top.at])
           lim2 == IF ClosesJoin(Top) THEN LimitOf(Top, right, g, Len(frames)) ELSE limit
<1>3. g = BindTo(frames[Len(frames)], walk[Len(walk)].from[walk[Len(walk)].at], ctes)
  BY <1>2 DEF BindItem, BindTo
<1>4. AfterItem(Top) = After(walk[Len(walk)], limit)
  BY <1>2 DEF AfterItem, After
<1> HIDE DEF g
<1>5. lim2 = IF ClosesJoin(walk[Len(walk)])
             THEN LimitOf(walk[Len(walk)], right, g, Len(frames)) ELSE limit
  BY <1>2
<1> HIDE DEF lim2
<1>6. IsSelect(walk[Len(walk)]) /\ walk[Len(walk)].part = "from"
  BY <1>1, <1>2
<1>7. Consistent([walk EXCEPT ![Len(walk)] = After(walk[Len(walk)], limit)],
                 [frames EXCEPT ![Len(frames)] = g], ctes, right, lim2)
  BY <1>2, <1>3, <1>5, <1>6, ItemStep DEF IInv
<1> QED BY <1>1, <1>2, <1>4, <1>7 DEF IInv, g, lim2

LEMMA EnterScopedSourceStep ==
  ASSUME IInv, EnterScopedSource
  PROVE  IInv'
<1> DEFINE b == Activation("source", <<Top.from[Top.at]>>, "query")
<1>1. /\ Depth > 0 /\ Top.part = "from" /\ IsSelect(Top)
      /\ frames' = Append(frames, [named |-> Empty.named, anon |-> {}])
      /\ walk' = Append(walk, b)
      /\ ctes' = ctes /\ right' = right /\ limit' = limit
  BY DEF EnterScopedSource, IsSelect, Push, Called
<1>2. /\ walk # <<>> /\ Top = walk[Len(walk)] /\ Shape(walk, Depth) /\ Top = walk[Depth]
      /\ Top \in ActivationType
  BY <1>1, TopFacts DEF Top
<1>3. <<Top.from[Top.at]>> \in Seq(Items)
  <2>1. Top.at \in DOMAIN Top.from /\ Top.from \in Seq(Items)
    BY <1>1, <1>2 DEF Shape, ActivationType
  <2>2. Top.from[Top.at] \in Items
    BY <2>1
  <2> QED BY <2>2
<1>4. /\ b \in ActivationType /\ b.node = "source" /\ b.part = "query"
      /\ b.from = <<Top.from[Top.at]>>
  <2>1. "source" \in Nodes /\ "query" \in Parts
    BY DEF Nodes, Parts
  <2> DEFINE items == <<Top.from[Top.at]>>
  <2>2. b = Activation("source", items, "query") /\ items \in Seq(Items)
    BY <1>3
  <2> HIDE DEF b, items
  <2>3. /\ b \in ActivationType /\ b.node = "source" /\ b.part = "query"
        /\ b.from = items
    BY <2>1, <2>2, ActivationIs
  <2> QED BY <2>3 DEF items
<1> HIDE DEF b
<1>5. HasFrame(b) /\ ~IsSelect(b) /\ MayEnter(walk, b, right)
  BY <1>1, <1>2, <1>4 DEF HasFrame, IsSelect, MayEnter
<1>6. Consistent(walk, frames, ctes, right, limit)
  BY DEF IInv
<1>7. Consistent(Append(walk, b), Append(frames, [named |-> Empty.named, anon |-> {}]),
                 ctes, right, limit)
  BY <1>4, <1>5, <1>6, EmptyType, ScopeEntered
<1> QED BY <1>1, <1>7 DEF IInv

LEMMA EndScopedSourceStep ==
  ASSUME IInv, EndScopedSource
  PROVE  IInv'
<1> DEFINE w == WithoutLast(walk)
           fs == WithoutLast(frames)
           g == BindItem(frames[Len(frames) - 1], Top.from[1])
           lim2 == IF ClosesJoin(Below)
                   THEN LimitOf(Below, right, g, Len(frames) - 1) ELSE limit
<1>1. /\ Depth > 0 /\ Top.node = "source" /\ Top.part = "done"
      /\ frames' = [fs EXCEPT ![Len(frames) - 1] = g]
      /\ limit' = lim2
      /\ walk' = [w EXCEPT ![Depth - 1] = AfterItem(w[Depth - 1])]
      /\ ctes' = ctes /\ right' = right
  BY DEF EndScopedSource, TopIs, LimitAfterItem
<1>2. /\ walk \in Seq(ActivationType) /\ frames \in Seq(FrameType)
      /\ walk # <<>> /\ Top = walk[Len(walk)] /\ Shape(walk, Depth) /\ Top = walk[Depth]
      /\ Depth \in Nat /\ Depth = Len(walk) /\ HasFrame(Top) /\ Len(frames) >= 1
      /\ Len(frames) \in Nat /\ frames # <<>>
  BY <1>1, TopFacts DEF Top, HasFrame, Depth
<1>3. /\ Depth > 1 /\ IsSelect(Below) /\ Below.part = "from"
      /\ Top.from = <<Below.from[Below.at]>>
  BY <1>1, <1>2 DEF Shape, Below
<1>4. Consistent(w, fs, ctes, right, limit)
  <2>1. walk[Len(walk)].part # "on"
    BY <1>1, <1>2
  <2>2. Consistent(WithoutLast(walk),
                   IF HasFrame(walk[Len(walk)]) THEN WithoutLast(frames) ELSE frames,
                   IF walk[Len(walk)].node = "with" THEN WithoutLast(ctes) ELSE ctes,
                   IF walk[Len(walk)].node = "query" THEN walk[Len(walk)].right
                   ELSE right, limit)
    BY <1>2, <2>1, Left DEF IInv
  <2> QED BY <1>1, <1>2, <2>2
<1>5. /\ w \in Seq(ActivationType) /\ Len(w) = Depth - 1 /\ w[Len(w)] = Below /\ w # <<>>
  <2>1. /\ SubSeq(walk, 1, Len(walk) - 1) \in Seq(ActivationType)
        /\ Len(SubSeq(walk, 1, Len(walk) - 1)) = Len(walk) - 1
        /\ \A j \in 1..(Len(walk) - 1) : SubSeq(walk, 1, Len(walk) - 1)[j] = walk[j]
    BY <1>2, PrefixType
  <2>2. /\ w \in Seq(ActivationType) /\ Len(w) = Depth - 1
        /\ \A j \in 1..(Depth - 1) : w[j] = walk[j]
    BY <1>2, <2>1 DEF WithoutLast
  <2>3. Below = walk[Depth - 1]
    BY DEF Below
  <2> HIDE DEF w
  <2> QED BY <1>2, <1>3, <2>2, <2>3
<1>6. Len(fs) = Len(frames) - 1 /\ fs[Len(fs)] = frames[Len(frames) - 1]
  <2>1. /\ SubSeq(frames, 1, Len(frames) - 1) \in Seq(FrameType)
        /\ Len(SubSeq(frames, 1, Len(frames) - 1)) = Len(frames) - 1
        /\ \A j \in 1..(Len(frames) - 1) : SubSeq(frames, 1, Len(frames) - 1)[j] = frames[j]
    BY <1>2, PrefixType
  <2>2. fs \in Seq(FrameType) /\ Len(fs) = Len(frames) - 1
        /\ \A j \in 1..(Len(frames) - 1) : fs[j] = frames[j]
    BY <2>1 DEF WithoutLast
  <2>3. Len(fs) >= 1
    <3>1. Len(fs) = FramesTo(w, Len(w)) /\ Len(w) \in 1..Len(w) /\ Len(w) \in Nat
      BY <1>2, <1>3, <1>4, <1>5 DEF Consistent
    <3>2. HasFrame(w[Len(w)])
      BY <1>3, <1>5 DEF IsSelect, HasFrame
    <3> HIDE DEF w, fs
    <3> QED BY <3>1, <3>2, FrameIndex
  <2> HIDE DEF fs
  <2> QED BY <1>2, <2>2, <2>3
<1>7. g = BindTo(fs[Len(fs)], w[Len(w)].from[w[Len(w)].at], ctes)
  BY <1>3, <1>5, <1>6 DEF BindItem, BindTo
<1>8. AfterItem(w[Depth - 1]) = After(w[Len(w)], limit)
  BY <1>5 DEF AfterItem, After
<1> HIDE DEF w, fs, g
<1>9. lim2 = IF ClosesJoin(w[Len(w)]) THEN LimitOf(w[Len(w)], right, g, Len(fs)) ELSE limit
  BY <1>5, <1>6
<1>10. IsSelect(w[Len(w)]) /\ w[Len(w)].part = "from"
  BY <1>3, <1>5
<1> HIDE DEF lim2
<1>11. Consistent([w EXCEPT ![Len(w)] = After(w[Len(w)], limit)],
                  [fs EXCEPT ![Len(fs)] = g], ctes, right, lim2)
  BY <1>4, <1>5, <1>7, <1>9, <1>10, ItemStep
<1>12. walk' = [w EXCEPT ![Len(w)] = After(w[Len(w)], limit)]
       /\ frames' = [fs EXCEPT ![Len(fs)] = g]
  BY <1>1, <1>5, <1>6, <1>8
<1> QED BY <1>1, <1>11, <1>12 DEF IInv

(* The end of an ON clause and of a SET list: nothing is walked but the     *)
(* clause, so the frame stays.                                              *)
LEMMA OnwardStep ==
  ASSUME IInv, Depth > 0, IsSelect(Top), Top.part \in {"on", "columns"},
         walk' = Becomes(Onward(Top)), limit' = LimitTo(walk, Depth - 1),
         UNCHANGED <<frames, ctes, right>>
  PROVE  IInv'
<1> DEFINE a == Onward(Top)
           lim2 == LimitTo(walk, Depth - 1)
<1>1. /\ walk \in Seq(ActivationType) /\ frames \in Seq(FrameType)
      /\ walk # <<>> /\ Top = walk[Len(walk)] /\ Top \in ActivationType
      /\ Shape(walk, Depth) /\ Top = walk[Depth] /\ Depth = Len(walk)
      /\ Len(frames) >= 1 /\ Inner \in FrameType /\ FrameIs(Top, Inner, ctes)
      /\ Inner = frames[Len(frames)] /\ Len(frames) \in Nat
      /\ Top.part # "on" => lim2 = limit
      /\ limit \in LimitType
  BY TopFacts DEF Top, Depth, Inner
<1>2. /\ a \in ActivationType
      /\ a.node = Top.node /\ a.from = Top.from /\ a.right = Top.right
      /\ a.aliases = Top.aliases
      /\ a.part \in {"from", "columns", "clauses"}
      /\ a.part = "from" => a.at \in DOMAIN a.from
      /\ a.node = "query" => a.part # "clauses"
      /\ Walked(a) = {j \in DOMAIN Top.from : j <= Top.at}
  BY <1>1, OnwardIs
<1> HIDE DEF a
<1>3. Walked(a) = Walked(Top)
  <2>1. Top.at \in Nat /\ DOMAIN Top.from \subseteq Nat
    BY <1>1 DEF ActivationType
  <2> QED BY <1>2, <2>1 DEF Walked
<1>4. FrameIs(a, Inner, ctes)
  <2>1. NamedItems(a) = NamedItems(Top)
    BY <1>2 DEF NamedItems
  <2> QED BY <1>1, <1>2, <1>3, <2>1 DEF FrameIs
<1>5. lim2 \in LimitType
  <2>1. CASE Top.part = "on"
    <3>1. lim2 = Top.limit
      BY <1>1, <2>1 DEF Shape
    <3> QED BY <1>1, <3>1 DEF ActivationType
  <2>2. CASE Top.part # "on"
    BY <1>1, <2>2
  <2> QED BY <2>1, <2>2
<1>6. frames = [frames EXCEPT ![Len(frames)] = Inner]
  BY <1>1
<1>7. Consistent([walk EXCEPT ![Len(walk)] = a], [frames EXCEPT ![Len(frames)] = Inner],
                 ctes, right, lim2)
  <2>1. /\ IsSelect(walk[Len(walk)]) /\ a.node = walk[Len(walk)].node
        /\ a.from = walk[Len(walk)].from /\ a.right = walk[Len(walk)].right
        /\ a.part \in {"from", "on", "columns", "clauses"}
        /\ a.part \in {"from", "on"} => a.at \in DOMAIN a.from
        /\ a.part = "on" => a.limit = LimitTo(walk, Len(walk) - 1)
        /\ lim2 = IF a.part = "on" THEN LimitAt(a, right, Len(frames))
                                   ELSE LimitTo(walk, Len(walk) - 1)
    BY <1>1, <1>2
  <2> HIDE DEF lim2
  <2> QED BY <1>1, <1>2, <1>4, <1>5, <2>1, Moved DEF IInv
<1> QED BY <1>1, <1>6, <1>7 DEF IInv, Becomes, a

LEMMA EndOnClauseStep ==
  ASSUME IInv, EndOnClause
  PROVE  IInv'
<1>1. /\ Depth > 0 /\ Top.part = "on" /\ limit' = Top.limit
      /\ walk' = Becomes(Onward(Top)) /\ UNCHANGED <<frames, ctes, right>>
  BY DEF EndOnClause
<1>2. Shape(walk, Depth) /\ Top = walk[Depth]
  BY <1>1, TopFacts DEF Top
<1>3. IsSelect(Top) /\ Top.limit = LimitTo(walk, Depth - 1)
  BY <1>1, <1>2 DEF Shape
<1>4. Top.part \in {"on", "columns"} /\ limit' = LimitTo(walk, Depth - 1)
  BY <1>1, <1>3
<1> QED BY <1>1, <1>3, <1>4, OnwardStep

LEMMA EndSetListStep ==
  ASSUME IInv, EndSetList
  PROVE  IInv'
<1>1. /\ Depth > 0 /\ Top.part = "columns" /\ limit' = limit /\ IsSelect(Top)
      /\ walk' = Becomes(Onward(Top)) /\ UNCHANGED <<frames, ctes, right>>
  BY DEF EndSetList, TopIs, IsSelect
<1>2. limit = LimitTo(walk, Depth - 1)
  BY <1>1, TopFacts
<1>3. Top.part \in {"on", "columns"} /\ limit' = LimitTo(walk, Depth - 1)
  BY <1>1, <1>2
<1> QED BY <1>1, <1>3, OnwardStep

(* A query or a dml is entered: its whole FROM clause is registered. *)
LEMMA SelectEntered ==
  ASSUME NEW w, Consistent(w, frames, ctes, right, limit),
         NEW b \in ActivationType, IsSelect(b), MayEnter(w, b, right),
         b.part # "clauses", b.at = 1, b.part = "from" \/ b.from = <<>>
  PROVE  Consistent(Append(w, b),
                    Append(frames, [named |-> RegisterSources(Empty.named, ctes, b.from),
                                    anon |-> {}]),
                    ctes, IF b.node = "query" THEN HasRightJoin(b.from) ELSE right, limit)
<1> DEFINE f == [named |-> RegisterSources(Empty.named, ctes, b.from), anon |-> {}]
           gs == Append(frames, f)
           r2 == IF b.node = "query" THEN HasRightJoin(b.from) ELSE right
<1>1. frames \in Seq(FrameType) /\ ctes \in Seq(CteType) /\ b.from \in Seq(Items)
  BY DEF Consistent, Typed, ActivationType
<1>2. f.anon = {}
  OBVIOUS
<1>3. f = [named |-> RegisterSources(Empty.named, ctes, b.from), anon |-> {}]
  OBVIOUS
<1> HIDE DEF f
<1>4. /\ f \in FrameType
      /\ Bound(f) = {b.from[j].bound :
                       j \in {j \in DOMAIN b.from : b.from[j].bound # NoName}}
      /\ Selected \notin Bound(f)
      /\ Distinct(b.from) => \A j \in DOMAIN b.from : b.from[j].bound # NoName =>
           f.named[b.from[j].bound] = SourceOf(ctes, b.from[j])
  <2> DEFINE items == b.from
  <2>1. /\ items \in Seq(Items)
        /\ f = [named |-> RegisterSources(Empty.named, ctes, items), anon |-> {}]
    BY <1>1, <1>3
  <2> HIDE DEF items
  <2>2. /\ f \in FrameType
        /\ Bound(f) = {items[j].bound :
                         j \in {j \in DOMAIN items : items[j].bound # NoName}}
        /\ Selected \notin Bound(f)
        /\ Distinct(items) => \A j \in DOMAIN items : items[j].bound # NoName =>
             f.named[items[j].bound] = SourceOf(ctes, items[j])
    BY <1>1, <2>1, Registered, SMTT(30)
  <2> QED BY <2>2 DEF items
<1>5. Walked(b) = {}
  BY <1>1 DEF Walked
<1>6. FrameIs(b, f, ctes)
  BY <1>2, <1>4, <1>5 DEF FrameIs, NamedItems
<1>7. /\ gs \in Seq(FrameType) /\ Len(gs) = Len(frames) + 1 /\ gs[Len(gs)] = f
      /\ \A i \in 1..Len(frames) : gs[i] = frames[i]
  BY <1>1, <1>4
<1>8. HasFrame(b) /\ b.node # "with"
  BY DEF HasFrame, IsSelect
<1>9. Len(ctes) = Len(ctes) + 0 /\ \A i \in 1..Len(ctes) : ctes[i] = ctes[i]
  BY <1>1
<1> HIDE DEF gs
<1>10. /\ Len(gs) = Len(frames) + (IF HasFrame(b) THEN 1 ELSE 0)
       /\ Len(ctes) = Len(ctes) + (IF b.node = "with" THEN 1 ELSE 0)
       /\ r2 = IF b.node = "query" THEN HasRightJoin(b.from) ELSE right
       /\ FrameIs(b, gs[Len(gs)], ctes)
  BY <1>6, <1>7, <1>8, <1>9
<1> HIDE DEF r2
<1>11. Consistent(Append(w, b), gs, ctes, r2, limit)
  BY <1>1, <1>7, <1>9, <1>10, Entered
<1> QED BY <1>11 DEF gs, f, r2

LEMMA EnterQueryStep ==
  ASSUME IInv, EnterQuery
  PROVE  IInv'
<1>1. PICK from \in FromClauses, as \in AliasSets :
        /\ frames' = Append(frames, [named |-> RegisterSources(Empty.named, ctes, from),
                                     anon |-> {}])
        /\ right' = HasRightJoin(from)
        /\ walk' = Append(
             IF InArms
             THEN Becomes([Top EXCEPT !.from = @ \o from, !.aliases = @ \cup as])
             ELSE walk,
             [Activation("query", from, IF from = <<>> THEN "columns" ELSE "from")
                EXCEPT !.aliases = as])
  BY DEF EnterQuery, Push
<1>2. QueryMayStart /\ ctes' = ctes /\ limit' = limit
  BY DEF EnterQuery
<1>3. from \in Seq(Items) /\ as \in SUBSET Column
  BY WalkAssumption
<1> DEFINE w == IF InArms
                THEN Becomes([Top EXCEPT !.from = @ \o from, !.aliases = @ \cup as])
                ELSE walk
           p == IF from = <<>> THEN "columns" ELSE "from"
           b0 == Activation("query", from, p)
           b == [b0 EXCEPT !.aliases = as]
<1>4. /\ b \in ActivationType /\ b.node = "query" /\ b.part = p /\ b.at = 1
      /\ b.from = from /\ b.right = right
  <2>1. "query" \in Nodes /\ p \in Parts
    BY DEF Nodes, Parts
  <2>2. b0 = Activation("query", from, p)
    OBVIOUS
  <2> HIDE DEF b0, p
  <2>3. /\ b0 \in ActivationType /\ b0.node = "query" /\ b0.part = p /\ b0.at = 1
        /\ b0.from = from /\ b0.right = right
    BY <1>3, <2>1, <2>2, ActivationIs
  <2> QED BY <1>3, <2>3 DEF ActivationType
<1>5. p \in {"columns", "from"} /\ (p = "from" => from # <<>>)
      /\ (p = "from" \/ from = <<>>)
  OBVIOUS
<1> HIDE DEF b, p
<1>6. Consistent(w, frames, ctes, right, limit)
  <2>1. CASE InArms
    <3> DEFINE a == [Top EXCEPT !.from = Top.from \o from, !.aliases = Top.aliases \cup as]
    <3>1. /\ Depth > 0 /\ Top.node = "compound"
      BY <2>1 DEF InArms
    <3>2. /\ walk # <<>> /\ Top = walk[Len(walk)] /\ Top \in ActivationType
          /\ Shape(walk, Depth) /\ Top = walk[Depth] /\ ctes \in Seq(CteType)
      BY <3>1, TopFacts DEF Top
    <3>3. Top.from \o from \in Seq(Items) /\ Top.aliases \cup as \in SUBSET Column
      <4>1. Top.from \in Seq(Items) /\ Top.aliases \in SUBSET Column
        BY <3>2 DEF ActivationType
      <4>2. Top.from \o from \in Seq(Items)
        BY <1>3, <4>1, ConcatType
      <4>3. Top.aliases \cup as \in SUBSET Column
        BY <1>3, <4>1
      <4> QED BY <4>2, <4>3
    <3>4. a \in ActivationType /\ a.node = "compound" /\ a.part = Top.part
      BY <3>1, <3>2, <3>3 DEF ActivationType
    <3>5. Top.part # "on"
      BY <3>1, <3>2 DEF Shape, IsSelect
    <3>6. w = [walk EXCEPT ![Len(walk)] = a]
      BY <2>1 DEF Becomes, Depth
    <3> HIDE DEF a, w
    <3>7. /\ ~IsSelect(a) /\ a.part # "on" /\ a.node = walk[Len(walk)].node
          /\ a.node \in {"source", "cte"} => a.from = walk[Len(walk)].from
          /\ Len(ctes) = Len(ctes)
          /\ IF a.node = "with" THEN \A i \in 1..(Len(ctes) - 1) : ctes[i] = ctes[i]
                                ELSE ctes = ctes
      BY <3>1, <3>2, <3>4, <3>5 DEF IsSelect
    <3> QED BY <3>2, <3>4, <3>6, <3>7, Changed DEF IInv
  <2>2. CASE ~InArms
    BY <2>2 DEF IInv
  <2> QED BY <2>1, <2>2
<1> HIDE DEF w
<1>7. IsSelect(b) /\ b.part # "clauses" /\ (b.part = "from" \/ b.from = <<>>)
  BY <1>4, <1>5 DEF IsSelect
<1>8. MayEnter(w, b, right)
  <2>1. from # <<>> => 1 \in DOMAIN from
    BY <1>3
  <2> QED BY <1>4, <1>5, <2>1 DEF MayEnter
<1>9. Consistent(Append(w, b),
                 Append(frames, [named |-> RegisterSources(Empty.named, ctes, b.from),
                                 anon |-> {}]),
                 ctes, IF b.node = "query" THEN HasRightJoin(b.from) ELSE right, limit)
  BY <1>4, <1>6, <1>7, <1>8, SelectEntered
<1>10. walk' = Append(w, b)
  BY <1>1 DEF w, b, p
<1> QED BY <1>1, <1>2, <1>4, <1>9, <1>10 DEF IInv

(* The SELECT aliases join the frame. *)
LEMMA AliasesType ==
  ASSUME NEW named \in [Bindable -> {None} \cup Sources], NEW as \in SUBSET Column
  PROVE  BindAliases(named, as) \in [Bindable -> {None} \cup Sources]
<1>1. [cols |-> as, rowid |-> TRUE] \in Sources
  BY DEF Sources
<1> QED BY <1>1 DEF BindAliases

LEMMA EndColumnsStep ==
  ASSUME IInv, EndColumns
  PROVE  IInv'
<1> DEFINE a == [Top EXCEPT !.part = "clauses"]
           named == BindAliases(Inner.named, Top.aliases)
           f == [Inner EXCEPT !.named = named]
<1>1. /\ Depth > 0 /\ Top.node = "query" /\ Top.part = "columns" /\ IsSelect(Top)
      /\ frames' = [frames EXCEPT ![Len(frames)].named =
                      BindAliases(frames[Len(frames)].named, Top.aliases)]
      /\ walk' = [walk EXCEPT ![Len(walk)] = a]
      /\ ctes' = ctes /\ right' = right /\ limit' = limit
  BY DEF EndColumns, TopIs, IsSelect, Becomes, Depth
<1>2. /\ walk \in Seq(ActivationType) /\ frames \in Seq(FrameType)
      /\ walk # <<>> /\ Top = walk[Len(walk)] /\ Top \in ActivationType
      /\ Len(frames) >= 1 /\ Inner \in FrameType /\ FrameIs(Top, Inner, ctes)
      /\ Inner = frames[Len(frames)] /\ Depth = Len(walk)
      /\ limit \in LimitType /\ limit = LimitTo(walk, Len(walk) - 1)
  BY <1>1, TopFacts DEF Inner, Depth
<1>3. frames' = [frames EXCEPT ![Len(frames)] = f]
  BY <1>1, <1>2
<1>4. Top.aliases \in SUBSET Column
  BY <1>2 DEF ActivationType
<1>5. Inner.named \in [Bindable -> {None} \cup Sources] /\ Inner.anon \in SUBSET Sources
  BY <1>2 DEF FrameType
<1>6. named \in [Bindable -> {None} \cup Sources]
  BY <1>4, <1>5, AliasesType
<1>7. f \in FrameType /\ f.named = named /\ f.anon = Inner.anon
  BY <1>2, <1>5, <1>6 DEF FrameType
<1>8. /\ a \in ActivationType /\ a.node = Top.node /\ a.from = Top.from /\ a.at = Top.at
      /\ a.right = Top.right /\ a.aliases = Top.aliases /\ a.part = "clauses"
  BY <1>2 DEF ActivationType, Parts
<1>9. \A n \in Bindable \ {Selected} : named[n] = Inner.named[n]
  BY <1>5 DEF BindAliases
<1>10. named[Selected] # None <=> Top.aliases # {}
  <2>1. Inner.named[Selected] = None
    BY <1>1, <1>2 DEF FrameIs, Bound, Bindable
  <2>2. [cols |-> Top.aliases, rowid |-> TRUE] \in Sources
    BY <1>4 DEF Sources
  <2>3. [cols |-> Top.aliases, rowid |-> TRUE] # None
    BY <2>2, WalkAssumption
  <2>4. Selected \in Bindable
    BY DEF Bindable
  <2> QED BY <1>5, <2>1, <2>3, <2>4 DEF BindAliases
<1> HIDE DEF f, named
<1>11. /\ Bound(f) \ {Selected} = Bound(Inner) \ {Selected}
       /\ Selected \in Bound(f) <=> Top.aliases # {}
  BY <1>7, <1>9, <1>10 DEF Bound, Bindable
<1> HIDE DEF a
<1>12. FrameIs(a, f, ctes)
  <2>1. NamedItems(a) = NamedItems(Top)
    BY <1>8 DEF NamedItems
  <2>2. Walked(a) = Walked(Top)
    BY <1>1, <1>8 DEF Walked
  <2>3. \A j \in NamedItems(Top) :
          /\ Top.from[j].bound \in Bindable \ {Selected}
          /\ f.named[Top.from[j].bound] = Inner.named[Top.from[j].bound]
    <3>1. Top.from \in Seq(Items)
      BY <1>2 DEF ActivationType
    <3> QED BY <1>7, <1>9, <3>1, ItemNames DEF NamedItems
  <2>4. Bound(Inner) \ {Selected} = {Top.from[j].bound : j \in NamedItems(Top)}
    BY <1>2 DEF FrameIs
  <2>5. Distinct(a.from) => \A j \in NamedItems(a) :
          f.named[a.from[j].bound] = SourceOf(ctes, a.from[j])
    BY <1>2, <1>8, <2>1, <2>3 DEF FrameIs
  <2>6. f.anon = {SourceOf(ctes, a.from[j]) : j \in Walked(a) \ NamedItems(a)}
    BY <1>2, <1>7, <1>8, <2>1, <2>2 DEF FrameIs
  <2>7. Bound(f) \ {Selected} = {a.from[j].bound : j \in NamedItems(a)}
    BY <1>8, <1>11, <2>1, <2>4
  <2>8. Selected \in Bound(f) <=>
          a.node = "query" /\ a.part = "clauses" /\ a.aliases # {}
    BY <1>1, <1>8, <1>11
  <2> QED BY <2>5, <2>6, <2>7, <2>8 DEF FrameIs
<1>13. Consistent([walk EXCEPT ![Len(walk)] = a], [frames EXCEPT ![Len(frames)] = f],
                  ctes, right, limit)
  <2>1. /\ IsSelect(walk[Len(walk)]) /\ a.node = walk[Len(walk)].node
        /\ a.from = walk[Len(walk)].from /\ a.right = walk[Len(walk)].right
        /\ a.part \in {"from", "on", "columns", "clauses"}
        /\ a.part \in {"from", "on"} => a.at \in DOMAIN a.from
        /\ a.part = "on" => a.limit = LimitTo(walk, Len(walk) - 1)
        /\ limit = IF a.part = "on" THEN LimitAt(a, right, Len(frames))
                                    ELSE LimitTo(walk, Len(walk) - 1)
    BY <1>1, <1>2, <1>8
  <2> QED BY <1>2, <1>7, <1>8, <1>12, <2>1, Moved DEF IInv
<1> QED BY <1>1, <1>3, <1>13 DEF IInv

LEMMA EndQueryStep ==
  ASSUME IInv, EndQuery
  PROVE  IInv'
<1>1. /\ Depth > 0 /\ Top.node = "query" /\ Top.part = "clauses"
      /\ frames' = WithoutLast(frames) /\ right' = Top.right /\ walk' = Resumed
      /\ ctes' = ctes /\ limit' = limit
  BY DEF EndQuery, TopIs, Pop
<1>2. HasFrame(Top)
  BY <1>1 DEF HasFrame
<1>3. Consistent(Resumed,
                 IF HasFrame(Top) THEN WithoutLast(frames) ELSE frames,
                 IF Top.node = "with" THEN WithoutLast(ctes) ELSE ctes,
                 IF Top.node = "query" THEN Top.right ELSE right, limit)
  BY <1>1, ScopeLeft
<1> QED BY <1>1, <1>2, <1>3 DEF IInv

(* The scopes that end with their frame and restore nothing else *)
LEMMA PlainEnd ==
  ASSUME IInv, Depth > 0, Top.part # "on", Top.node \notin {"query", "with", "compound"},
         Pop, walk' = Resumed, UNCHANGED <<ctes, right, limit>>
  PROVE  IInv'
<1>1. HasFrame(Top)
  BY DEF HasFrame
<1>2. Consistent(Resumed,
                 IF HasFrame(Top) THEN WithoutLast(frames) ELSE frames,
                 IF Top.node = "with" THEN WithoutLast(ctes) ELSE ctes,
                 IF Top.node = "query" THEN Top.right ELSE right, limit)
  BY ScopeLeft
<1> QED BY <1>1, <1>2 DEF IInv, Pop

LEMMA EndDmlStep ==
  ASSUME IInv, EndDml
  PROVE  IInv'
BY PlainEnd DEF EndDml, TopIs

LEMMA EndScopeStep ==
  ASSUME IInv, EndScope
  PROVE  IInv'
<1>1. /\ Depth > 0 /\ Top.node \in {"upsert", "order", "trigger", "table"}
      /\ Pop /\ walk' = Resumed /\ UNCHANGED <<ctes, right, limit>>
  BY DEF EndScope
<1>2. Shape(walk, Depth) /\ Top = walk[Depth]
  BY <1>1, TopFacts DEF Top
<1>3. Top.part # "on"
  BY <1>1, <1>2 DEF Shape, IsSelect
<1> QED BY <1>1, <1>3, PlainEnd

LEMMA EnterCompoundStep ==
  ASSUME IInv, EnterCompound
  PROVE  IInv'
<1> DEFINE b == Activation("compound", <<>>, "query")
<1>1. walk' = Append(walk, b) /\ UNCHANGED <<frames, ctes, right, limit>>
  BY DEF EnterCompound, Called
<1>2. b \in ActivationType /\ b.node = "compound" /\ b.part = "query"
  <2> DEFINE items == <<>>
  <2>1. b = Activation("compound", items, "query") /\ items \in Seq(Items)
    OBVIOUS
  <2>2. "compound" \in Nodes /\ "query" \in Parts
    BY DEF Nodes, Parts
  <2> HIDE DEF b, items
  <2> QED BY <2>1, <2>2, ActivationIs
<1> HIDE DEF b
<1>3. MayEnter(walk, b, right) /\ ~IsSelect(b) /\ ~HasFrame(b)
  BY <1>2 DEF MayEnter, IsSelect, HasFrame
<1>4. frames \in Seq(FrameType) /\ ctes \in Seq(CteType)
  BY TopFacts
<1>5. /\ Len(frames) = Len(frames) + (IF HasFrame(b) THEN 1 ELSE 0)
      /\ \A i \in 1..Len(frames) : frames[i] = frames[i]
      /\ Len(ctes) = Len(ctes) + (IF b.node = "with" THEN 1 ELSE 0)
      /\ \A i \in 1..Len(ctes) : ctes[i] = ctes[i]
      /\ right = IF b.node = "query" THEN HasRightJoin(b.from) ELSE right
      /\ IsSelect(b) => FrameIs(b, frames[Len(frames)], ctes)
  BY <1>2, <1>3, <1>4
<1>6. Consistent(Append(walk, b), frames, ctes, right, limit)
  BY <1>2, <1>3, <1>4, <1>5, Entered DEF IInv
<1> QED BY <1>1, <1>6 DEF IInv

LEMMA LastReplaced ==
  ASSUME NEW S, NEW q \in Seq(S), q # <<>>, NEW e \in S
  PROVE  [q EXCEPT ![Len(q)] = e] = Append(SubSeq(q, 1, Len(q) - 1), e)
<1>1. PICK n \in Nat : n = Len(q) /\ n >= 1
  OBVIOUS
<1> DEFINE l == [q EXCEPT ![n] = e]
           p == SubSeq(q, 1, Len(q) - 1)
           t == Append(p, e)
<1>2. /\ l \in Seq(S) /\ Len(l) = n
      /\ \A i \in 1..n : l[i] = IF i = n THEN e ELSE q[i]
  BY <1>1
<1>3. p \in Seq(S) /\ Len(p) = n - 1 /\ \A i \in 1..(n - 1) : p[i] = q[i]
  BY <1>1, PrefixType
<1> HIDE DEF p
<1>4. /\ t \in Seq(S) /\ Len(t) = Len(p) + 1
      /\ t[Len(p) + 1] = e /\ \A k \in 1..Len(p) : t[k] = p[k]
  BY <1>3, AppendType
<1> HIDE DEF l, t
<1>5. Len(t) = n /\ t[n] = e /\ \A k \in 1..(n - 1) : t[k] = q[k]
  BY <1>3, <1>4
<1>6. \A i \in 1..n : l[i] = t[i]
  BY <1>2, <1>5
<1>7. l = t
  BY <1>2, <1>4, <1>5, <1>6
<1> QED BY <1>1, <1>7 DEF l, t, p

LEMMA WalkOrderByStep ==
  ASSUME IInv, WalkOrderBy
  PROVE  IInv'
<1> DEFINE b == [Top EXCEPT !.node = "order", !.part = "clauses"]
           w == WithoutLast(walk)
           named == BindAliases(RegisterSources(Empty.named, ctes, Top.from), Top.aliases)
<1>1. /\ Depth > 0 /\ Top.node = "compound" /\ Top.part = "done"
      /\ frames' = Append(frames, [named |-> named, anon |-> {}])
      /\ walk' = [walk EXCEPT ![Len(walk)] = b]
      /\ UNCHANGED <<ctes, right, limit>>
  BY DEF WalkOrderBy, TopIs, Push, Becomes, Depth
<1>2. /\ walk \in Seq(ActivationType) /\ walk # <<>> /\ Top = walk[Len(walk)]
      /\ Top \in ActivationType /\ ctes \in Seq(CteType)
  BY <1>1, TopFacts
<1>3. /\ b \in ActivationType /\ b.node = "order" /\ b.part = "clauses"
      /\ Top.from \in Seq(Items) /\ Top.aliases \in SUBSET Column
  BY <1>2 DEF ActivationType, Nodes, Parts
<1>4. walk' = Append(w, b)
  <2>1. [walk EXCEPT ![Len(walk)] = b] = Append(SubSeq(walk, 1, Len(walk) - 1), b)
    BY <1>2, <1>3, LastReplaced
  <2> QED BY <1>1, <2>1 DEF WithoutLast
<1>5. named \in [Bindable -> {None} \cup Sources]
  <2> DEFINE from == Top.from
             f == [named |-> RegisterSources(Empty.named, ctes, from), anon |-> {}]
  <2>1. from \in Seq(Items) /\ f = [named |-> RegisterSources(Empty.named, ctes, from), anon |-> {}]
    BY <1>3
  <2>2. f.named = RegisterSources(Empty.named, ctes, Top.from)
    OBVIOUS
  <2> HIDE DEF from, f
  <2>3. f \in FrameType
    BY <1>2, <2>1, Registered
  <2>4. f.named \in [Bindable -> {None} \cup Sources]
    BY <2>3 DEF FrameType
  <2> QED BY <1>3, <2>2, <2>4, AliasesType
<1>6. Consistent(w, frames, ctes, right, limit)
  <2>1. Consistent(WithoutLast(walk),
                   IF HasFrame(walk[Len(walk)]) THEN WithoutLast(frames) ELSE frames,
                   IF walk[Len(walk)].node = "with" THEN WithoutLast(ctes) ELSE ctes,
                   IF walk[Len(walk)].node = "query" THEN walk[Len(walk)].right
                   ELSE right, limit)
    BY <1>1, <1>2, Left DEF IInv
  <2> QED BY <1>1, <1>2, <2>1 DEF HasFrame
<1> HIDE DEF b, w, named
<1>7. HasFrame(b) /\ ~IsSelect(b) /\ MayEnter(w, b, right)
  BY <1>3 DEF HasFrame, IsSelect, MayEnter
<1>8. Consistent(Append(w, b), Append(frames, [named |-> named, anon |-> {}]),
                 ctes, right, limit)
  BY <1>3, <1>5, <1>6, <1>7, ScopeEntered
<1> QED BY <1>1, <1>4, <1>8 DEF IInv

LEMMA EndCompoundStep ==
  ASSUME IInv, EndCompound
  PROVE  IInv'
<1>1. /\ Depth > 0 /\ Top.node = "compound" /\ Top.part = "done"
      /\ walk' = Resumed /\ UNCHANGED <<frames, ctes, right, limit>>
  BY DEF EndCompound, TopIs
<1>2. Consistent(Resumed,
                 IF HasFrame(Top) THEN WithoutLast(frames) ELSE frames,
                 IF Top.node = "with" THEN WithoutLast(ctes) ELSE ctes,
                 IF Top.node = "query" THEN Top.right ELSE right, limit)
  BY <1>1, ScopeLeft
<1> QED BY <1>1, <1>2 DEF IInv, HasFrame

(* WITH clauses *)

LEMMA EnterWithStep ==
  ASSUME IInv, EnterWith
  PROVE  IInv'
<1> DEFINE b == Activation("with", <<>>, "from")
           c == [n \in Name |-> None]
           ds == Append(ctes, c)
<1>1. /\ walk' = Append(walk, b) /\ ctes' = ds /\ UNCHANGED <<frames, right, limit>>
  BY DEF EnterWith, Called
<1>2. b \in ActivationType /\ b.node = "with" /\ b.part = "from"
  <2> DEFINE items == <<>>
  <2>1. b = Activation("with", items, "from") /\ items \in Seq(Items)
    OBVIOUS
  <2>2. "with" \in Nodes /\ "from" \in Parts
    BY DEF Nodes, Parts
  <2> HIDE DEF b, items
  <2> QED BY <2>1, <2>2, ActivationIs
<1> HIDE DEF b
<1>3. MayEnter(walk, b, right) /\ ~IsSelect(b) /\ ~HasFrame(b)
  BY <1>2 DEF MayEnter, IsSelect, HasFrame
<1>4. frames \in Seq(FrameType) /\ ctes \in Seq(CteType)
  BY TopFacts
<1>5. c \in CteType
  BY DEF CteType
<1> HIDE DEF c
<1>6. /\ ds \in Seq(CteType) /\ Len(ds) = Len(ctes) + 1
      /\ \A i \in 1..Len(ctes) : ds[i] = ctes[i]
  BY <1>4, <1>5
<1> HIDE DEF ds
<1>7. /\ Len(frames) = Len(frames) + (IF HasFrame(b) THEN 1 ELSE 0)
      /\ \A i \in 1..Len(frames) : frames[i] = frames[i]
      /\ Len(ds) = Len(ctes) + (IF b.node = "with" THEN 1 ELSE 0)
      /\ right = IF b.node = "query" THEN HasRightJoin(b.from) ELSE right
      /\ IsSelect(b) => FrameIs(b, frames[Len(frames)], ds)
  BY <1>2, <1>3, <1>4, <1>6
<1>8. Consistent(Append(walk, b), frames, ds, right, limit)
  BY <1>2, <1>3, <1>4, <1>6, <1>7, Entered DEF IInv
<1> QED BY <1>1, <1>8 DEF IInv

SameButLast(d, q, S) ==
  /\ d \in Seq(S) /\ Len(d) = Len(q)
  /\ \A i \in 1..(Len(q) - 1) : d[i] = q[i]

LEMMA LastChanged ==
  ASSUME NEW S, NEW q \in Seq(S), NEW e, q # <<>> => e \in S
  PROVE  SameButLast([q EXCEPT ![Len(q)] = e], q, S)
<1> DEFINE d == [q EXCEPT ![Len(q)] = e]
<1>1. CASE q = <<>>
  <2>1. d = q
    BY <1>1
  <2> QED BY <1>1, <2>1 DEF SameButLast
<1>2. CASE q # <<>>
  <2>1. PICK n \in Nat : n = Len(q) /\ n >= 1
    BY <1>2
  <2>2. d = [q EXCEPT ![n] = e] /\ n \in 1..n /\ e \in S
    BY <1>2, <2>1
  <2> HIDE DEF d
  <2>3. /\ d \in Seq(S) /\ Len(d) = n
        /\ \A i \in 1..n : d[i] = IF i = n THEN e ELSE q[i]
    BY <2>1, <2>2
  <2>4. \A i \in 1..(n - 1) : d[i] = q[i]
    BY <2>1, <2>3
  <2>5. SameButLast(d, q, S)
    BY <2>1, <2>3, <2>4 DEF SameButLast
  <2> QED BY <2>5 DEF d
<1> QED BY <1>1, <1>2

LEMMA TableAdded ==
  ASSUME NEW cs \in Seq(CteType), NEW n, NEW cols \in {Unknown} \cup SUBSET Column
  PROVE  SameButLast([cs EXCEPT ![Len(cs)][n] = [cols |-> cols, rowid |-> TRUE]],
                     cs, CteType)
<1> DEFINE s == [cols |-> cols, rowid |-> TRUE]
           c == [cs[Len(cs)] EXCEPT ![n] = s]
<1>1. s \in Sources
  BY DEF Sources
<1>2. cs # <<>> => cs[Len(cs)] \in CteType
  OBVIOUS
<1>3. [cs EXCEPT ![Len(cs)][n] = s] = [cs EXCEPT ![Len(cs)] = c]
  OBVIOUS
<1> HIDE DEF s
<1>4. cs # <<>> => c \in CteType
  BY <1>1, <1>2 DEF CteType
<1> HIDE DEF c
<1>5. SameButLast([cs EXCEPT ![Len(cs)] = c], cs, CteType)
  BY <1>4, LastChanged
<1> QED BY <1>3, <1>5 DEF s

LEMMA CteColumnsType == CteColumns \subseteq {Unknown} \cup SUBSET Column
BY WalkAssumption

LEMMA WalkCteStep ==
  ASSUME IInv, WalkCte
  PROVE  IInv'
<1>1. PICK n \in Name, declared \in CteColumns :
        /\ ctes' = [ctes EXCEPT ![Len(ctes)][n] = [cols |-> declared, rowid |-> TRUE]]
        /\ walk' = Append(Becomes([Top EXCEPT !.at = @ + 1]),
             Activation("cte", <<[rel |-> None, bound |-> n, cols |-> declared,
                                  join |-> "inner"]>>, "query"))
  BY DEF WalkCte, AddQueryTable
<1>2. /\ Depth > 0 /\ Top.node = "with" /\ Top.part = "from"
      /\ frames' = Append(frames, [named |-> Empty.named, anon |-> {}])
      /\ right' = right /\ limit' = limit
  BY DEF WalkCte, TopIs, Push
<1>3. /\ walk \in Seq(ActivationType) /\ walk # <<>> /\ Top = walk[Len(walk)]
      /\ Top \in ActivationType /\ ctes \in Seq(CteType) /\ Depth = Len(walk)
  BY <1>2, TopFacts DEF Depth
<1> DEFINE ds == [ctes EXCEPT ![Len(ctes)][n] = [cols |-> declared, rowid |-> TRUE]]
           k == Top.at + 1
           a == [Top EXCEPT !.at = k]
           w == [walk EXCEPT ![Len(walk)] = a]
           item == [rel |-> None, bound |-> n, cols |-> declared, join |-> "inner"]
           items == <<item>>
           b == Activation("cte", items, "query")
<1>4. /\ ds \in Seq(CteType) /\ Len(ds) = Len(ctes)
      /\ \A i \in 1..(Len(ctes) - 1) : ds[i] = ctes[i]
  <2>1. SameButLast(ds, ctes, CteType)
    BY <1>3, CteColumnsType, TableAdded
  <2> HIDE DEF ds
  <2> QED BY <2>1 DEF SameButLast
<1>5. walk' = Append(w, b) /\ ctes' = ds
  BY <1>1, <1>3 DEF Becomes
<1>6. k \in Nat \ {0}
  BY <1>3 DEF ActivationType
<1> HIDE DEF ds, k
<1>7. a \in ActivationType /\ a.node = "with" /\ a.part = "from"
  BY <1>2, <1>3, <1>6 DEF ActivationType
<1>8. items \in Seq(Items) /\ Len(items) = 1
  <2>1. item \in Items
    BY CteColumnsType DEF Items
  <2> HIDE DEF item
  <2> QED BY <2>1
<1>9. b \in ActivationType /\ b.node = "cte" /\ b.part = "query" /\ b.from = items
  <2>1. "cte" \in Nodes /\ "query" \in Parts
    BY DEF Nodes, Parts
  <2>2. b = Activation("cte", items, "query")
    OBVIOUS
  <2> HIDE DEF b, items
  <2> QED BY <1>8, <2>1, <2>2, ActivationIs
<1>10. w \in Seq(ActivationType) /\ Len(w) = Len(walk) /\ w[Len(w)] = a /\ w # <<>>
  BY <1>3, <1>7
<1> HIDE DEF b, a, items
<1>11. Consistent(w, frames, ds, right, limit)
  <2>1. /\ ~IsSelect(a) /\ a.part # "on" /\ a.node = walk[Len(walk)].node
        /\ a.node \in {"source", "cte"} => a.from = walk[Len(walk)].from
        /\ IF a.node = "with" THEN \A i \in 1..(Len(ctes) - 1) : ds[i] = ctes[i]
                              ELSE ds = ctes
    BY <1>2, <1>3, <1>4, <1>7 DEF IsSelect
  <2> QED BY <1>3, <1>4, <1>7, <2>1, Changed DEF IInv
<1> HIDE DEF w
<1>12. HasFrame(b) /\ ~IsSelect(b) /\ MayEnter(w, b, right)
  BY <1>7, <1>8, <1>9, <1>10 DEF HasFrame, IsSelect, MayEnter
<1>13. Consistent(Append(w, b), Append(frames, [named |-> Empty.named, anon |-> {}]),
                  ds, right, limit)
  BY <1>9, <1>11, <1>12, EmptyType, ScopeEntered
<1> QED BY <1>2, <1>5, <1>13 DEF IInv

LEMMA EndCteStep ==
  ASSUME IInv, EndCte
  PROVE  IInv'
<1>1. /\ Depth > 0 /\ Top.node = "cte" /\ Top.part = "done"
      /\ frames' = WithoutLast(frames) /\ walk' = Resumed
      /\ right' = right /\ limit' = limit
  BY DEF EndCte, TopIs, Pop
<1>2. /\ walk \in Seq(ActivationType) /\ walk # <<>> /\ Top = walk[Len(walk)]
      /\ Top \in ActivationType /\ ctes \in Seq(CteType) /\ Depth = Len(walk)
      /\ Shape(walk, Depth) /\ Top = walk[Depth] /\ Depth \in Nat
  BY <1>1, TopFacts DEF Depth, Top
<1>3. Depth > 1 /\ Below.node = "with" /\ Len(Top.from) = 1
  BY <1>1, <1>2 DEF Shape, Below
<1>4. PICK cols \in {Unknown} \cup SUBSET Column :
        ctes' = [ctes EXCEPT ![Len(ctes)][Top.from[1].bound] =
                               [cols |-> cols, rowid |-> TRUE]]
  <2>1. PICK cols \in IF Top.from[1].cols = Unknown THEN CteColumns
                      ELSE {Top.from[1].cols} :
          ctes' = [ctes EXCEPT ![Len(ctes)][Top.from[1].bound] =
                                 [cols |-> cols, rowid |-> TRUE]]
    BY DEF EndCte, AddQueryTable
  <2>2. Top.from[1] \in Items
    BY <1>2, <1>3 DEF ActivationType
  <2>3. Top.from[1].cols \in {Unknown} \cup SUBSET Column
    BY <2>2 DEF Items
  <2>4. cols \in {Unknown} \cup SUBSET Column
    BY <2>1, <2>3, CteColumnsType
  <2> QED BY <2>1, <2>4
<1> DEFINE ds == [ctes EXCEPT ![Len(ctes)][Top.from[1].bound] =
                                [cols |-> cols, rowid |-> TRUE]]
           w == WithoutLast(walk)
           fs == WithoutLast(frames)
<1>5. /\ ds \in Seq(CteType) /\ Len(ds) = Len(ctes)
      /\ \A i \in 1..(Len(ctes) - 1) : ds[i] = ctes[i]
  <2>1. SameButLast(ds, ctes, CteType)
    BY <1>2, TableAdded
  <2> HIDE DEF ds
  <2> QED BY <2>1 DEF SameButLast
<1>6. ctes' = ds
  BY <1>4
<1> HIDE DEF ds
<1>7. Consistent(w, fs, ctes, right, limit)
  <2>1. Consistent(WithoutLast(walk),
                   IF HasFrame(walk[Len(walk)]) THEN WithoutLast(frames) ELSE frames,
                   IF walk[Len(walk)].node = "with" THEN WithoutLast(ctes) ELSE ctes,
                   IF walk[Len(walk)].node = "query" THEN walk[Len(walk)].right
                   ELSE right, limit)
    BY <1>1, <1>2, Left DEF IInv
  <2> QED BY <1>1, <1>2, <2>1 DEF HasFrame
<1>8. /\ w \in Seq(ActivationType) /\ Len(w) = Depth - 1 /\ w # <<>> /\ w[Len(w)] = Below
  <2>1. /\ SubSeq(walk, 1, Len(walk) - 1) \in Seq(ActivationType)
        /\ Len(SubSeq(walk, 1, Len(walk) - 1)) = Len(walk) - 1
        /\ \A j \in 1..(Len(walk) - 1) : SubSeq(walk, 1, Len(walk) - 1)[j] = walk[j]
    BY <1>2, PrefixType
  <2>2. /\ w \in Seq(ActivationType) /\ Len(w) = Depth - 1
        /\ \A j \in 1..(Depth - 1) : w[j] = walk[j]
    BY <1>2, <2>1 DEF WithoutLast
  <2>3. Below = walk[Depth - 1]
    BY DEF Below
  <2> HIDE DEF w
  <2> QED BY <1>2, <1>3, <2>2, <2>3
<1> HIDE DEF w, fs
<1>9. Consistent(w, fs, ds, right, limit)
  <2> DEFINE a == w[Len(w)]
  <2>1. a \in ActivationType /\ a.node = "with" /\ Len(w) \in 1..Len(w)
    BY <1>3, <1>8
  <2>2. a.part # "on"
    <3>1. Shape(w, Len(w))
      BY <1>7, <2>1 DEF Consistent
    <3> QED BY <2>1, <3>1 DEF Shape, IsSelect
  <2>3. /\ ~IsSelect(a) /\ a.node = w[Len(w)].node
        /\ a.node \in {"source", "cte"} => a.from = w[Len(w)].from
        /\ IF a.node = "with" THEN \A i \in 1..(Len(ctes) - 1) : ds[i] = ctes[i]
                              ELSE ds = ctes
    BY <1>5, <2>1 DEF IsSelect
  <2>4. [w EXCEPT ![Len(w)] = a] = w
    BY <1>8
  <2> HIDE DEF a
  <2>5. Consistent([w EXCEPT ![Len(w)] = a], fs, ds, right, limit)
    BY <1>5, <1>7, <1>8, <2>1, <2>2, <2>3, Changed
  <2> QED BY <2>4, <2>5
<1>10. Consistent(Resumed, fs, ds, right, limit)
  BY <1>1, <1>9, Returned DEF w
<1> QED BY <1>1, <1>6, <1>10 DEF IInv, fs

LEMMA EndBindingsStep ==
  ASSUME IInv, EndBindings
  PROVE  IInv'
<1> DEFINE a == [Top EXCEPT !.part = "query"]
<1>1. /\ Depth > 0 /\ Top.node = "with"
      /\ walk' = [walk EXCEPT ![Len(walk)] = a]
      /\ UNCHANGED <<frames, ctes, right, limit>>
  BY DEF EndBindings, TopIs, Becomes, Depth
<1>2. /\ walk # <<>> /\ Top = walk[Len(walk)] /\ Top \in ActivationType
      /\ ctes \in Seq(CteType)
  BY <1>1, TopFacts
<1>3. a \in ActivationType /\ a.node = "with" /\ a.part = "query"
  BY <1>1, <1>2 DEF ActivationType, Parts
<1> HIDE DEF a
<1>4. /\ ~IsSelect(a) /\ a.part # "on" /\ a.node = walk[Len(walk)].node
      /\ a.node \in {"source", "cte"} => a.from = walk[Len(walk)].from
      /\ Len(ctes) = Len(ctes)
      /\ IF a.node = "with" THEN \A i \in 1..(Len(ctes) - 1) : ctes[i] = ctes[i]
                            ELSE ctes = ctes
  BY <1>1, <1>2, <1>3 DEF IsSelect
<1>5. Consistent([walk EXCEPT ![Len(walk)] = a], frames, ctes, right, limit)
  BY <1>2, <1>3, <1>4, Changed DEF IInv
<1> QED BY <1>1, <1>5 DEF IInv

LEMMA EndWithStep ==
  ASSUME IInv, EndWith
  PROVE  IInv'
<1>1. /\ Depth > 0 /\ Top.node = "with" /\ Top.part = "done"
      /\ ctes' = WithoutLast(ctes) /\ walk' = Resumed
      /\ UNCHANGED <<frames, right, limit>>
  BY DEF EndWith, TopIs
<1>2. Consistent(Resumed,
                 IF HasFrame(Top) THEN WithoutLast(frames) ELSE frames,
                 IF Top.node = "with" THEN WithoutLast(ctes) ELSE ctes,
                 IF Top.node = "query" THEN Top.right ELSE right, limit)
  BY <1>1, ScopeLeft
<1> QED BY <1>1, <1>2 DEF IInv, HasFrame

(* Statements *)

LEMMA EnterDmlStep ==
  ASSUME IInv, EnterDml
  PROVE  IInv'
<1>1. PICK from \in FromClauses \ {<<>>} :
        /\ frames' = Append(frames, [named |-> RegisterSources(Empty.named, ctes, from),
                                     anon |-> {}])
        /\ walk' = Append(walk, Activation("dml", from, "from"))
  BY DEF EnterDml, Push, Called
<1>2. /\ \/ Depth = 0
         \/ Depth > 0 /\ Top.node = "trigger"
         \/ Depth = 1 /\ Top.node = "with"
      /\ UNCHANGED <<ctes, right, limit>>
  BY DEF EnterDml, TopIs
<1> DEFINE b == Activation("dml", from, "from")
<1>3. from \in Seq(Items) /\ 1 \in DOMAIN from
  BY WalkAssumption
<1>4. /\ b \in ActivationType /\ b.node = "dml" /\ b.part = "from" /\ b.at = 1
      /\ b.from = from
  <2>1. "dml" \in Nodes /\ "from" \in Parts
    BY DEF Nodes, Parts
  <2>2. b = Activation("dml", from, "from")
    OBVIOUS
  <2> HIDE DEF b
  <2> QED BY <1>3, <2>1, <2>2, ActivationIs
<1>5. walk' = Append(walk, b)
  BY <1>1
<1> HIDE DEF b
<1>6. \A j \in 1..Len(walk) : walk[j].node # "query"
  <2>1. CASE Depth = 0
    BY <2>1 DEF Depth
  <2>2. CASE Depth > 0 /\ Top.node \in {"trigger", "with"} /\ Depth = 1
    BY <2>2 DEF Depth, Top
  <2>3. CASE Depth > 0 /\ Top.node = "trigger"
    <3>1. Shape(walk, Depth) /\ Top = walk[Depth]
      BY <2>3, TopFacts DEF Top
    <3>2. Depth = 1
      BY <2>3, <3>1 DEF Shape
    <3> QED BY <2>2, <2>3, <3>2
  <2> QED BY <1>2, <2>1, <2>2, <2>3
<1>7. MayEnter(walk, b, right) /\ IsSelect(b)
  BY <1>3, <1>4, <1>6 DEF MayEnter, IsSelect
<1>8. Consistent(walk, frames, ctes, right, limit)
  BY DEF IInv
<1>9. Consistent(Append(walk, b),
                 Append(frames, [named |-> RegisterSources(Empty.named, ctes, b.from),
                                 anon |-> {}]),
                 ctes, IF b.node = "query" THEN HasRightJoin(b.from) ELSE right, limit)
  BY <1>4, <1>7, <1>8, SelectEntered
<1> QED BY <1>1, <1>2, <1>4, <1>5, <1>9 DEF IInv

(* The scopes entered at a statement, with a frame the statement fills *)
LEMMA PlainEntered ==
  ASSUME IInv, NEW node \in {"upsert", "trigger", "table"},
         node = "trigger" => Depth = 0,
         NEW named \in [Bindable -> {None} \cup Sources],
         Push(named), walk' = Called(Activation(node, <<>>, "clauses")),
         UNCHANGED <<ctes, right, limit>>
  PROVE  IInv'
<1> DEFINE b == Activation(node, <<>>, "clauses")
<1>1. walk' = Append(walk, b)
  BY DEF Called
<1>2. b \in ActivationType /\ b.node = node /\ b.part = "clauses"
  <2> DEFINE items == <<>>
  <2>1. b = Activation(node, items, "clauses") /\ items \in Seq(Items)
    OBVIOUS
  <2>2. node \in Nodes /\ "clauses" \in Parts
    BY DEF Nodes, Parts
  <2> HIDE DEF b, items
  <2> QED BY <2>1, <2>2, ActivationIs
<1> HIDE DEF b
<1>3. HasFrame(b) /\ ~IsSelect(b) /\ MayEnter(walk, b, right)
  <2>1. node = "trigger" => walk = <<>>
    BY TopFacts DEF Depth
  <2> QED BY <1>2, <2>1 DEF HasFrame, IsSelect, MayEnter
<1>4. Consistent(walk, frames, ctes, right, limit)
  BY DEF IInv
<1>5. Consistent(Append(walk, b), Append(frames, [named |-> named, anon |-> {}]),
                 ctes, right, limit)
  BY <1>2, <1>3, <1>4, ScopeEntered
<1> QED BY <1>1, <1>5 DEF IInv, Push

LEMMA EnterUpsertStep ==
  ASSUME IInv, EnterUpsert
  PROVE  IInv'
<1> DEFINE cols == SoleColumns(Inner)
           named == [Empty.named EXCEPT ![Excluded] = [cols |-> cols, rowid |-> TRUE]]
<1>1. /\ Depth > 0 /\ Top.node = "dml"
      /\ Push(named) /\ walk' = Called(Activation("upsert", <<>>, "clauses"))
      /\ UNCHANGED <<ctes, right, limit>>
  BY DEF EnterUpsert, TopIs
<1>2. Inner \in FrameType
  BY <1>1, TopFacts DEF HasFrame
<1>3. cols \in {Unknown} \cup SUBSET Column
  <2>1. CASE Cardinality(Bound(Inner)) = 1 /\ Inner.anon = {}
    <3>1. Bound(Inner) # {}
      BY <2>1, FS_EmptySet
    <3>2. \E n \in Bindable : n \in Bound(Inner)
      BY <3>1 DEF Bound
    <3> DEFINE n == CHOOSE n \in Bindable : n \in Bound(Inner)
    <3>3. n \in Bindable /\ n \in Bound(Inner)
      BY <3>2
    <3>4. cols = Inner.named[n].cols
      BY <2>1 DEF SoleColumns
    <3> HIDE DEF n
    <3>5. Inner.named[n] \in Sources
      BY <1>2, <3>3 DEF FrameType, Bound
    <3> QED BY <3>4, <3>5 DEF Sources
  <2>2. CASE ~(Cardinality(Bound(Inner)) = 1 /\ Inner.anon = {})
    BY <2>2 DEF SoleColumns
  <2> QED BY <2>1, <2>2
<1> HIDE DEF cols
<1>4. named \in [Bindable -> {None} \cup Sources]
  BY <1>3, EmptyType DEF Sources
<1> HIDE DEF named
<1> QED BY <1>1, <1>4, PlainEntered

LEMMA EnterTriggerStep ==
  ASSUME IInv, EnterTrigger
  PROVE  IInv'
<1>1. PICK n \in Name :
        Push([Empty.named EXCEPT ![Old] = InfoUnder(ctes, n), ![New] = InfoUnder(ctes, n)])
  BY DEF EnterTrigger
<1>2. /\ Depth = 0 /\ walk' = Called(Activation("trigger", <<>>, "clauses"))
      /\ UNCHANGED <<ctes, right, limit>>
  BY DEF EnterTrigger
<1> DEFINE named == [Empty.named EXCEPT ![Old] = InfoUnder(ctes, n),
                                        ![New] = InfoUnder(ctes, n)]
<1>3. InfoUnder(ctes, n) \in Sources
  BY TopFacts, InfoType
<1>4. named \in [Bindable -> {None} \cup Sources]
  BY <1>3, EmptyType
<1> HIDE DEF named
<1> QED BY <1>1, <1>2, <1>4, PlainEntered DEF named

LEMMA EnterTableStep ==
  ASSUME IInv, EnterTable
  PROVE  IInv'
<1>1. PICK n \in Name, seesRowid \in BOOLEAN :
        Push([Empty.named EXCEPT
                ![n] = [InfoUnder(ctes, n) EXCEPT !.rowid = @ /\ seesRowid]])
  BY DEF EnterTable
<1>2. /\ walk' = Called(Activation("table", <<>>, "clauses"))
      /\ UNCHANGED <<ctes, right, limit>>
  BY DEF EnterTable
<1> DEFINE s == [InfoUnder(ctes, n) EXCEPT !.rowid = @ /\ seesRowid]
           named == [Empty.named EXCEPT ![n] = s]
<1>3. InfoUnder(ctes, n) \in Sources
  BY TopFacts, InfoType
<1>4. s \in Sources
  BY <1>3 DEF Sources
<1>5. Push(named)
  BY <1>1
<1> HIDE DEF s
<1>6. named \in [Bindable -> {None} \cup Sources]
  BY <1>4, EmptyType
<1> HIDE DEF named
<1> QED BY <1>2, <1>5, <1>6, PlainEntered

-----------------------------------------------------------------------------
LEMMA InitInv == Init => IInv
<1> SUFFICES ASSUME Init
             PROVE  IInv
  OBVIOUS
<1>1. /\ walk = <<>> /\ frames = <<>> /\ ctes = <<>> /\ limit = None /\ right = FALSE
  BY DEF Init
<1>2. /\ FramesTo(walk, 0) = 0 /\ WithsTo(walk, 0) = 0
      /\ RightTo(walk, 0) = FALSE /\ LimitTo(walk, 0) = None
  BY FramesStep, WithsStep, RightStep, LimitStep
<1>3. Len(walk) = 0 /\ Len(frames) = 0 /\ Len(ctes) = 0 /\ 1..Len(walk) = {}
  BY <1>1
<1>4. Typed(walk, frames, ctes, right, limit)
  <2>1. walk \in Seq(ActivationType)
    BY <1>1
  <2>2. frames \in Seq(FrameType)
    BY <1>1
  <2>3. ctes \in Seq(CteType)
    BY <1>1
  <2>4. right \in BOOLEAN
    BY <1>1
  <2>5. limit \in LimitType
    BY <1>1 DEF LimitType
  <2> QED BY <2>1, <2>2, <2>3, <2>4, <2>5 DEF Typed
<1> QED BY <1>1, <1>2, <1>3, <1>4 DEF IInv, Consistent

LEMMA StepInv == IInv /\ [Next]_vars => IInv'
<1> SUFFICES ASSUME IInv, [Next]_vars
             PROVE  IInv'
  OBVIOUS
<1>1. CASE WalkSourceRef
  BY <1>1, WalkSourceRefStep
<1>2. CASE EnterScopedSource
  BY <1>2, EnterScopedSourceStep
<1>3. CASE EndScopedSource
  BY <1>3, EndScopedSourceStep
<1>4. CASE EndOnClause
  BY <1>4, EndOnClauseStep
<1>5. CASE EnterQuery
  BY <1>5, EnterQueryStep
<1>6. CASE EndColumns
  BY <1>6, EndColumnsStep
<1>7. CASE EndQuery
  BY <1>7, EndQueryStep
<1>8. CASE EnterCompound
  BY <1>8, EnterCompoundStep
<1>9. CASE WalkOrderBy
  BY <1>9, WalkOrderByStep
<1>10. CASE EndCompound
  BY <1>10, EndCompoundStep
<1>11. CASE EnterWith
  BY <1>11, EnterWithStep
<1>12. CASE WalkCte
  BY <1>12, WalkCteStep
<1>13. CASE EndCte
  BY <1>13, EndCteStep
<1>14. CASE EndBindings
  BY <1>14, EndBindingsStep
<1>15. CASE EndWith
  BY <1>15, EndWithStep
<1>16. CASE EnterDml
  BY <1>16, EnterDmlStep
<1>17. CASE EndSetList
  BY <1>17, EndSetListStep
<1>18. CASE EndDml
  BY <1>18, EndDmlStep
<1>19. CASE EnterUpsert
  BY <1>19, EnterUpsertStep
<1>20. CASE EnterTrigger
  BY <1>20, EnterTriggerStep
<1>21. CASE EnterTable
  BY <1>21, EnterTableStep
<1>22. CASE EndScope
  BY <1>22, EndScopeStep
<1>23. CASE WalkColumnRef
  BY <1>23 DEF WalkColumnRef, IInv
<1>24. CASE UNCHANGED vars
  BY <1>24 DEF vars, IInv
<1> QED BY <1>1, <1>2, <1>3, <1>4, <1>5, <1>6, <1>7, <1>8, <1>9, <1>10, <1>11, <1>12,
           <1>13, <1>14, <1>15, <1>16, <1>17, <1>18, <1>19, <1>20, <1>21, <1>22, <1>23,
           <1>24 DEF Next

-----------------------------------------------------------------------------
(* The properties, from the invariant *)

LEMMA NestingIs ==
  ASSUME NEW k
  PROVE  /\ FrameOf(k) = FramesTo(walk, k)
         /\ CtesAt(k) = SubSeq(ctes, 1, WithsTo(walk, k))
         /\ Selects(k) <=> IsSelect(walk[k])
BY DEF FrameOf, FramesTo, HasFrame, CtesAt, WithsTo, Selects, IsSelect

LEMMA FramesFollow ==
  ASSUME IInv
  PROVE  FramesAreLexical
<1>1. /\ ctes \in Seq(CteType) /\ Depth = Len(walk) /\ Depth \in Nat
      /\ Len(frames) = FramesTo(walk, Depth) /\ Len(ctes) = WithsTo(walk, Depth)
      /\ \A k \in 1..Depth : Holds(walk, frames, ctes, k)
  BY TopFacts DEF IInv, Consistent, Depth
<1>2. Len(frames) = FrameOf(Depth)
  BY <1>1, NestingIs
<1>3. Len(ctes) = Len(CtesAt(Depth))
  <2>1. SubSeq(ctes, 1, Len(ctes)) = ctes
    BY <1>1
  <2> QED BY <1>1, <2>1, NestingIs
<1>4. ASSUME NEW k \in 1..Depth, Selects(k)
      PROVE  FrameIs(walk[k], frames[FrameOf(k)], CtesAt(k))
  BY <1>1, <1>4, NestingIs DEF Holds
<1> QED BY <1>2, <1>3, <1>4 DEF FramesAreLexical, FrameIs, NamedItems, Stands

(* The queries and the ON clauses at or below an activation *)
LEMMA QueriesBelow ==
  ASSUME NEW n \in Nat, NEW k \in 0..n
  PROVE  {j \in {i \in 1..n : walk[i].node = "query"} : j <= k} = QueriesTo(walk, k)
BY DEF QueriesTo

LEMMA LimitFollows ==
  ASSUME IInv
  PROVE  LimitIsLexical
<1> DEFINE queries == {k \in 1..Depth : walk[k].node = "query"}
           inner(k) == {j \in queries : j <= k}
           rightOf(k) == inner(k) # {} /\ HasRightJoin(walk[Highest(inner(k))].from)
           ons == {k \in 1..Depth : walk[k].part = "on"}
           on == Highest(ons)
           a == walk[on]
           outside == DOMAIN a.from \ (FirstItem(a)..a.at)
<1>1. /\ Depth = Len(walk) /\ Depth \in Nat
      /\ right = RightTo(walk, Depth) /\ limit = LimitTo(walk, Depth)
  BY TopFacts DEF IInv, Consistent, Depth
<1>2. ASSUME NEW k \in 0..Depth
      PROVE  rightOf(k) = RightTo(walk, k)
  <2>1. inner(k) = QueriesTo(walk, k)
    BY <1>1, QueriesBelow
  <2> HIDE DEF inner
  <2> QED BY <2>1 DEF RightTo
<1>3. ons = OnsTo(walk, Depth) /\ ons \in SUBSET (1..Depth)
  BY DEF OnsTo
<1>4. ons # {} => on \in 0..Depth
  <2>1. ons \in SUBSET (1..Depth)
    BY <1>3
  <2> HIDE DEF ons
  <2>2. ons # {} => Highest(ons) \in ons
    BY <1>1, <2>1, HighestIs
  <2>3. \A k \in ons : k \in 1..Depth
    BY <2>1
  <2>4. \A k \in 1..Depth : k \in 0..Depth
    BY <1>1
  <2> QED BY <2>2, <2>3, <2>4
<1>5. Depth \in 0..Depth
  BY <1>1
<1> HIDE DEF rightOf, ons
<1>6. right = rightOf(Depth)
  BY <1>1, <1>2, <1>5
<1>7. limit = IF ons = {} THEN None ELSE LimitAt(a, RightTo(walk, on), FramesTo(walk, on))
  BY <1>1, <1>3 DEF LimitTo
<1>8. limit = IF ons = {} \/ ~(rightOf(on) \/ a.from[a.at].join # "inner")
              THEN None
              ELSE [frame |-> FrameOf(on),
                    later |-> {a.from[j].bound : j \in outside}
                              \ (JoinNames(a) \cup {NoName})]
  <2>1. ons # {} => rightOf(on) = RightTo(walk, on)
    BY <1>2, <1>4
  <2>2. FrameOf(on) = FramesTo(walk, on)
    BY NestingIs
  <2>3. Beyond(a) = {a.from[j].bound : j \in outside} \ (JoinNames(a) \cup {NoName})
    BY DEF Beyond
  <2> HIDE DEF a, on, outside
  <2> QED BY <1>7, <2>1, <2>2, <2>3 DEF LimitAt
<1> QED BY <1>6, <1>8 DEF LimitIsLexical, rightOf, ons

(* The scopes stay those of the nesting: every frame, the WITH clauses, the *)
(* RIGHT JOIN flag and the limit of the ON clause are what the place the    *)
(* walk is at asks for, after any number of scopes entered and left.        *)
THEOREM ScopesStayLexical == Spec => []ScopesAreLexical
<1>1. IInv => ScopesAreLexical
  BY FramesFollow, LimitFollows DEF ScopesAreLexical
<1> QED BY <1>1, InitInv, StepInv, PTL DEF Spec
-----------------------------------------------------------------------------
(* What was made of the reference just walked is what the frames and the    *)
(* limit still say of it: a reference changes neither.                      *)
AnswersTo(t, c) ==
  IF t = NoName THEN ResolveUnqualified(c) ELSE {ResolveQualified(t, c)}
LateAnswers(t, c, res) ==
  LET sources == IF limit = None THEN {} ELSE ResolvingSource(t, c, res) IN
  IF sources = {} THEN {FALSE}
  ELSE {s[1] = limit.frame /\ s[2] \in limit.later : s \in sources}
AskedHere ==
  asked # None =>
    \E t \in {NoName} \cup (Bindable \ {Selected}), c \in Column \cup {RowId} :
    \E res \in AnswersTo(t, c) : \E late \in LateAnswers(t, c, res) :
      asked = [table |-> t, column |-> c, result |-> res, late |-> late]

LEMMA AskedStep == AskedHere /\ [Next]_vars => AskedHere'
<1> SUFFICES ASSUME AskedHere, [Next]_vars
             PROVE  AskedHere'
  OBVIOUS
<1>1. CASE WalkColumnRef
  <2>1. /\ frames' = frames /\ limit' = limit
        /\ \E t \in {NoName} \cup (Bindable \ {Selected}), c \in Column \cup {RowId} :
           \E res \in AnswersTo(t, c) : \E late \in LateAnswers(t, c, res) :
             asked' = [table |-> t, column |-> c, result |-> res, late |-> late]
    BY <1>1 DEF WalkColumnRef, AnswersTo, LateAnswers
  <2>2. ASSUME NEW t, NEW c
        PROVE  AnswersTo(t, c)' = AnswersTo(t, c)
    BY <2>1 DEF AnswersTo, ResolveUnqualified, ResolveQualified
  <2>3. ASSUME NEW t, NEW c, NEW res
        PROVE  LateAnswers(t, c, res)' = LateAnswers(t, c, res)
    BY <2>1 DEF LateAnswers, ResolvingSource
  <2> QED BY <2>1, <2>2, <2>3 DEF AskedHere
<1>2. CASE UNCHANGED vars
  <2>1. frames' = frames /\ limit' = limit /\ asked' = asked
    BY <1>2 DEF vars
  <2>2. ASSUME NEW t, NEW c
        PROVE  AnswersTo(t, c)' = AnswersTo(t, c)
    BY <2>1 DEF AnswersTo, ResolveUnqualified, ResolveQualified
  <2>3. ASSUME NEW t, NEW c, NEW res
        PROVE  LateAnswers(t, c, res)' = LateAnswers(t, c, res)
    BY <2>1 DEF LateAnswers, ResolvingSource
  <2> QED BY <2>1, <2>2, <2>3 DEF AskedHere
<1>3. CASE Next /\ ~WalkColumnRef
  <2>1. asked' = None
    BY <1>3 DEF Next, WalkSourceRef, EnterScopedSource, EndScopedSource, EndOnClause,
                EnterQuery, EndColumns, EndQuery, EnterCompound, WalkOrderBy,
                EndCompound, EnterWith, WalkCte, EndCte, EndBindings, EndWith,
                EnterDml, EndSetList, EndDml, EnterUpsert, EnterTrigger, EnterTable,
                EndScope
  <2> QED BY <2>1 DEF AskedHere
<1> QED BY <1>1, <1>2, <1>3

LEMMA AskedIs ==
  ASSUME AskedHere, asked # None
  PROVE  /\ asked.table \in {NoName} \cup (Bindable \ {Selected})
         /\ asked.result \in AnswersTo(asked.table, asked.column)
         /\ asked.late \in LateAnswers(asked.table, asked.column, asked.result)
BY DEF AskedHere

(* A source that can be referred to is in the frame of its query. *)
LEMMA InScopeIsOwned ==
  ASSUME IInv, NEW k \in 1..Depth, Resolves(k), NEW i \in InScope(k),
         NEW c, HasColumn(Stands(k, i), c)
  PROVE  /\ FrameOf(k) \in DOMAIN frames /\ Owns(frames[FrameOf(k)], c)
         /\ i.bound # NoName => /\ i.bound \in Bound(frames[FrameOf(k)])
                                /\ HasColumn(frames[FrameOf(k)].named[i.bound], c)
<1> DEFINE a == walk[k]
           f == frames[FrameOf(k)]
<1>1. /\ walk \in Seq(ActivationType) /\ frames \in Seq(FrameType)
      /\ ctes \in Seq(CteType) /\ Depth = Len(walk) /\ Depth \in Nat
      /\ Len(frames) = FramesTo(walk, Depth) /\ Holds(walk, frames, ctes, k)
  BY TopFacts DEF IInv, Consistent, Depth
<1>2. a \in ActivationType /\ IsSelect(a) /\ Distinct(a.from) /\ FrameOf(k) = FramesTo(walk, k)
  BY <1>1, NestingIs DEF Resolves
<1>3. FrameIs(a, f, CtesAt(k))
  BY <1>1, <1>2, NestingIs DEF Holds
<1>4. FrameOf(k) \in 1..Len(frames)
  <2>1. HasFrame(walk[k])
    BY <1>2 DEF IsSelect, HasFrame
  <2>2. /\ FramesTo(walk, k) \in Nat /\ FramesTo(walk, k) <= FramesTo(walk, Depth)
        /\ FramesTo(walk, k) >= 1
    BY <1>1, <2>1, FrameIndex
  <2> QED BY <1>1, <1>2, <2>2
<1>5. PICK j \in DOMAIN a.from :
        i = a.from[j] /\ (a.from[j].bound # NoName \/ j \in Walked(a))
  BY DEF InScope
<1>6. /\ CtesAt(k) \in Seq(CteType)
      /\ Stands(k, i) = SourceOf(CtesAt(k), a.from[j])
  <2>1. WithsTo(walk, k) \in Nat /\ WithsTo(walk, k) <= Len(ctes)
    BY <1>1, FrameIndex DEF IInv, Consistent
  <2>2. SubSeq(ctes, 1, WithsTo(walk, k)) \in Seq(CteType)
    BY <1>1, <2>1, PrefixType
  <2> QED BY <1>5, <2>2, NestingIs DEF Stands
<1>7. /\ Stands(k, i) # None
      /\ i.bound # NoName => i.bound \in Bindable
  <2>1. a.from \in Seq(Items)
    BY <1>2 DEF ActivationType
  <2>2. a.from[j] \in Items
    BY <1>5, <2>1
  <2> QED BY <1>5, <1>6, <2>1, <2>2, SourceType, ItemNames
<1>8. CASE i.bound # NoName
  <2>1. f.named[i.bound] = Stands(k, i)
    BY <1>2, <1>3, <1>5, <1>6, <1>8 DEF FrameIs, NamedItems
  <2>2. i.bound \in Bound(f)
    BY <1>7, <1>8, <2>1 DEF Bound
  <2>3. i.bound \in Owners(f, c)
    BY <2>1, <2>2 DEF Owners
  <2> QED BY <1>1, <1>4, <1>8, <2>1, <2>2, <2>3 DEF Owns
<1>9. CASE i.bound = NoName
  <2>1. Stands(k, i) \in f.anon
    BY <1>3, <1>5, <1>6, <1>9 DEF FrameIs, NamedItems
  <2> QED BY <1>1, <1>4, <1>9, <2>1 DEF Owns
<1> QED BY <1>8, <1>9

LEMMA UnqualifiedIs ==
  ASSUME NEW c, NEW res \in ResolveUnqualified(c),
         NEW owning, owning = {k \in DOMAIN frames : Owns(frames[k], c)}
  PROVE  /\ owning = {} => res = NotFound
         /\ owning # {} =>
              /\ res.kind = "found" /\ res.frame = Highest(owning)
              /\ \/ res.source \in Owners(frames[Highest(owning)], c)
                 \/ res.source = NoName
                    /\ Owners(frames[Highest(owning)], c) = {}
<1> DEFINE named == Owners(frames[Highest(owning)], c)
<1>1. res \in IF owning = {} THEN {NotFound}
             ELSE {[kind |-> "found", frame |-> Highest(owning), source |-> n] :
                     n \in IF named = {} THEN {NoName} ELSE named}
  BY DEF ResolveUnqualified
<1> HIDE DEF named
<1>2. CASE owning = {}
  BY <1>1, <1>2
<1>3. CASE owning # {}
  <2>1. PICK n \in IF named = {} THEN {NoName} ELSE named :
          res = [kind |-> "found", frame |-> Highest(owning), source |-> n]
    BY <1>1, <1>3
  <2>2. res.kind = "found" /\ res.frame = Highest(owning) /\ res.source = n
    BY <2>1
  <2> QED BY <1>3, <2>2 DEF named
<1> QED BY <1>2, <1>3

LEMMA UnknownAreUnknown ==
  ASSUME IInv, AskedHere
  PROVE  UnknownColumnsAreUnknown
<1> SUFFICES ASSUME asked # None
             PROVE  LET c == asked.column  t == asked.table IN
               /\ asked.result.kind = "notFound" =>
                    \A k \in 1..Depth : Resolves(k) =>
                      \A i \in InScope(k) : ~HasColumn(Stands(k, i), c)
               /\ asked.result.kind \in {"missing", "noTable"} =>
                    \A k \in 1..Depth :
                      Resolves(k) /\ FrameOf(k) >= asked.result.frame =>
                        \A i \in InScope(k) : i.bound = t => ~HasColumn(Stands(k, i), c)
  BY DEF UnknownColumnsAreUnknown
<1> DEFINE c == asked.column
           t == asked.table
           res == asked.result
           owning == {k \in DOMAIN frames : Owns(frames[k], c)}
           binding == {k \in DOMAIN frames : t \in Bound(frames[k])}
<1>1. res \in AnswersTo(t, c)
  BY AskedIs
<1>2. /\ Len(frames) \in Nat /\ DOMAIN frames = 1..Len(frames)
  BY TopFacts
<1> HIDE DEF c, t, res
<1>3. ASSUME res.kind = "notFound"
      PROVE  owning = {}
  <2>1. t = NoName
    BY <1>1, <1>3 DEF AnswersTo, ResolveQualified
  <2>2. res \in ResolveUnqualified(c)
    BY <1>1, <2>1 DEF AnswersTo
  <2> QED BY <1>3, <2>2, UnqualifiedIs
<1>4. ASSUME res.kind = "notFound", NEW k \in 1..Depth, Resolves(k), NEW i \in InScope(k),
             HasColumn(Stands(k, i), c)
      PROVE  FALSE
  <2>1. FrameOf(k) \in owning
    BY <1>4, InScopeIsOwned
  <2> QED BY <1>3, <1>4, <2>1
<1>5. ASSUME res.kind \in {"missing", "noTable"}
      PROVE  /\ t # NoName /\ res = ResolveQualified(t, c)
  <2>1. t # NoName
    <3>1. SUFFICES ASSUME t = NoName
                   PROVE  FALSE
      OBVIOUS
    <3>2. res \in ResolveUnqualified(c)
      BY <1>1, <3>1 DEF AnswersTo
    <3>3. res = NotFound \/ res.kind = "found"
      BY <3>2, UnqualifiedIs
    <3>4. NotFound.kind = "notFound"
      BY DEF NotFound
    <3> QED BY <1>5, <3>3, <3>4
  <2> QED BY <1>1, <2>1 DEF AnswersTo
<1>6. ASSUME res.kind \in {"missing", "noTable"}, NEW k \in 1..Depth, Resolves(k),
             FrameOf(k) >= res.frame, NEW i \in InScope(k), i.bound = t,
             HasColumn(Stands(k, i), c)
      PROVE  FALSE
  <2>1. /\ FrameOf(k) \in DOMAIN frames /\ t \in Bound(frames[FrameOf(k)])
        /\ HasColumn(frames[FrameOf(k)].named[t], c)
    BY <1>5, <1>6, InScopeIsOwned
  <2>2. FrameOf(k) \in binding /\ binding \in SUBSET (1..Len(frames))
    BY <1>2, <2>1
  <2> DEFINE h == Highest(binding)
  <2>3. /\ res.kind = IF HasColumn(frames[h].named[t], c) THEN "found" ELSE "missing"
        /\ res.frame = h
    BY <1>5, <1>6, <2>2 DEF ResolveQualified
  <2> HIDE DEF binding
  <2>4. h \in binding /\ FrameOf(k) <= h
    BY <1>2, <2>2, HighestIs
  <2> HIDE DEF h
  <2>5. FrameOf(k) = h
    BY <1>2, <1>6, <2>2, <2>3, <2>4
  <2> QED BY <1>6, <2>1, <2>3, <2>5
<1> QED BY <1>4, <1>6 DEF c, t, res

LEMMA FoundInnermost ==
  ASSUME IInv, AskedHere
  PROVE  FoundIsInnermost
<1> SUFFICES ASSUME asked # None, asked.result.kind = "found",
                    NEW k \in 1..Depth, Resolves(k), FrameOf(k) > asked.result.frame,
                    NEW i \in InScope(k), asked.table \in {NoName, i.bound},
                    HasColumn(Stands(k, i), asked.column)
             PROVE  FALSE
  BY DEF FoundIsInnermost
<1> DEFINE c == asked.column
           t == asked.table
           res == asked.result
           owning == {j \in DOMAIN frames : Owns(frames[j], c)}
           binding == {j \in DOMAIN frames : t \in Bound(frames[j])}
<1>1. res \in AnswersTo(t, c)
  BY AskedIs
<1>2. /\ Len(frames) \in Nat /\ DOMAIN frames = 1..Len(frames)
  BY TopFacts
<1>3. /\ FrameOf(k) \in owning /\ owning \in SUBSET (1..Len(frames))
      /\ t # NoName => FrameOf(k) \in binding
      /\ binding \in SUBSET (1..Len(frames))
  BY <1>2, InScopeIsOwned
<1>4. res.kind = "found" /\ FrameOf(k) > res.frame
  OBVIOUS
<1> HIDE DEF c, t, res
<1>5. CASE t = NoName
  <2>1. res.frame = Highest(owning)
    BY <1>1, <1>3, <1>5, UnqualifiedIs DEF AnswersTo
  <2> HIDE DEF owning
  <2>2. Highest(owning) \in owning /\ FrameOf(k) <= Highest(owning)
    BY <1>2, <1>3, HighestIs
  <2>3. \A j \in owning : j \in Nat
    BY <1>3
  <2> DEFINE h == Highest(owning)
  <2>4. FrameOf(k) \in Nat /\ h \in Nat /\ FrameOf(k) <= h /\ res.frame = h
    BY <1>3, <2>1, <2>2, <2>3
  <2> HIDE DEF h
  <2> QED BY <1>4, <2>4
<1>6. CASE t # NoName
  <2>1. res = ResolveQualified(t, c)
    BY <1>1, <1>6 DEF AnswersTo
  <2>2. res.frame = Highest(binding)
    BY <1>3, <1>6, <2>1 DEF ResolveQualified
  <2> HIDE DEF binding
  <2>3. Highest(binding) \in binding /\ FrameOf(k) <= Highest(binding)
    BY <1>2, <1>3, <1>6, HighestIs
  <2>4. \A j \in binding : j \in Nat
    BY <1>3
  <2> DEFINE h == Highest(binding)
  <2>5. FrameOf(k) \in Nat /\ h \in Nat /\ FrameOf(k) <= h /\ res.frame = h
    BY <1>3, <1>6, <2>2, <2>3, <2>4
  <2> HIDE DEF h
  <2> QED BY <1>4, <2>5
<1> QED BY <1>5, <1>6

(* References resolve where the nesting says: no source that can be         *)
(* referred to owns a column reported unknown, and a column that is found   *)
(* is found in the innermost query that may own it.                         *)
THEOREM ReferencesResolveLexically == Spec => []ResolutionIsLexical
<1>1. Init => IInv /\ AskedHere
  BY InitInv DEF Init, AskedHere
<1>2. IInv /\ AskedHere => ResolutionIsLexical
  BY UnknownAreUnknown, FoundInnermost DEF ResolutionIsLexical
<1> QED BY <1>1, <1>2, StepInv, AskedStep, PTL DEF Spec
-----------------------------------------------------------------------------
(* The ON clause the walk is in, when it is in one *)
LEMMA InnermostOn ==
  ASSUME IInv, NEW ons, ons = {k \in 1..Depth : walk[k].part = "on"}, ons # {},
         NEW on, on = Highest(ons), NEW a, a = walk[on]
  PROVE  /\ on \in 1..Depth /\ a \in ActivationType /\ IsSelect(a)
         /\ a.at \in DOMAIN a.from /\ FrameOf(on) >= 1
         /\ FrameOf(on) \in Nat /\ FrameOf(on) = FramesTo(walk, on)
         /\ RightTo(walk, on) <=> a.node = "query" /\ HasRightJoin(a.from)
         /\ limit = LimitAt(a, RightTo(walk, on), FrameOf(on))
<1>1. /\ walk \in Seq(ActivationType) /\ Depth = Len(walk) /\ Depth \in Nat
      /\ limit = LimitTo(walk, Depth) /\ \A k \in 1..Depth : Shape(walk, k)
  BY TopFacts DEF IInv, Consistent, Depth
<1>2. ons = OnsTo(walk, Depth) /\ ons \in SUBSET (1..Depth)
  BY DEF OnsTo
<1>3. on \in ons
  BY <1>1, <1>2, HighestIs
<1>4. on \in 1..Depth /\ a.part = "on"
  BY <1>3
<1>5. a \in ActivationType /\ IsSelect(a) /\ a.at \in DOMAIN a.from
  BY <1>1, <1>4 DEF Shape
<1>6. FrameOf(on) >= 1 /\ FrameOf(on) \in Nat /\ FrameOf(on) = FramesTo(walk, on)
  <2>1. HasFrame(walk[on])
    BY <1>5 DEF IsSelect, HasFrame
  <2> QED BY <1>1, <1>4, <2>1, FrameIndex, NestingIs
<1>7. RightTo(walk, on) <=> a.node = "query" /\ HasRightJoin(a.from)
  <2>1. CASE a.node = "query"
    <3>1. on \in QueriesTo(walk, on) /\ QueriesTo(walk, on) \in SUBSET (1..on) /\ on \in Nat
      BY <1>4, <2>1 DEF QueriesTo
    <3>2. Highest(QueriesTo(walk, on)) = on
      BY <3>1, HighestIsLast
    <3> QED BY <2>1, <3>1, <3>2 DEF RightTo
  <2>2. CASE a.node # "query"
    <3>1. \A j \in 1..(on - 1) : walk[j].node # "query"
      BY <1>1, <1>4, <1>5, <2>2 DEF Shape, IsSelect
    <3>2. \A j \in 1..on : j = on \/ j \in 1..(on - 1)
      BY <1>4
    <3>3. QueriesTo(walk, on) = {}
      BY <2>2, <3>1, <3>2 DEF QueriesTo
    <3> QED BY <2>2, <3>3 DEF RightTo
  <2> QED BY <2>1, <2>2
<1>8. limit = LimitAt(a, RightTo(walk, on), FrameOf(on))
  BY <1>1, <1>2, <1>6 DEF LimitTo
<1> QED BY <1>4, <1>5, <1>6, <1>7, <1>8

(* A reference resolved to a named source is resolved to that source by     *)
(* resolving_source too.                                                    *)
LEMMA SameSource ==
  ASSUME IInv, NEW t \in {NoName} \cup (Bindable \ {Selected}), NEW c,
         NEW res \in AnswersTo(t, c), res.source # NoName
  PROVE  ResolvingSource(t, c, res) =
           IF res.kind = "noTable" THEN {} ELSE {<<res.frame, res.source>>}
<1>1. CASE t # NoName
  <2>1. res = ResolveQualified(t, c)
    BY <1>1 DEF AnswersTo
  <2>2. res.source = t
    BY <2>1 DEF ResolveQualified
  <2> QED BY <1>1, <2>2 DEF ResolvingSource
<1>2. CASE t = NoName
  <2> DEFINE owning == {k \in DOMAIN frames : Owns(frames[k], c)}
             named == {k \in DOMAIN frames : Owners(frames[k], c) # {}}
             h == Highest(owning)
  <2>1. res \in ResolveUnqualified(c)
    BY <1>2 DEF AnswersTo
  <2>2. /\ owning # {} /\ res.kind = "found" /\ res.frame = h
        /\ res.source \in Owners(frames[h], c)
    BY <2>1, UnqualifiedIs DEF NotFound
  <2>3. /\ Len(frames) \in Nat /\ owning \in SUBSET (1..Len(frames))
        /\ named \in SUBSET (1..Len(frames)) /\ named \subseteq owning
    BY TopFacts DEF Owns
  <2>4. h \in owning /\ \A j \in owning : j <= h
    <3> HIDE DEF owning
    <3> QED BY <2>2, <2>3, HighestIs
  <2>5. h \in named
    BY <2>2, <2>4
  <2>6. Highest(named) \in named /\ h <= Highest(named)
    <3>1. /\ named # {} /\ named \in SUBSET (1..Len(frames)) /\ Len(frames) \in Nat
          /\ h \in named
      BY <2>3, <2>5
    <3> HIDE DEF named, h
    <3>2. Highest(named) \in named /\ \A j \in named : j <= Highest(named)
      BY <3>1, HighestIs
    <3> QED BY <3>1, <3>2
  <2>7. Highest(named) \in Nat /\ h \in Nat /\ Highest(named) <= h
    <3> HIDE DEF named, owning, h
    <3>1. Highest(named) \in owning
      BY <2>3, <2>6
    <3>2. \A j \in owning : j \in Nat
      BY <2>3
    <3> QED BY <2>4, <3>1, <3>2
  <2>8. Highest(named) = h
    <3> DEFINE m == Highest(named)
    <3> HIDE DEF m, h
    <3>1. m \in Nat /\ h \in Nat /\ m <= h /\ h <= m
      BY <2>6, <2>7 DEF m
    <3> QED BY <3>1 DEF m
  <2>9. named # {}
    BY <2>5
  <2> HIDE DEF h
  <2> QED BY <1>2, <2>2, <2>8, <2>9 DEF ResolvingSource
<1> QED BY <1>1, <1>2

(* Followed, a FROM clause has a RIGHT join when the walk says it has, and  *)
(* what is beyond a join is what is joined to its right.                    *)
LEMMA FollowedIs ==
  ASSUME NEW a \in ActivationType, IsSelect(a), a.at \in DOMAIN a.from,
         NEW source, source # NoName, ~Unfollowed(a, source)
  PROVE  /\ a.from[a.at].join # "inner" \/ RightJoined(a)
              <=> \/ a.from[a.at].join # "inner"
                  \/ a.node = "query" /\ HasRightJoin(a.from)
         /\ source \in Beyond(a)
              <=> /\ \E j \in (a.at + 1)..Len(a.from) : a.from[j].bound = source
                  /\ source \notin JoinNames(a)
<1> DEFINE n == Len(a.from)
           ahead == (a.at + 1)..n
           named(S) == \E j \in S : a.from[j].bound = source
<1>1. /\ n \in Nat /\ DOMAIN a.from = 1..n /\ a.at \in 1..n
      /\ a.node \in {"query", "dml"}
  BY DEF ActivationType, IsSelect
<1>2. source \in Beyond(a) <=>
        named(DOMAIN a.from \ (FirstItem(a)..a.at)) /\ source \notin JoinNames(a)
  BY DEF Beyond
<1>3. CASE a.node = "query"
  <2>1. FirstItem(a) = 1 /\ FirstItem(a) + 1 = 2
    BY <1>3 DEF FirstItem
  <2>2. DOMAIN a.from \ (FirstItem(a)..a.at) = ahead
    BY <1>1, <2>1
  <2>3. RightJoined(a) <=> HasRightJoin(a.from)
    BY <2>1 DEF RightJoined, HasRightJoin
  <2> HIDE DEF ahead, named
  <2> QED BY <1>2, <1>3, <2>2, <2>3 DEF ahead, named
<1>4. CASE a.node = "dml"
  <2>1. a.from[1].bound # source /\ ~(RightJoined(a) /\ a.from[a.at].join = "inner")
    BY <1>4 DEF Unfollowed
  <2>2. FirstItem(a) = 2
    BY <1>4 DEF FirstItem
  <2>3. \A j \in DOMAIN a.from \ (FirstItem(a)..a.at) : j = 1 \/ j \in ahead
    BY <1>1, <2>2
  <2>4. \A j \in ahead : j \in DOMAIN a.from \ (FirstItem(a)..a.at)
    BY <1>1, <2>2
  <2>5. named(DOMAIN a.from \ (FirstItem(a)..a.at)) <=> named(ahead)
    BY <2>1, <2>3, <2>4
  <2> HIDE DEF named
  <2> QED BY <1>2, <1>4, <2>1, <2>5 DEF named
<1> QED BY <1>1, <1>3, <1>4

LEMMA OrderIsJustified ==
  ASSUME IInv, AskedHere
  PROVE  OrderErrorsAreJustified
<1> DEFINE ons == {k \in 1..Depth : walk[k].part = "on"}
           on == Highest(ons)
           a == walk[on]
           res == asked.result
           here == ons # {} /\ FrameOf(on) = res.frame
           restricted == a.from[a.at].join # "inner" \/ RightJoined(a)
           named == /\ \E j \in (a.at + 1)..Len(a.from) : a.from[j].bound = res.source
                    /\ res.source \notin JoinNames(a)
           justified == here /\ restricted /\ named
<1> SUFFICES ASSUME asked # None, res.source # NoName,
                    ~(here /\ Unfollowed(a, res.source))
             PROVE  asked.late <=> justified
  BY DEF OrderErrorsAreJustified
<1>1. /\ asked.table \in {NoName} \cup (Bindable \ {Selected})
      /\ res \in AnswersTo(asked.table, asked.column)
      /\ asked.late \in LateAnswers(asked.table, asked.column, res)
  BY AskedIs
<1>2. ResolvingSource(asked.table, asked.column, res) =
        IF res.kind = "noTable" THEN {} ELSE {<<res.frame, res.source>>}
  BY <1>1, SameSource
<1>3. asked.late <=> /\ limit # None /\ res.kind # "noTable"
                     /\ res.frame = limit.frame /\ res.source \in limit.later
  <2> DEFINE l == asked.late
             src == <<res.frame, res.source>>
             late(s) == s[1] = limit.frame /\ s[2] \in limit.later
  <2>1. CASE limit = None \/ res.kind = "noTable"
    <3>1. l = FALSE
      BY <1>1, <1>2, <2>1 DEF LateAnswers
    <3> QED BY <2>1, <3>1
  <2>2. CASE limit # None /\ res.kind # "noTable"
    <3>1. l \in {late(s) : s \in {src}}
      BY <1>1, <1>2, <2>2 DEF LateAnswers
    <3>2. l = late(src)
      BY <3>1
    <3>3. src[1] = res.frame /\ src[2] = res.source
      OBVIOUS
    <3> QED BY <2>2, <3>2, <3>3
  <2> QED BY <2>1, <2>2
<1>4. res.kind = "noTable" => res.frame = 0
  <2>1. CASE asked.table = NoName
    <3>1. res \in ResolveUnqualified(asked.column)
      BY <1>1, <2>1 DEF AnswersTo
    <3>2. res = NotFound \/ res.kind = "found"
      BY <3>1, UnqualifiedIs
    <3> QED BY <3>2 DEF NotFound
  <2>2. CASE asked.table # NoName
    <3>1. res = ResolveQualified(asked.table, asked.column)
      BY <1>1, <2>2 DEF AnswersTo
    <3> QED BY <3>1 DEF ResolveQualified
  <2> QED BY <2>1, <2>2
<1>5. CASE ons = {}
  <2>1. limit = None
    BY <1>5 DEF IInv, Consistent, LimitTo, OnsTo, Depth
  <2> QED BY <1>3, <1>5, <2>1
<1>6. CASE ons # {}
  <2> DEFINE limited == \/ a.from[a.at].join # "inner"
                        \/ a.node = "query" /\ HasRightJoin(a.from)
  <2>1. /\ a \in ActivationType /\ IsSelect(a) /\ a.at \in DOMAIN a.from
        /\ FrameOf(on) >= 1 /\ FrameOf(on) \in Nat
        /\ RightTo(walk, on) <=> a.node = "query" /\ HasRightJoin(a.from)
        /\ limit = LimitAt(a, RightTo(walk, on), FrameOf(on))
    BY <1>6, InnermostOn
  <2>2. res.frame = FrameOf(on) => ~Unfollowed(a, res.source)
    BY <1>6
  <2> HIDE DEF on, a, ons, res
  <2>3. Beyond(a) \in SUBSET Bindable
    <3>1. a.from \in Seq(Items)
      BY <2>1 DEF ActivationType
    <3>2. \A j \in DOMAIN a.from : a.from[j].bound # NoName => a.from[j].bound \in Bindable
      BY <3>1, ItemNames
    <3> QED BY <3>2 DEF Beyond
  <2>4. ASSUME res.frame = FrameOf(on)
        PROVE  (limited <=> restricted) /\ (named <=> res.source \in Beyond(a))
    BY <2>1, <2>2, <2>4, FollowedIs
  <2>5. limited => limit = [frame |-> FrameOf(on), later |-> Beyond(a)]
    BY <2>1 DEF LimitAt
  <2>6. ~limited => limit = None
    BY <2>1 DEF LimitAt
  <2> HIDE DEF restricted, named, limited
  <2>7. CASE limited
    <3> DEFINE r == [frame |-> FrameOf(on), later |-> Beyond(a)]
    <3>1. limit = r /\ r.frame = FrameOf(on) /\ r.later = Beyond(a)
      BY <2>5, <2>7
    <3>2. r \in [frame : Nat, later : SUBSET Bindable]
      BY <2>1, <2>3
    <3>3. limit # None
      BY <3>1, <3>2, WalkAssumption
    <3>4. res.kind = "noTable" => res.frame # FrameOf(on)
      BY <1>4, <2>1
    <3> HIDE DEF r
    <3> QED BY <1>3, <1>6, <2>4, <2>7, <3>1, <3>3, <3>4
  <2>8. CASE ~limited
    BY <1>3, <1>6, <2>4, <2>6, <2>8
  <2> QED BY <2>7, <2>8
<1> QED BY <1>5, <1>6

(* A reference is reported as naming a source joined to its right exactly   *)
(* when it stands in the ON clause of an outer join, or of any join of a    *)
(* FROM clause with a RIGHT or FULL join, and the source it resolves to is  *)
(* joined later, but for what the FROM clause of an UPDATE is not followed  *)
(* in (Unfollowed).                                                         *)
THEOREM OrderReportsAreJustified == Spec => []OrderErrorsAreJustified
<1>1. Init => IInv /\ AskedHere
  BY InitInv DEF Init, AskedHere
<1>2. IInv /\ AskedHere => OrderErrorsAreJustified
  BY OrderIsJustified
<1> QED BY <1>1, <1>2, StepInv, AskedStep, PTL DEF Spec
=============================================================================
