----------------------------- MODULE SequenceLemmas -----------------------------
(***************************************************************************)
(* Induction over the natural numbers, and what it shows of the sequences   *)
(* the modules are built from.                                              *)
(*                                                                         *)
(* The library's induction theorems take a predicate; here induction is     *)
(* over a set, from the well-foundedness of strict inclusion, so that a     *)
(* recursive function can be reasoned about by its values.                  *)
(***************************************************************************)
EXTENDS Integers, Sequences, SequencesExt, FiniteSetTheorems,
        WellFoundedInduction, TLAPS

LEMMA LeastNat ==
    ASSUME NEW T \in SUBSET Nat, T # {}
    PROVE  \E n \in T : \A m \in T : n <= m
<1> DEFINE R == StrictSubsetOrdering(Nat)
           D == {0..n : n \in T}
<1>1. D \subseteq FiniteSubsetsOf(Nat)
  <2>1. ASSUME NEW n \in T
        PROVE  0..n \in FiniteSubsetsOf(Nat)
    <3>1. IsFiniteSet(0..n)
      BY FS_Interval
    <3>2. 0..n \subseteq Nat
      OBVIOUS
    <3> QED BY <3>1, <3>2 DEF FiniteSubsetsOf
  <2> QED BY <2>1
<1>2. PICK x \in D : \A y \in D : <<y, x>> \notin R
  <2>1. D # {}
    OBVIOUS
  <2>2. IsWellFoundedOn(R, FiniteSubsetsOf(Nat))
    BY FS_StrictSubsetOrderingWellFounded
  <2> QED BY <1>1, <2>1, <2>2, WFMin
<1>3. PICK n \in T : x = 0..n
  BY <1>2
<1>4. ASSUME NEW m \in T, m < n
      PROVE  FALSE
  <2>1. <<0..m, 0..n>> \notin R
    BY <1>2, <1>3
  <2>2. /\ 0..m \in SUBSET Nat /\ 0..n \in SUBSET Nat
        /\ 0..m \subseteq 0..n /\ 0..m # 0..n
    BY <1>4
  <2> QED BY <2>1, <2>2 DEF StrictSubsetOrdering
<1> QED BY <1>4

LEMMA InductionOverNat ==
    ASSUME NEW S, 0 \in S, \A n \in Nat : n \in S => n + 1 \in S
    PROVE  Nat \subseteq S
<1>1. SUFFICES ASSUME Nat \ S # {}
               PROVE  FALSE
  OBVIOUS
<1>2. PICK n \in Nat \ S : \A m \in Nat \ S : n <= m
  BY <1>1, LeastNat
<1>3. n # 0 /\ n - 1 \in Nat
  BY <1>2
<1>4. n - 1 \in S
  BY <1>2, <1>3
<1> QED BY <1>2, <1>3, <1>4

-----------------------------------------------------------------------------
(* Prefixes and concatenation                                               *)

LEMMA PrefixType ==
    ASSUME NEW S, NEW q \in Seq(S), q # <<>>
    PROVE  LET r == SubSeq(q, 1, Len(q) - 1)
           IN  /\ r \in Seq(S) /\ Len(r) = Len(q) - 1
               /\ \A k \in 1..(Len(q) - 1) : r[k] = q[k]
OBVIOUS

LEMMA AppendType ==
    ASSUME NEW S, NEW q \in Seq(S), NEW e \in S, NEW r, r = Append(q, e)
    PROVE  /\ r \in Seq(S) /\ Len(r) = Len(q) + 1 /\ Len(q) \in Nat
           /\ r[Len(q) + 1] = e /\ \A k \in 1..Len(q) : r[k] = q[k]
OBVIOUS

LEMMA ReplaceType ==
    ASSUME NEW S, NEW q \in Seq(S), NEW k \in 1..Len(q), NEW e \in S,
           NEW r, r = [q EXCEPT ![k] = e]
    PROVE  /\ r \in Seq(S) /\ Len(r) = Len(q) /\ r[k] = e
           /\ \A i \in 1..Len(q) : i # k => r[i] = q[i]
OBVIOUS

-----------------------------------------------------------------------------
(* FlattenSeq                                                               *)

Flattened(q, f) ==
    f = [i \in 1..Len(q) |-> IF i = 1 THEN q[i] ELSE f[i - 1] \o q[i]]

LEMMA FlattenEquation ==
    ASSUME NEW S, NEW q \in Seq(Seq(S)), Len(q) # 0
    PROVE  \E f : Flattened(q, f) /\ FlattenSeq(q) = f[Len(q)]
<1> DEFINE E(f, n) ==
             f = [i \in 1..n |-> IF i = 1 THEN q[i] ELSE f[i - 1] \o q[i]]
           I == {n \in Nat : \E f : E(f, n)}
<1>1. 0 \in I
  <2> DEFINE f == [i \in 1..0 |-> 0]
  <2>1. E(f, 0)
    OBVIOUS
  <2> HIDE DEF f
  <2> QED BY <2>1
<1>2. ASSUME NEW n \in Nat, n \in I
      PROVE  n + 1 \in I
  <2>1. PICK f : E(f, n)
    BY <1>2
  <2> DEFINE g == [i \in 1..(n + 1) |->
                     IF i = 1 THEN q[i]
                     ELSE IF i = n + 1 THEN f[n] \o q[i] ELSE f[i]]
  <2>2. ASSUME NEW i \in 1..(n + 1), i # 1
        PROVE  g[i] = g[i - 1] \o q[i]
    <3>1. /\ i - 1 \in 1..n /\ i - 1 \in 1..(n + 1)
          /\ g[i] = IF i = n + 1 THEN f[n] \o q[i] ELSE f[i]
      BY <2>2
    <3>2. \A k \in 1..n : g[k] = f[k]
      BY <2>1
    <3>3. \A k \in 1..n :
             f[k] = IF k = 1 THEN q[k] ELSE f[k - 1] \o q[k]
      BY <2>1
    <3>4. CASE i = n + 1
      <4>1. i - 1 = n
        BY <3>4
      <4>2. g[i - 1] = f[n] /\ g[i] = f[n] \o q[i]
        BY <3>1, <3>2, <3>4, <4>1
      <4> QED BY <4>2
    <3>5. CASE i # n + 1
      <4>1. i \in 1..n
        BY <3>5
      <4>2. f[i] = f[i - 1] \o q[i]
        BY <2>2, <3>3, <4>1
      <4>3. g[i - 1] = f[i - 1] /\ g[i] = f[i]
        BY <3>1, <3>2, <3>5
      <4> QED BY <4>2, <4>3
    <3> QED BY <3>4, <3>5
  <2>3. \A i \in 1..(n + 1) : i = 1 => g[i] = q[i]
    OBVIOUS
  <2>4. g = [i \in 1..(n + 1) |-> g[i]]
    OBVIOUS
  <2> HIDE DEF g
  <2>5. \A i \in 1..(n + 1) :
           g[i] = IF i = 1 THEN q[i] ELSE g[i - 1] \o q[i]
    BY <2>2, <2>3
  <2>6. E(g, n + 1)
    BY <2>4, <2>5
  <2> HIDE DEF E
  <2> QED BY <2>6
<1>3. Len(q) \in I
  <2> HIDE DEF I
  <2> QED BY <1>1, <1>2, InductionOverNat, SMTT(30)
<1>4. FlattenSeq(q) =
        (CHOOSE g : E(g, Len(q)))[Len(q)]
  BY DEF FlattenSeq
<1>5. E(CHOOSE g : E(g, Len(q)), Len(q))
  <2>1. PICK f : E(f, Len(q))
    BY <1>3
  <2> QED BY <2>1
<1> QED BY <1>4, <1>5 DEF Flattened

LEMMA FlattenStep ==
    ASSUME NEW q, NEW f, Flattened(q, f), NEW n \in Nat, n + 1 \in 1..Len(q)
    PROVE  f[n + 1] = IF n = 0 THEN q[n + 1] ELSE f[n] \o q[n + 1]
<1>1. f[n + 1] = IF n + 1 = 1 THEN q[n + 1] ELSE f[(n + 1) - 1] \o q[n + 1]
  BY DEF Flattened
<1>2. (n + 1) - 1 = n
  OBVIOUS
<1> QED BY <1>1, <1>2

LEMMA FlattenType ==
    ASSUME NEW S, NEW q \in Seq(Seq(S))
    PROVE  FlattenSeq(q) \in Seq(S)
<1>1. CASE Len(q) = 0
  BY <1>1 DEF FlattenSeq
<1>2. CASE Len(q) # 0
  <2>1. PICK f : Flattened(q, f) /\ FlattenSeq(q) = f[Len(q)]
    BY <1>2, FlattenEquation
  <2> DEFINE I == {n \in Nat : n \in 1..Len(q) => f[n] \in Seq(S)}
  <2>2. ASSUME NEW n \in Nat, n \in I
        PROVE  n + 1 \in I
    <3>1. SUFFICES ASSUME n + 1 \in 1..Len(q)
                   PROVE  f[n + 1] \in Seq(S)
      OBVIOUS
    <3>2. q[n + 1] \in Seq(S)
      BY <3>1
    <3>3. f[n + 1] = IF n = 0 THEN q[n + 1] ELSE f[n] \o q[n + 1]
      BY <2>1, <3>1, FlattenStep
    <3> QED BY <2>2, <3>1, <3>2, <3>3
  <2>3. 0 \in I
    OBVIOUS
  <2> HIDE DEF I
  <2>4. Len(q) \in I
    BY <2>2, <2>3, InductionOverNat, SMTT(30)
  <2> QED BY <1>2, <2>1, <2>4 DEF I
<1> QED BY <1>1, <1>2

LEMMA ConcatType ==
    ASSUME NEW S, NEW s \in Seq(S), NEW t \in Seq(S)
    PROVE  s \o t \in Seq(S) /\ Len(s \o t) = Len(s) + Len(t)
OBVIOUS

LEMMA ConcatParts ==
    ASSUME NEW S, NEW a \in Seq(S), NEW b \in Seq(S)
    PROVE  /\ Len(a) \in Nat /\ Len(b) \in Nat
           /\ a \o b \in Seq(S) /\ Len(a \o b) = Len(a) + Len(b)
           /\ \A k \in 1..Len(a) : (a \o b)[k] = a[k]
           /\ \A k \in 1..Len(b) : (a \o b)[Len(a) + k] = b[k]
OBVIOUS

LEMMA SeqOfElements ==
    ASSUME NEW S, NEW K, NEW x \in Seq(S), \A k \in 1..Len(x) : x[k] \in K
    PROVE  x \in Seq(K)
OBVIOUS

(* Two sequences whose elements at the same places are in R. *)
Related(R, x, y) ==
    Len(x) = Len(y) /\ \A k \in 1..Len(x) : <<x[k], y[k]>> \in R

LEMMA ConcatRelated ==
    ASSUME NEW S, NEW T, NEW R,
           NEW x \in Seq(S), NEW y \in Seq(T), NEW u \in Seq(S), NEW v \in Seq(T),
           Related(R, x, y), Related(R, u, v)
    PROVE  Related(R, x \o u, y \o v)
<1>0. Len(y) = Len(x) /\ Len(v) = Len(u)
  BY DEF Related
<1>1. PICK a : a = x \o u
  OBVIOUS
<1>2. PICK b : b = y \o v
  OBVIOUS
<1>3. /\ Len(a) = Len(x) + Len(u) /\ Len(x) \in Nat /\ Len(u) \in Nat
      /\ \A k \in 1..Len(x) : a[k] = x[k]
      /\ \A k \in 1..Len(u) : a[Len(x) + k] = u[k]
  BY <1>1, ConcatParts
<1>4. /\ Len(b) = Len(y) + Len(v)
      /\ \A k \in 1..Len(y) : b[k] = y[k]
      /\ \A k \in 1..Len(v) : b[Len(y) + k] = v[k]
  BY <1>2, ConcatParts
<1>5. ASSUME NEW k \in 1..(Len(x) + Len(u))
      PROVE  <<a[k], b[k]>> \in R
  <2>1. CASE k <= Len(x)
    <3>1. k \in 1..Len(x)
      BY <1>3, <2>1
    <3> QED BY <1>0, <1>3, <1>4, <3>1 DEF Related
  <2>2. CASE ~(k <= Len(x))
    <3>1. k - Len(x) \in 1..Len(u) /\ Len(x) + (k - Len(x)) = k
      BY <1>3, <2>2
    <3>2. <<u[k - Len(x)], v[k - Len(x)]>> \in R
      BY <3>1 DEF Related
    <3> QED BY <1>0, <1>3, <1>4, <3>1, <3>2
  <2> QED BY <2>1, <2>2
<1>6. Related(R, a, b)
  BY <1>0, <1>3, <1>4, <1>5 DEF Related
<1> QED BY <1>1, <1>2, <1>6

(* What relates the parts one by one relates the wholes.                   *)
LEMMA FlattenRelated ==
    ASSUME NEW S, NEW T, NEW R, NEW q \in Seq(Seq(S)), NEW r \in Seq(Seq(T)),
           Len(q) = Len(r), \A i \in 1..Len(q) : Related(R, q[i], r[i])
    PROVE  Related(R, FlattenSeq(q), FlattenSeq(r))
<1>1. CASE Len(q) = 0
  <2>1. q = <<>> /\ r = <<>>
    <3>1. \A x : x \in Seq(Seq(S)) /\ Len(x) = 0 => x = <<>>
      OBVIOUS
    <3>2. \A x : x \in Seq(Seq(T)) /\ Len(x) = 0 => x = <<>>
      OBVIOUS
    <3> QED BY <1>1, <3>1, <3>2
  <2>2. FlattenSeq(<<>>) = <<>> /\ Len(<<>>) = 0
    BY DEF FlattenSeq
  <2>3. Related(R, <<>>, <<>>)
    BY DEF Related
  <2> QED BY <2>1, <2>2, <2>3
<1>2. CASE Len(q) # 0
  <2>1. PICK f : Flattened(q, f) /\ FlattenSeq(q) = f[Len(q)]
    BY <1>2, FlattenEquation
  <2>2. PICK g : Flattened(r, g) /\ FlattenSeq(r) = g[Len(r)]
    BY <1>2, FlattenEquation
  <2> DEFINE I == {n \in Nat : n \in 1..Len(q) =>
                     f[n] \in Seq(S) /\ g[n] \in Seq(T) /\ Related(R, f[n], g[n])}
  <2>3. ASSUME NEW n \in Nat, n \in I
        PROVE  n + 1 \in I
    <3>1. SUFFICES ASSUME n + 1 \in 1..Len(q)
                   PROVE  /\ f[n + 1] \in Seq(S) /\ g[n + 1] \in Seq(T)
                          /\ Related(R, f[n + 1], g[n + 1])
      OBVIOUS
    <3>2. /\ q[n + 1] \in Seq(S) /\ r[n + 1] \in Seq(T)
          /\ Related(R, q[n + 1], r[n + 1])
      BY <3>1
    <3>3. f[n + 1] = IF n = 0 THEN q[n + 1] ELSE f[n] \o q[n + 1]
      BY <2>1, <3>1, FlattenStep
    <3>4. g[n + 1] = IF n = 0 THEN r[n + 1] ELSE g[n] \o r[n + 1]
      BY <2>2, <3>1, FlattenStep
    <3>5. n # 0 => n \in 1..Len(q)
      BY <3>1
    <3>6. CASE n = 0
      BY <3>2, <3>3, <3>4, <3>6
    <3>7. CASE n # 0
      <4>1. f[n] \in Seq(S) /\ g[n] \in Seq(T) /\ Related(R, f[n], g[n])
        BY <2>3, <3>5, <3>7
      <4>2. f[n + 1] = f[n] \o q[n + 1] /\ g[n + 1] = g[n] \o r[n + 1]
        BY <3>3, <3>4, <3>7
      <4>3. Related(R, f[n] \o q[n + 1], g[n] \o r[n + 1])
        BY <3>2, <4>1, ConcatRelated
      <4>4. f[n] \o q[n + 1] \in Seq(S) /\ g[n] \o r[n + 1] \in Seq(T)
        BY <3>2, <4>1, ConcatType
      <4> QED BY <4>2, <4>3, <4>4
    <3> QED BY <3>6, <3>7
  <2>4. 0 \in I /\ Len(q) \in Nat
    OBVIOUS
  <2> HIDE DEF I
  <2>5. Len(q) \in I
    BY <2>3, <2>4, InductionOverNat
  <2> QED BY <1>2, <2>1, <2>2, <2>5 DEF I
<1> QED BY <1>1, <1>2

LEMMA FlattenLen ==
    ASSUME NEW S, NEW T, NEW q \in Seq(Seq(S)), NEW r \in Seq(Seq(T)),
           Len(q) = Len(r), \A i \in 1..Len(q) : Len(q[i]) = Len(r[i])
    PROVE  Len(FlattenSeq(q)) = Len(FlattenSeq(r))
<1>1. ASSUME NEW i \in 1..Len(q)
      PROVE  Related(S \X T, q[i], r[i])
  <2>1. /\ q[i] \in Seq(S) /\ r[i] \in Seq(T) /\ Len(q[i]) = Len(r[i])
    OBVIOUS
  <2>2. \A k \in 1..Len(q[i]) : q[i][k] \in S /\ r[i][k] \in T
    BY <2>1
  <2> QED BY <2>1, <2>2 DEF Related
<1>2. Related(S \X T, FlattenSeq(q), FlattenSeq(r))
  BY <1>1, FlattenRelated
<1> QED BY <1>2 DEF Related

LEMMA ConcatAssoc ==
    ASSUME NEW S, NEW a \in Seq(S), NEW b \in Seq(S), NEW c \in Seq(S)
    PROVE  (a \o b) \o c = a \o (b \o c)
OBVIOUS

LEMMA NumbersAssociate ==
    ASSUME NEW x \in Seq(Nat), NEW y \in Seq(Nat), NEW z \in Seq(Nat)
    PROVE  (x \o y) \o z = x \o (y \o z)
OBVIOUS

LEMMA FlattenSnoc ==
    ASSUME NEW S, NEW q \in Seq(Seq(S)), NEW s \in Seq(S)
    PROVE  FlattenSeq(Append(q, s)) = FlattenSeq(q) \o s
<1> DEFINE p == Append(q, s)
           n == Len(q)
<1>1. /\ p \in Seq(Seq(S)) /\ Len(p) = n + 1 /\ n \in Nat /\ p[n + 1] = s
      /\ \A k \in 1..n : p[k] = q[k]
  BY AppendType
<1> HIDE DEF p
<1>2. PICK f : Flattened(p, f) /\ FlattenSeq(p) = f[n + 1]
  <2>1. Len(p) # 0
    BY <1>1
  <2> QED BY <1>1, <2>1, FlattenEquation
<1>3. f[n + 1] = IF n = 0 THEN s ELSE f[n] \o s
  BY <1>1, <1>2, FlattenStep
<1>4. CASE n = 0
  <2>1. FlattenSeq(q) = <<>>
    BY <1>4 DEF FlattenSeq
  <2> QED BY <1>2, <1>3, <1>4, <2>1 DEF p
<1>5. CASE n # 0
  <2>1. PICK g : Flattened(q, g) /\ FlattenSeq(q) = g[n]
    BY <1>5, FlattenEquation
  <2> DEFINE I == {k \in Nat : k \in 1..n => f[k] = g[k]}
  <2>2. 0 \in I
    OBVIOUS
  <2>3. ASSUME NEW k \in Nat, k \in I
        PROVE  k + 1 \in I
    <3>1. SUFFICES ASSUME k + 1 \in 1..n
                   PROVE  f[k + 1] = g[k + 1]
      OBVIOUS
    <3>2. k + 1 \in 1..Len(p) /\ p[k + 1] = q[k + 1] /\ (k # 0 => k \in 1..n)
      BY <1>1, <3>1
    <3>3. f[k + 1] = IF k = 0 THEN p[k + 1] ELSE f[k] \o p[k + 1]
      BY <1>2, <3>2, FlattenStep
    <3>4. g[k + 1] = IF k = 0 THEN q[k + 1] ELSE g[k] \o q[k + 1]
      BY <2>1, <3>1, FlattenStep
    <3> QED BY <2>3, <3>2, <3>3, <3>4
  <2> HIDE DEF I
  <2>4. n \in I
    BY <1>1, <2>2, <2>3, InductionOverNat
  <2>5. f[n] = g[n]
    BY <1>1, <1>5, <2>4 DEF I
  <2> QED BY <1>2, <1>3, <1>5, <2>1, <2>5 DEF p
<1> QED BY <1>4, <1>5

LEMMA FlattenConcat ==
    ASSUME NEW S, NEW q \in Seq(Seq(S)), NEW r \in Seq(Seq(S))
    PROVE  FlattenSeq(q \o r) = FlattenSeq(q) \o FlattenSeq(r)
<1> DEFINE P(t) == FlattenSeq(q \o t) = FlattenSeq(q) \o FlattenSeq(t)
           I == {n \in Nat : \A t \in Seq(Seq(S)) : Len(t) = n => P(t)}
<1>1. 0 \in I
  <2>1. SUFFICES ASSUME NEW t \in Seq(Seq(S)), Len(t) = 0
                 PROVE  P(t)
    OBVIOUS
  <2>2. t = <<>> /\ q \o t = q /\ FlattenSeq(t) = <<>>
    BY <2>1 DEF FlattenSeq
  <2>3. FlattenSeq(q) \in Seq(S)
    BY FlattenType
  <2>4. FlattenSeq(q) \o <<>> = FlattenSeq(q)
    BY <2>3
  <2> QED BY <2>2, <2>4
<1>2. ASSUME NEW n \in Nat, n \in I
      PROVE  n + 1 \in I
  <2>1. SUFFICES ASSUME NEW t \in Seq(Seq(S)), Len(t) = n + 1
                 PROVE  P(t)
    OBVIOUS
  <2> DEFINE front == SubSeq(t, 1, n)
             last == t[n + 1]
  <2>2. /\ front \in Seq(Seq(S)) /\ Len(front) = n /\ last \in Seq(S)
        /\ t = Append(front, last)
    BY <2>1
  <2>3. q \o t = Append(q \o front, last) /\ q \o front \in Seq(Seq(S))
    <3> HIDE DEF front, last
    <3> QED BY <2>2
  <2>4. P(front)
    BY <1>2, <2>2
  <2> HIDE DEF front, last
  <2>5. FlattenSeq(q \o t) = FlattenSeq(q \o front) \o last
    BY <2>2, <2>3, FlattenSnoc
  <2>6. FlattenSeq(t) = FlattenSeq(front) \o last
    BY <2>2, FlattenSnoc
  <2>7. /\ FlattenSeq(q) \in Seq(S) /\ FlattenSeq(front) \in Seq(S)
    BY <2>2, FlattenType
  <2>8. (FlattenSeq(q) \o FlattenSeq(front)) \o last
          = FlattenSeq(q) \o (FlattenSeq(front) \o last)
    BY <2>2, <2>7, ConcatAssoc, SMTT(30)
  <2> QED BY <2>4, <2>5, <2>6, <2>8
<1> HIDE DEF I
<1>3. Nat \subseteq I
  BY <1>1, <1>2, InductionOverNat
<1>4. Len(r) \in Nat
  OBVIOUS
<1> QED BY <1>3, <1>4 DEF I

LEMMA FlattenSingle ==
    ASSUME NEW S, NEW s \in Seq(S)
    PROVE  FlattenSeq(<<s>>) = s
<1>1. <<>> \in Seq(Seq(S)) /\ FlattenSeq(<<>>) = <<>> /\ Append(<<>>, s) = <<s>>
  BY DEF FlattenSeq
<1>2. <<>> \o s = s
  OBVIOUS
<1> QED BY <1>1, <1>2, FlattenSnoc

(* Nothing but empty sequences.                                             *)
LEMMA FlattenEmpty ==
    ASSUME NEW q, NEW n \in Nat, q = [i \in 1..n |-> <<>>]
    PROVE  FlattenSeq(q) = <<>>
<1> DEFINE E(k) == [i \in 1..k |-> <<>>]
           I == {k \in Nat : FlattenSeq(E(k)) = <<>>}
<1>1. 0 \in I
  <2>1. E(0) = <<>>
    OBVIOUS
  <2> HIDE DEF E
  <2> QED BY <2>1 DEF FlattenSeq
<1>2. ASSUME NEW k \in Nat, k \in I
      PROVE  k + 1 \in I
  <2>1. /\ E(k) \in Seq(Seq({})) /\ E(k + 1) = Append(E(k), <<>>)
        /\ <<>> \in Seq({}) /\ <<>> \o <<>> = <<>>
    OBVIOUS
  <2> HIDE DEF E
  <2>2. FlattenSeq(E(k + 1)) = FlattenSeq(E(k)) \o <<>>
    BY <2>1, FlattenSnoc
  <2> QED BY <1>2, <2>1, <2>2
<1> HIDE DEF I
<1>3. n \in I
  BY <1>1, <1>2, InductionOverNat
<1> QED BY <1>3 DEF I

-----------------------------------------------------------------------------
(* The elements of sequences put together and taken apart *)

LEMMA FunctionIsSequence ==
    ASSUME NEW S, NEW n \in Nat, NEW z \in [1..n -> S]
    PROVE  z \in Seq(S) /\ Len(z) = n
OBVIOUS

LEMMA ConcatIs ==
    ASSUME NEW S, NEW s \in Seq(S), NEW t \in Seq(S), NEW z \in Seq(S),
           Len(z) = Len(s) + Len(t),
           \A i \in 1..Len(z) : z[i] = IF i <= Len(s) THEN s[i] ELSE t[i - Len(s)]
    PROVE  z = s \o t
<1> DEFINE c == s \o t
<1>1. /\ c \in Seq(S) /\ Len(c) = Len(z)
      /\ \A i \in 1..Len(z) : c[i] = IF i <= Len(s) THEN s[i] ELSE t[i - Len(s)]
  OBVIOUS
<1>2. DOMAIN c = 1..Len(z) /\ DOMAIN z = 1..Len(z)
  BY <1>1
<1> HIDE DEF c
<1>3. \A i \in 1..Len(z) : c[i] = z[i]
  BY <1>1
<1>4. z = c
  BY <1>1, <1>2, <1>3
<1> QED BY <1>4 DEF c

LEMMA ConcatElements ==
    ASSUME NEW S, NEW a \in Seq(S), NEW b \in Seq(S)
    PROVE  /\ \A i \in DOMAIN (a \o b) :
                \/ i \in DOMAIN a /\ (a \o b)[i] = a[i]
                \/ \E j \in DOMAIN b : (a \o b)[i] = b[j]
           /\ \A i \in DOMAIN a : i \in DOMAIN (a \o b) /\ (a \o b)[i] = a[i]
OBVIOUS

LEMMA TailElements ==
    ASSUME NEW S, NEW q \in Seq(S), q # <<>>
    PROVE  /\ Len(q) \in Nat \ {0} /\ Len(Tail(q)) = Len(q) - 1
           /\ DOMAIN q = 1..Len(q) /\ DOMAIN Tail(q) = 1..(Len(q) - 1)
           /\ Head(q) = q[1] /\ Tail(q) \in Seq(S)
           /\ \A i \in 1..(Len(q) - 1) : Tail(q)[i] = q[i + 1] /\ i + 1 \in 1..Len(q)
OBVIOUS

LEMMA SameUpTo ==
    ASSUME NEW a \in Nat, NEW b \in Nat, 1..a = 1..b
    PROVE  a = b
<1>1. ~(a < b)
  <2> SUFFICES ASSUME a < b PROVE FALSE
    OBVIOUS
  <2>1. b \in 1..b /\ b \notin 1..a
    OBVIOUS
  <2> QED BY <2>1
<1>2. ~(b < a)
  <2> SUFFICES ASSUME b < a PROVE FALSE
    OBVIOUS
  <2>1. a \in 1..a /\ a \notin 1..b
    OBVIOUS
  <2> QED BY <2>1
<1> QED BY <1>1, <1>2

LEMMA AppendElements ==
    ASSUME NEW S, NEW q \in Seq(S), NEW e \in S
    PROVE  /\ Append(q, e) \in Seq(S) /\ Len(Append(q, e)) = Len(q) + 1
           /\ Len(q) \in Nat /\ DOMAIN q = 1..Len(q)
           /\ DOMAIN Append(q, e) = 1..(Len(q) + 1)
           /\ Append(q, e)[Len(q) + 1] = e
           /\ \A i \in 1..Len(q) : Append(q, e)[i] = q[i]
           /\ \A i \in 1..(Len(q) + 1) : i \in 1..Len(q) \/ i = Len(q) + 1
OBVIOUS

(* What holds of every element of the whole holds of every part's.         *)
LEMMA FlattenElements ==
    ASSUME NEW S, NEW K, NEW q \in Seq(Seq(S)), FlattenSeq(q) \in Seq(K)
    PROVE  \A i \in 1..Len(q) : q[i] \in Seq(K)
<1> DEFINE I == {n \in Nat : \A p \in Seq(Seq(S)) :
                   Len(p) = n /\ FlattenSeq(p) \in Seq(K)
                     => \A i \in 1..n : p[i] \in Seq(K)}
<1>1. 0 \in I
  OBVIOUS
<1>2. ASSUME NEW n \in Nat, n \in I
      PROVE  n + 1 \in I
  <2>1. SUFFICES ASSUME NEW p \in Seq(Seq(S)), Len(p) = n + 1, FlattenSeq(p) \in Seq(K),
                        NEW i \in 1..(n + 1)
                 PROVE  p[i] \in Seq(K)
    OBVIOUS
  <2> DEFINE front == SubSeq(p, 1, n)
             last == p[n + 1]
  <2>2. /\ front \in Seq(Seq(S)) /\ Len(front) = n /\ last \in Seq(S)
        /\ p = Append(front, last) /\ \A k \in 1..n : front[k] = p[k]
    BY <2>1
  <2> HIDE DEF front
  <2>3. FlattenSeq(p) = FlattenSeq(front) \o last
    BY <2>2, FlattenSnoc
  <2>4. FlattenSeq(front) \in Seq(S)
    BY <2>2, FlattenType
  <2>5. FlattenSeq(front) \in Seq(K) /\ last \in Seq(K)
    <3> DEFINE x == FlattenSeq(front)
               z == x \o last
    <3>1. x \in Seq(S) /\ last \in Seq(S) /\ z \in Seq(K)
      BY <2>1, <2>2, <2>3, <2>4
    <3> HIDE DEF x, last
    <3>2. Len(z) = Len(x) + Len(last)
      BY <3>1
    <3>3. \A k \in 1..Len(x) : x[k] = z[k] /\ k \in 1..Len(z)
      BY <3>1
    <3>4. \A k \in 1..Len(last) : last[k] = z[Len(x) + k] /\ Len(x) + k \in 1..Len(z)
      BY <3>1
    <3> HIDE DEF z
    <3>5. \A k \in 1..Len(z) : z[k] \in K
      BY <3>1
    <3>6. x \in Seq(K)
      BY <3>1, <3>3, <3>5, SeqOfElements
    <3>7. last \in Seq(K)
      BY <3>1, <3>4, <3>5, SeqOfElements
    <3> QED BY <3>6, <3>7 DEF x
  <2>6. \A k \in 1..n : front[k] \in Seq(K)
    BY <1>2, <2>2, <2>5
  <2> QED BY <2>2, <2>5, <2>6
<1> HIDE DEF I
<1>3. Nat \subseteq I
  BY <1>1, <1>2, InductionOverNat
<1>4. Len(q) \in Nat
  OBVIOUS
<1> QED BY <1>3, <1>4 DEF I

LEMMA FlattenSingles ==
    ASSUME NEW S, NEW s \in Seq(S)
    PROVE  FlattenSeq([k \in 1..Len(s) |-> <<s[k]>>]) = s
<1> DEFINE E(t) == [k \in 1..Len(t) |-> <<t[k]>>]
           I == {n \in Nat : \A t \in Seq(S) : Len(t) = n => FlattenSeq(E(t)) = t}
<1>1. 0 \in I
  <2>1. ASSUME NEW t \in Seq(S), Len(t) = 0
        PROVE  E(t) = <<>> /\ t = <<>>
    BY <2>1
  <2>2. FlattenSeq(<<>>) = <<>>
    BY DEF FlattenSeq
  <2> HIDE DEF E
  <2> QED BY <2>1, <2>2
<1>2. ASSUME NEW n \in Nat, n \in I
      PROVE  n + 1 \in I
  <2>1. SUFFICES ASSUME NEW t \in Seq(S), Len(t) = n + 1
                 PROVE  FlattenSeq(E(t)) = t
    OBVIOUS
  <2> DEFINE front == SubSeq(t, 1, n)
             last == t[n + 1]
  <2>2. front \in Seq(S) /\ Len(front) = n /\ last \in S /\ t = Append(front, last)
    BY <2>1
  <2>3. /\ E(front) \in Seq(Seq(S)) /\ Len(E(front)) = n
        /\ \A k \in 1..n : E(front)[k] = <<t[k]>>
    BY <2>1
  <2>4. E(t) = Append(E(front), <<last>>)
    <3>1. Append(E(front), <<last>>)
             = [k \in 1..(n + 1) |-> IF k = n + 1 THEN <<last>> ELSE E(front)[k]]
      <4> HIDE DEF E
      <4> QED BY <2>3
    <3>2. E(t) = [k \in 1..(n + 1) |-> <<t[k]>>]
      BY <2>1
    <3> QED BY <2>3, <3>1, <3>2
  <2> HIDE DEF E, front, last
  <2>5. FlattenSeq(E(t)) = FlattenSeq(E(front)) \o <<last>>
    <3>1. <<last>> \in Seq(S)
      BY <2>2
    <3> QED BY <2>3, <2>4, <3>1, FlattenSnoc
  <2>6. FlattenSeq(E(front)) = front
    BY <1>2, <2>2
  <2>7. front \o <<last>> = t
    BY <2>2
  <2> QED BY <2>5, <2>6, <2>7
<1> HIDE DEF I, E
<1>3. Len(s) \in I
  BY <1>1, <1>2, InductionOverNat
<1>4. FlattenSeq(E(s)) = s
  BY <1>3 DEF I
<1> QED BY <1>4 DEF E
=============================================================================
