--------------------------- MODULE BenchmarkProofs ---------------------------
(***************************************************************************)
(* What the benchmark measures, for any case files, arms, limits, floors   *)
(* and models: proofs about module Benchmark.                              *)
(***************************************************************************)
EXTENDS Benchmark, FiniteSetTheorems, FunctionTheorems, SequenceTheorems, NaturalsInduction,
        WellFoundedInduction, TLAPS

(* A set of numbers has a least one.                                       *)
LEMMA LeastOf ==
  ASSUME NEW T \in SUBSET Nat, T # {}
  PROVE  \E x \in T : \A y \in T : x <= y
<1> DEFINE R == OpToRel(<, Nat)
<1>1. \E x \in T : \A y \in T : ~ (<<y, x>> \in R)
  BY NatLessThanWellFounded, WFMin
<1>2. \A x, y \in Nat : y < x => <<y, x>> \in R
  BY DEF OpToRel
<1> HIDE DEF R
<1>3. PICK x \in T : \A y \in T : ~ (<<y, x>> \in R)
  BY <1>1
<1>4. ASSUME NEW y \in T PROVE x <= y
  <2>1. ~ (y < x) /\ x \in Nat /\ y \in Nat
    BY <1>2, <1>3
  <2> QED BY <2>1
<1> QED BY <1>4

(* A finite set of numbers has a bound, and a greatest number.             *)
LEMMA FiniteIsBounded ==
  ASSUME NEW T \in SUBSET Nat, IsFiniteSet(T)
  PROVE  \E m \in Nat : \A y \in T : y <= m
<1> DEFINE Bounded(S) == \E m \in Nat : \A y \in S : y <= m
           Bad == {n \in Nat : \E S \in SUBSET Nat :
                     IsFiniteSet(S) /\ Cardinality(S) = n /\ ~Bounded(S)}
<1>1. SUFFICES ASSUME ~Bounded(T) PROVE FALSE
  OBVIOUS
<1>2. Cardinality(T) \in Nat
  BY FS_CardinalityType
<1>3. Bad \in SUBSET Nat /\ Bad # {}
  BY <1>1, <1>2
<1>4. PICK n \in Bad : \A k \in Bad : n <= k
  <2> HIDE DEF Bad
  <2> QED BY <1>3, LeastOf
<1>5. PICK S \in SUBSET Nat : IsFiniteSet(S) /\ Cardinality(S) = n /\ ~Bounded(S)
  BY <1>4
<1>6. S # {}
  <2>1. S = {} => Bounded(S)
    OBVIOUS
  <2> QED BY <1>5, <2>1
<1>7. PICK x \in S : TRUE
  BY <1>6
<1>8. IsFiniteSet(S \ {x}) /\ Cardinality(S \ {x}) = n - 1 /\ n \in Nat
  BY <1>5, FS_RemoveElement, FS_CardinalityType
<1>9. n - 1 \in Nat
  BY <1>8, FS_CardinalityType
<1>10. Bounded(S \ {x})
  <2>1. n - 1 \notin Bad
    <3>1. ~(n <= n - 1)
      BY <1>8
    <3> QED BY <1>4, <3>1
  <2> QED BY <1>8, <1>9, <2>1
<1>11. PICK m \in Nat : \A y \in S \ {x} : y <= m
  BY <1>10
<1>12. Bounded(S)
  <2>1. CASE x <= m
    BY <1>11, <2>1
  <2>2. CASE ~(x <= m)
    <3>1. x \in Nat /\ \A y \in S : y <= x
      BY <1>11, <2>2
    <3> QED BY <3>1
  <2> QED BY <2>1, <2>2
<1> QED BY <1>5, <1>12

LEMMA GreatestOf ==
  ASSUME NEW T \in SUBSET Nat, IsFiniteSet(T), T # {}
  PROVE  Max(T) \in T /\ \A y \in T : Max(T) >= y
<1> DEFINE U == {m \in Nat : \A y \in T : y <= m}
<1>1. U \in SUBSET Nat /\ U # {}
  BY FiniteIsBounded
<1>2. PICK u \in U : \A m \in U : u <= m
  <2> HIDE DEF U
  <2> QED BY <1>1, LeastOf
<1>3. u \in T
  <2> SUFFICES ASSUME u \notin T PROVE FALSE
    OBVIOUS
  <2>1. u \in Nat /\ \A y \in T : y \in Nat /\ y <= u /\ y # u
    BY <1>2
  <2>2. u # 0
    <3>1. PICK y \in T : TRUE
      OBVIOUS
    <3>2. y \in Nat /\ y <= u /\ y # u
      BY <2>1
    <3> QED BY <3>2
  <2>3. u - 1 \in Nat /\ \A y \in T : y <= u - 1
    BY <2>1, <2>2
  <2>4. u - 1 \in U
    BY <2>3
  <2> QED BY <1>2, <2>1, <2>4
<1>4. \E x \in T : \A y \in T : x >= y
  <2>1. \A y \in T : u >= y
    BY <1>2
  <2> QED BY <1>3, <2>1
<1> QED BY <1>4 DEF Max

(* A set of places, up to one of them.                                     *)
UpTo(P, i) == {j \in P : j <= i}

LEMMA UpToFinite ==
  ASSUME NEW n \in Nat, NEW P, P \subseteq 1..n, NEW i
  PROVE  /\ UpTo(P, i) \subseteq P /\ IsFiniteSet(P) /\ IsFiniteSet(UpTo(P, i))
         /\ Cardinality(UpTo(P, i)) \in Nat
<1>1. IsFiniteSet(1..n)
  BY FS_Interval
<1>2. IsFiniteSet(P)
  BY <1>1, FS_Subset
<1>3. UpTo(P, i) \subseteq P
  BY DEF UpTo
<1> QED BY <1>2, <1>3, FS_Subset, FS_CardinalityType

(* One place further, the count grows by one if the place is in the set.   *)
LEMMA UpToNext ==
  ASSUME NEW n \in Nat, NEW P, P \subseteq 1..n, NEW i \in Nat, i > 0
  PROVE  Cardinality(UpTo(P, i)) =
           IF i \in P THEN Cardinality(UpTo(P, i - 1)) + 1 ELSE Cardinality(UpTo(P, i - 1))
<1>1. \A j : j \in UpTo(P, i) <=> j \in P /\ j <= i
  BY DEF UpTo
<1>2. \A j : j \in UpTo(P, i - 1) <=> j \in P /\ j <= i - 1
  BY DEF UpTo
<1>3. \A j \in P : j <= i <=> j <= i - 1 \/ j = i
  OBVIOUS
<1>4. CASE i \in P
  <2>1. i \notin UpTo(P, i - 1)
    BY <1>2
  <2>2. UpTo(P, i) = UpTo(P, i - 1) \cup {i}
    BY <1>1, <1>2, <1>3, <1>4
  <2> QED BY <1>4, <2>1, <2>2, UpToFinite, FS_AddElement
<1>5. CASE i \notin P
  <2>1. UpTo(P, i) = UpTo(P, i - 1)
    BY <1>1, <1>2, <1>3, <1>5
  <2> QED BY <1>5, <2>1
<1> QED BY <1>4, <1>5

(* Counting places one after the other meets every number in between.      *)
LEMMA PlaceOf ==
  ASSUME NEW n \in Nat, NEW P, P \subseteq 1..n, NEW k \in 1..Cardinality(P)
  PROVE  \E i \in P : Cardinality(UpTo(P, i)) = k
<1>0. \A i : Cardinality(UpTo(P, i)) \in Nat
  BY UpToFinite
<1> DEFINE T == {i \in 0..n : Cardinality(UpTo(P, i)) >= k}
<1>1. n \in T
  <2>1. \A j : j \in UpTo(P, n) <=> j \in P /\ j <= n
    BY DEF UpTo
  <2>2. \A j \in P : j <= n
    OBVIOUS
  <2>3. UpTo(P, n) = P
    BY <2>1, <2>2
  <2>4. k \in Nat /\ Cardinality(P) >= k
    BY <1>0, <2>3
  <2> QED BY <2>3, <2>4
<1>2. PICK i \in T : \A j \in T : i <= j
  <2>1. T \in SUBSET Nat /\ T # {}
    BY <1>1
  <2> HIDE DEF T
  <2> QED BY <2>1, LeastOf
<1>3. i # 0
  <2>1. \A j : j \in UpTo(P, 0) <=> j \in P /\ j <= 0
    BY DEF UpTo
  <2>2. \A j \in P : ~(j <= 0)
    OBVIOUS
  <2>3. UpTo(P, 0) = {}
    BY <2>1, <2>2
  <2>4. Cardinality(UpTo(P, 0)) = 0
    BY <2>3, FS_EmptySet
  <2> QED BY <2>4
<1>4. i \in Nat /\ i > 0 /\ i - 1 \in 0..n /\ i - 1 \notin T
  BY <1>2, <1>3
<1>5. Cardinality(UpTo(P, i - 1)) < k
  BY <1>0, <1>4
<1>6. Cardinality(UpTo(P, i)) >= k /\ k \in Nat
  BY <1>2, <1>0
<1>7. Cardinality(UpTo(P, i)) \in Nat /\ Cardinality(UpTo(P, i - 1)) \in Nat
  BY <1>0
<1>8. i \in P
  BY <1>4, <1>5, <1>6, <1>7, UpToNext
<1>9. Cardinality(UpTo(P, i)) = Cardinality(UpTo(P, i - 1)) + 1
  BY <1>4, <1>8, UpToNext
<1> QED BY <1>5, <1>6, <1>7, <1>8, <1>9

(* No two places have the same number of them up to them, and the earlier  *)
(* place has the smaller one.                                              *)
LEMMA PlacesCountUp ==
  ASSUME NEW n \in Nat, NEW P, P \subseteq 1..n, NEW a \in P, NEW b \in P, a < b
  PROVE  Cardinality(UpTo(P, a)) < Cardinality(UpTo(P, b))
<1>1. \A j : j \in UpTo(P, a) <=> j \in P /\ j <= a
  BY DEF UpTo
<1>2. \A j : j \in UpTo(P, b) <=> j \in P /\ j <= b
  BY DEF UpTo
<1>3. \A j \in P : j <= a => j <= b
  OBVIOUS
<1>4. UpTo(P, a) \subseteq UpTo(P, b)
  BY <1>1, <1>2, <1>3
<1>5. b \in UpTo(P, b) /\ b \notin UpTo(P, a)
  BY <1>1, <1>2
<1>6. Cardinality(UpTo(P, a)) <= Cardinality(UpTo(P, b))
  BY <1>4, UpToFinite, FS_Subset
<1>7. Cardinality(UpTo(P, a)) # Cardinality(UpTo(P, b))
  BY <1>4, <1>5, UpToFinite, FS_Subset
<1>8. Cardinality(UpTo(P, a)) \in Nat /\ Cardinality(UpTo(P, b)) \in Nat
  BY UpToFinite
<1> QED BY <1>6, <1>7, <1>8
------------------------------------------------------------------------------
(* The place of the k-th of the places P.                                  *)
Nth(P, k) == CHOOSE i \in P : Cardinality({j \in P : j <= i}) = k

LEMMA NthPlace ==
  ASSUME NEW n \in Nat, NEW P, P \subseteq 1..n, NEW k \in 1..Cardinality(P)
  PROVE  Nth(P, k) \in P /\ Cardinality(UpTo(P, Nth(P, k))) = k
<1>0. PICK m \in P : Cardinality(UpTo(P, m)) = k
  BY PlaceOf
<1>1. \E i \in P : Cardinality({j \in P : j <= i}) = k
  BY <1>0 DEF UpTo
<1> QED BY <1>1 DEF Nth, UpTo

LEMMA PlaceIsNth ==
  ASSUME NEW n \in Nat, NEW P, P \subseteq 1..n, NEW i \in P
  PROVE  \E k \in 1..Cardinality(P) : Nth(P, k) = i
<1> DEFINE k == Cardinality(UpTo(P, i))
<1>1. k \in Nat /\ k <= Cardinality(P) /\ Cardinality(P) \in Nat
  BY UpToFinite, FS_Subset, FS_CardinalityType
<1>2. k # 0
  <2>1. i \in UpTo(P, i)
    BY DEF UpTo
  <2> QED BY <2>1, UpToFinite, FS_EmptySet
<1>3. k \in 1..Cardinality(P)
  BY <1>1, <1>2
<1>4. PICK m \in P : m = Nth(P, k) /\ Cardinality(UpTo(P, m)) = k
  BY <1>3, NthPlace
<1>5. k = Cardinality(UpTo(P, i))
  OBVIOUS
<1> HIDE DEF k
<1>6. ~(m < i)
  <2>1. m < i => Cardinality(UpTo(P, m)) < Cardinality(UpTo(P, i))
    BY PlacesCountUp
  <2> QED BY <1>1, <1>4, <1>5, <2>1
<1>7. ~(i < m)
  <2>1. i < m => Cardinality(UpTo(P, i)) < Cardinality(UpTo(P, m))
    BY PlacesCountUp
  <2> QED BY <1>1, <1>4, <1>5, <2>1
<1>8. i \in Int /\ m \in Int
  OBVIOUS
<1> QED BY <1>3, <1>4, <1>6, <1>7, <1>8

LEMMA FunIsSeq ==
  ASSUME NEW S, NEW n \in Nat, NEW f \in [1..n -> S]
  PROVE  f \in Seq(S)
BY SeqDef

(* What stands at some places of a sequence is a sequence of just that.    *)
LEMMA KeptIsThat ==
  ASSUME NEW S, NEW s \in Seq(S), NEW P, P \subseteq 1..Len(s)
  PROVE  /\ Kept(s, P) \in Seq(S) /\ Len(Kept(s, P)) = Cardinality(P)
         /\ \A k \in 1..Cardinality(P) : Nth(P, k) \in P
<1>1. Len(s) \in Nat /\ \A i \in 1..Len(s) : s[i] \in S
  BY LenProperties, ElementOfSeq
<1>2. Cardinality(P) \in Nat
  BY <1>1, UpToFinite, FS_CardinalityType
<1>3. \A k \in 1..Cardinality(P) : Nth(P, k) \in P
  BY <1>1, NthPlace
<1>4. Kept(s, P) = [k \in 1..Cardinality(P) |-> s[Nth(P, k)]]
  BY DEF Kept, Nth
<1>5. \A k \in 1..Cardinality(P) : s[Nth(P, k)] \in S
  BY <1>1, <1>3
<1> QED BY <1>2, <1>3, <1>4, <1>5, IsASeq, LenProperties

LEMMA NthIsInjective ==
  ASSUME NEW n \in Nat, NEW P, P \subseteq 1..n,
         NEW k \in 1..Cardinality(P), NEW l \in 1..Cardinality(P), Nth(P, k) = Nth(P, l)
  PROVE  k = l
<1>1. Cardinality(UpTo(P, Nth(P, k))) = k /\ Cardinality(UpTo(P, Nth(P, l))) = l
  BY NthPlace
<1> QED BY <1>1
------------------------------------------------------------------------------
(* Sequences put one after another, up to each of them.                    *)
IsFlat(q, f, k) == f = [i \in 1..k |-> IF i = 1 THEN q[i] ELSE f[i - 1] \o q[i]]

Joined(q) == CHOOSE f : IsFlat(q, f, Len(q))

LEMMA JoinedSoFar ==
  ASSUME NEW S, NEW q \in Seq(Seq(S))
  PROVE  /\ FlattenSeq(q) = IF Len(q) = 0 THEN q ELSE Joined(q)[Len(q)]
         /\ \A i \in 1..Len(q) :
              Joined(q)[i] = IF i = 1 THEN q[i] ELSE Joined(q)[i - 1] \o q[i]
         /\ \A i \in 1..Len(q) : Joined(q)[i] \in Seq(S)
<1> DEFINE n == Len(q)
           g == Joined(q)
<1>1. FlattenSeq(q) = IF n = 0 THEN q ELSE g[n]
  BY DEF FlattenSeq, Joined, IsFlat
<1>2. n \in Nat /\ \A i \in 1..n : q[i] \in Seq(S)
  BY LenProperties, ElementOfSeq
<1>3. \E f : IsFlat(q, f, n)
  <2> DEFINE Bad == {k \in Nat : ~\E f : IsFlat(q, f, k)}
  <2>1. SUFFICES ASSUME n \in Bad PROVE FALSE
    BY <1>2
  <2>2. PICK k \in Bad : \A l \in Bad : k <= l
    <3>1. Bad \in SUBSET Nat /\ Bad # {}
      BY <2>1
    <3> HIDE DEF Bad
    <3> QED BY <3>1, LeastOf
  <2>3. k # 0
    <3>1. IsFlat(q, [i \in 1..0 |-> q], 0)
      BY DEF IsFlat
    <3> QED BY <2>2, <3>1
  <2>4. k \in Nat /\ k - 1 \in Nat /\ k - 1 \notin Bad
    <3>1. k \in Nat
      BY <2>2
    <3>2. k - 1 \in Nat /\ ~(k <= k - 1)
      BY <2>3, <3>1
    <3> HIDE DEF Bad
    <3> QED BY <2>2, <3>1, <3>2
  <2>5. PICK h : IsFlat(q, h, k - 1)
    BY <2>4
  <2> DEFINE f == [i \in 1..k |->
                     IF i < k THEN h[i] ELSE IF i = 1 THEN q[i] ELSE h[k - 1] \o q[i]]
  <2>6. ASSUME NEW i \in 1..k
        PROVE  f[i] = IF i = 1 THEN q[i] ELSE f[i - 1] \o q[i]
    <3>1. CASE i < k
      <4>1. i \in 1..(k - 1) /\ (i = 1 \/ i - 1 \in 1..(k - 1))
        BY <2>4, <3>1
      <4>2. f[i] = h[i] /\ h[i] = IF i = 1 THEN q[i] ELSE h[i - 1] \o q[i]
        BY <2>5, <3>1, <4>1 DEF IsFlat
      <4>3. i # 1 => f[i - 1] = h[i - 1]
        BY <2>4, <3>1, <4>1
      <4> QED BY <4>2, <4>3
    <3>2. CASE i = k
      <4>1. f[i] = IF i = 1 THEN q[i] ELSE h[k - 1] \o q[i]
        BY <2>4, <3>2
      <4>2. i # 1 => f[i - 1] = h[k - 1]
        BY <2>4, <3>2
      <4> QED BY <4>1, <4>2
    <3> QED BY <2>4, <3>1, <3>2
  <2>7. f = [i \in 1..k |-> f[i]]
    OBVIOUS
  <2> HIDE DEF f
  <2>8. IsFlat(q, f, k)
    BY <2>6, <2>7 DEF IsFlat
  <2> QED BY <2>2, <2>8
<1>4. IsFlat(q, g, n)
  BY <1>3 DEF Joined
<1> HIDE DEF g
<1>5. \A i \in 1..n : g[i] = IF i = 1 THEN q[i] ELSE g[i - 1] \o q[i]
  BY <1>4 DEF IsFlat
<1>6. \A i \in 1..n : g[i] \in Seq(S)
  <2> DEFINE Bad == {i \in 1..n : g[i] \notin Seq(S)}
  <2>1. SUFFICES ASSUME Bad # {} PROVE FALSE
    OBVIOUS
  <2>2. PICK k \in Bad : \A l \in Bad : k <= l
    <3>1. Bad \in SUBSET Nat
      BY <1>2
    <3> HIDE DEF Bad
    <3> QED BY <2>1, <3>1, LeastOf
  <2>3. k # 1
    BY <1>2, <1>5, <2>2
  <2>4. k - 1 \in 1..n /\ ~(k <= k - 1)
    BY <1>2, <2>2, <2>3
  <2>5. g[k - 1] \in Seq(S)
    BY <2>2, <2>4
  <2>6. g[k] = g[k - 1] \o q[k] /\ q[k] \in Seq(S)
    BY <1>2, <1>5, <2>2, <2>3
  <2>7. g[k] \in Seq(S)
    BY <2>5, <2>6, ConcatProperties
  <2> QED BY <2>2, <2>7
<1> HIDE DEF n
<1> QED BY <1>1, <1>5, <1>6 DEF n, g

(* What FlattenSeq returns is a sequence of the same elements.             *)
LEMMA FlattenIsSeq ==
  ASSUME NEW S, NEW q \in Seq(Seq(S))
  PROVE  FlattenSeq(q) \in Seq(S)
<1>1. Len(q) \in Nat /\ (Len(q) = 0 => q = <<>>)
  BY EmptySeq, LenProperties
<1>2. Len(q) # 0 => Len(q) \in 1..Len(q)
  BY <1>1
<1> QED BY <1>1, <1>2, JoinedSoFar, EmptySeq
------------------------------------------------------------------------------
(* The inductive invariant.                                                *)

Sampled ==
  {i \in DOMAIN file :
     Cardinality({j \in 1..(i - 1) : file[j].kind = file[i].kind}) < limit}

InputOK == file \in Files /\ limit \in Limits /\ selected \in Selections

(* What is replayed is the file, once it loaded, or a sample of it.        *)
CasesOK ==
  /\ phase \in {"load", "run", "raised", "gate", "passed", "failed"}
  /\ phase = "load" => cases = <<>>
  /\ phase # "load" =>
       cases = IF limit # 0 THEN SamplePerKind(file, limit) ELSE file
  /\ phase = "run" => Loads(file)

(* Before the first turn of an arm there is nothing.                       *)
FreshOK ==
  phase = "load" =>
    memories = {} /\ messages = {} /\ position = [case |-> 1, replayed |-> 0]

LEMMA InputTypes ==
  ASSUME InputOK
  PROVE  file \in Seq(EvalCase) /\ limit \in Int /\ selected # {}
<1>1. Files \subseteq Seq(EvalCase) /\ Limits \subseteq Int
  BY BenchmarkAssumption
<1>2. \A T \in Selections : T # {}
  BY BenchmarkAssumption
<1> QED BY <1>1, <1>2 DEF InputOK

(* A sample of a file takes each of its cases from another place of it.    *)
Takes(s, f) ==
  \E p : /\ \A k \in DOMAIN s : p[k] \in 1..Len(f) /\ s[k] = f[p[k]]
         /\ \A k, l \in DOMAIN s : p[k] = p[l] => k = l

LEMMA SampleTakes ==
  ASSUME NEW f \in Seq(EvalCase), NEW n
  PROVE  SamplePerKind(f, n) \in Seq(EvalCase) /\ Takes(SamplePerKind(f, n), f)
<1> DEFINE P == {i \in DOMAIN f : Cardinality({j \in 1..(i - 1) : f[j].kind = f[i].kind}) < n}
           s == Kept(f, P)
           p == [k \in 1..Cardinality(P) |-> Nth(P, k)]
<1>1. P \subseteq 1..Len(f) /\ Len(f) \in Nat
  BY LenProperties
<1>2. SamplePerKind(f, n) = s
  BY DEF SamplePerKind
<1> HIDE DEF P
<1>3. s \in Seq(EvalCase) /\ Len(s) = Cardinality(P)
  BY <1>1, KeptIsThat
<1>4. \A k \in 1..Cardinality(P) : Nth(P, k) \in P
  BY <1>1, KeptIsThat
<1>5. \A k \in 1..Cardinality(P) : s[k] = f[Nth(P, k)]
  BY DEF Kept, Nth
<1>6. \A k, l \in 1..Cardinality(P) : Nth(P, k) = Nth(P, l) => k = l
  BY <1>1, NthIsInjective
<1> HIDE DEF s
<1>7. DOMAIN s = 1..Cardinality(P)
  BY <1>3, LenProperties
<1>8. /\ \A k \in DOMAIN s : p[k] \in 1..Len(f) /\ s[k] = f[p[k]]
      /\ \A k, l \in DOMAIN s : p[k] = p[l] => k = l
  BY <1>1, <1>4, <1>5, <1>6, <1>7
<1> HIDE DEF p
<1> QED BY <1>2, <1>3, <1>8 DEF Takes

LEMMA CasesAreTaken ==
  ASSUME InputOK, CasesOK
  PROVE  cases \in Seq(EvalCase) /\ Takes(cases, file)
<1>1. file \in Seq(EvalCase) /\ DOMAIN file = 1..Len(file)
  BY InputTypes, LenProperties
<1>2. CASE phase = "load"
  BY <1>2, EmptySeq DEF CasesOK, Takes
<1>3. CASE phase # "load" /\ limit # 0
  BY <1>1, <1>3, SampleTakes DEF CasesOK
<1>4. CASE phase # "load" /\ limit = 0
  <2>1. cases = file
    BY <1>4 DEF CasesOK
  <2> DEFINE p == [k \in 1..Len(file) |-> k]
  <2>2. /\ \A k \in DOMAIN file : p[k] \in 1..Len(file) /\ file[k] = file[p[k]]
        /\ \A k, l \in DOMAIN file : p[k] = p[l] => k = l
    BY <1>1
  <2> HIDE DEF p
  <2> QED BY <1>1, <2>1, <2>2 DEF Takes
<1> QED BY <1>2, <1>3, <1>4

(* The cases of a run are cases of the file, no two with the same id.      *)
LEMMA CasesAreOfTheFile ==
  ASSUME InputOK, CasesOK
  PROVE  /\ cases \in Seq(EvalCase) /\ Range(cases) \subseteq Range(file)
         /\ phase = "run" =>
              /\ \A k, l \in DOMAIN cases : cases[k].id = cases[l].id => k = l
              /\ \A k \in DOMAIN cases : ProbeThreadIsNew(cases[k])
<1>1. cases \in Seq(EvalCase) /\ file \in Seq(EvalCase) /\ DOMAIN file = 1..Len(file)
  BY CasesAreTaken, InputTypes, LenProperties
<1>2. PICK p : /\ \A k \in DOMAIN cases : p[k] \in 1..Len(file) /\ cases[k] = file[p[k]]
               /\ \A k, l \in DOMAIN cases : p[k] = p[l] => k = l
  BY CasesAreTaken DEF Takes
<1>3. Range(cases) \subseteq Range(file)
  BY <1>1, <1>2 DEF Range
<1>4. ASSUME phase = "run"
      PROVE  /\ \A k, l \in DOMAIN cases : cases[k].id = cases[l].id => k = l
             /\ \A k \in DOMAIN cases : ProbeThreadIsNew(cases[k])
  <2>1. /\ IsInjective([i \in DOMAIN file |-> file[i].id])
        /\ \A i \in DOMAIN file : ProbeThreadIsNew(file[i])
    BY <1>4 DEF CasesOK, Loads
  <2>2. \A i, j \in DOMAIN file : file[i].id = file[j].id => i = j
    BY <2>1 DEF IsInjective
  <2>3. \A k \in DOMAIN cases : ProbeThreadIsNew(cases[k])
    BY <1>1, <1>2, <2>1
  <2>4. ASSUME NEW k \in DOMAIN cases, NEW l \in DOMAIN cases, cases[k].id = cases[l].id
        PROVE  k = l
    <3>1. p[k] \in DOMAIN file /\ p[l] \in DOMAIN file /\ file[p[k]].id = file[p[l]].id
      BY <1>1, <1>2, <2>4
    <3> QED BY <1>2, <2>2, <3>1
  <2> QED BY <2>3, <2>4
<1> QED BY <1>1, <1>3, <1>4

(* A sample keeps every kind the file has: the first case of a kind has    *)
(* none of its kind before it.                                             *)
LEMMA KindsAreKept ==
  ASSUME InputOK, CasesOK
  PROVE  SampleIsBalanced
<1> SUFFICES ASSUME phase = "run", limit >= 0
             PROVE  {c.kind : c \in Range(cases)} = {c.kind : c \in Range(file)}
  BY DEF SampleIsBalanced
<1>1. Range(cases) \subseteq Range(file)
  BY CasesAreOfTheFile
<1>2. ASSUME NEW c \in Range(file)
      PROVE  \E d \in Range(cases) : d.kind = c.kind
  <2>1. CASE limit = 0
    BY <1>2, <2>1 DEF CasesOK
  <2>2. CASE limit # 0
    <3> DEFINE T == {i \in 1..Len(file) : file[i].kind = c.kind}
    <3>1. DOMAIN file = 1..Len(file) /\ Len(file) \in Nat
      BY InputTypes, LenProperties
    <3>2. T \in SUBSET Nat /\ T # {}
      BY <1>2, <3>1 DEF Range
    <3>3. PICK i \in T : \A j \in T : i <= j
      <4> HIDE DEF T
      <4> QED BY <3>2, LeastOf
    <3>4. {j \in 1..(i - 1) : file[j].kind = file[i].kind} = {}
      <4>1. ASSUME NEW j \in 1..(i - 1), file[j].kind = file[i].kind PROVE FALSE
        <5>1. j \in T /\ j < i
          BY <3>1, <3>3, <4>1
        <5> QED BY <3>3, <5>1
      <4> QED BY <4>1
    <3>5. i \in Sampled
      <4>1. Cardinality({j \in 1..(i - 1) : file[j].kind = file[i].kind}) = 0
        BY <3>4, FS_EmptySet
      <4>2. 0 < limit /\ i \in DOMAIN file
        BY <2>2, <3>1, <3>3, InputTypes
      <4> QED BY <4>1, <4>2 DEF Sampled
    <3>6. cases = Kept(file, Sampled) /\ Sampled \subseteq 1..Len(file)
      BY <2>2, <3>1 DEF CasesOK, SamplePerKind, Sampled
    <3>7. /\ cases \in Seq(EvalCase) /\ Len(cases) = Cardinality(Sampled)
          /\ \E k \in 1..Cardinality(Sampled) : cases[k] = file[i]
      <4>1. file \in Seq(EvalCase)
        BY InputTypes
      <4>2. /\ Kept(file, Sampled) \in Seq(EvalCase)
            /\ Len(Kept(file, Sampled)) = Cardinality(Sampled)
        BY <3>6, <4>1, KeptIsThat
      <4>3. PICK k \in 1..Cardinality(Sampled) : Nth(Sampled, k) = i
        BY <3>1, <3>5, <3>6, PlaceIsNth
      <4>4. Kept(file, Sampled)[k] = file[i]
        BY <4>3 DEF Kept, Nth
      <4> QED BY <3>6, <4>2, <4>4
    <3>8. file[i] \in Range(cases)
      BY <3>7, LenProperties DEF Range
    <3> QED BY <3>3, <3>8
  <2> QED BY <2>1, <2>2
<1> QED BY <1>1, <1>2
------------------------------------------------------------------------------
(* What was said in a case.                                                *)
SaidIn(c) == (UNION {Claims(h.turn) : h \in Range(History(c))}) \cup Claims(c.probe)

LEMMA ProbeIsSaid ==
  ASSUME NEW c
  PROVE  Claims(c.probe) \subseteq SaidIn(c)
<1> DEFINE A == UNION {Claims(h.turn) : h \in Range(History(c))}
           B == Claims(c.probe)
<1>1. SaidIn(c) = A \cup B
  BY DEF SaidIn
<1> HIDE DEF A, B
<1> QED BY <1>1 DEF B

LEMMA HistoryIsSeq ==
  ASSUME NEW c \in EvalCase
  PROVE  History(c) \in Seq([thread : {c.sessions[i].thread : i \in DOMAIN c.sessions},
                             turn : Turn])
<1> DEFINE H == [thread : {c.sessions[i].thread : i \in DOMAIN c.sessions}, turn : Turn]
           q == [i \in DOMAIN c.sessions |->
                   [j \in DOMAIN c.sessions[i].turns |->
                      [thread |-> c.sessions[i].thread, turn |-> c.sessions[i].turns[j]]]]
<1>1. c.sessions \in Seq([thread : Seq(STRING), turns : Seq(Turn)])
  BY DEF EvalCase
<1>2. ASSUME NEW i \in DOMAIN c.sessions
      PROVE  q[i] \in Seq(H)
  <2>1. c.sessions[i].turns \in Seq(Turn)
    <3>1. i \in 1..Len(c.sessions)
      BY <1>1, LenProperties
    <3>2. c.sessions[i] \in [thread : Seq(STRING), turns : Seq(Turn)]
      BY <1>1, <3>1, ElementOfSeq
    <3> QED BY <3>2
  <2> DEFINE m == Len(c.sessions[i].turns)
  <2>2. m \in Nat /\ DOMAIN c.sessions[i].turns = 1..m
    BY <2>1, LenProperties
  <2>3. q[i] = [j \in 1..m |-> [thread |-> c.sessions[i].thread, turn |-> c.sessions[i].turns[j]]]
    BY <1>2, <2>2
  <2>4. \A j \in 1..m : c.sessions[i].turns[j] \in Turn
    BY <2>1, ElementOfSeq
  <2>5. \A j \in 1..m :
          [thread |-> c.sessions[i].thread, turn |-> c.sessions[i].turns[j]] \in H
    BY <1>2, <2>4
  <2>6. q[i] \in [1..m -> H]
    BY <2>3, <2>5
  <2> HIDE DEF m, H, q
  <2> QED BY <2>2, <2>6, FunIsSeq
<1>3. Len(c.sessions) \in Nat /\ DOMAIN c.sessions = 1..Len(c.sessions)
  BY <1>1, LenProperties
<1>4. q \in Seq(Seq(H))
  <2>1. q = [i \in 1..Len(c.sessions) |-> q[i]]
    BY <1>3
  <2> HIDE DEF q, H
  <2>2. q \in [1..Len(c.sessions) -> Seq(H)]
    BY <1>2, <1>3, <2>1
  <2> QED BY <1>3, <2>2, FunIsSeq
<1>5. History(c) = FlattenSeq(q)
  BY DEF History
<1> HIDE DEF q, H
<1>6. History(c) \in Seq(H)
  BY <1>4, <1>5, FlattenIsSeq
<1> QED BY <1>6 DEF H

LEMMA TurnOfHistory ==
  ASSUME NEW c \in EvalCase, NEW k \in Nat, k < Len(History(c))
  PROVE  LET h == History(c)[k + 1]
         IN /\ h.turn \in Turn /\ Claims(h.turn) \subseteq SaidIn(c)
            /\ \E i \in DOMAIN c.sessions : h.thread = c.sessions[i].thread
<1> DEFINE S == [thread : {c.sessions[i].thread : i \in DOMAIN c.sessions}, turn : Turn]
           h == History(c)[k + 1]
<1>1. History(c) \in Seq(S)
  BY HistoryIsSeq
<1>2. Len(History(c)) \in Nat /\ DOMAIN History(c) = 1..Len(History(c))
  BY <1>1, LenProperties
<1>3. k + 1 \in 1..Len(History(c))
  BY <1>2
<1>4. h \in S /\ h \in Range(History(c))
  BY <1>1, <1>2, <1>3, ElementOfSeq DEF Range
<1> HIDE DEF h
<1>5. Claims(h.turn) \subseteq SaidIn(c)
  <2> DEFINE A == {Claims(x.turn) : x \in Range(History(c))}
             B == Claims(c.probe)
  <2>1. SaidIn(c) = (UNION A) \cup B /\ Claims(h.turn) \in A
    BY <1>4 DEF SaidIn
  <2> HIDE DEF A, B
  <2> QED BY <2>1
<1>6. h.turn \in Turn /\ \E i \in DOMAIN c.sessions : h.thread = c.sessions[i].thread
  BY <1>4
<1> QED BY <1>5, <1>6 DEF h

(* The facts of a text, and the text as one.                               *)
LEMMA FactsOfTurn ==
  ASSUME NEW t \in Turn
  PROVE  /\ t.facts \in Seq(Fact) /\ Len(t.facts) \in Nat
         /\ \A i \in 1..Len(t.facts) : t.facts[i] \in Fact /\ t.facts[i].claims \subseteq Claims(t)
         /\ Verbatim(t) \in Fact /\ Verbatim(t).claims = t.claims
         /\ t.claims \subseteq Claims(t)
<1>1. t.facts \in Seq(Fact) /\ t.claims \in SUBSET STRING
  BY DEF Turn
<1>2. Len(t.facts) \in Nat /\ DOMAIN t.facts = 1..Len(t.facts)
  BY <1>1, LenProperties
<1> DEFINE A == {f.claims : f \in Range(t.facts)}
<1>3. Claims(t) = t.claims \cup UNION A
  BY DEF Claims
<1>4. ASSUME NEW i \in 1..Len(t.facts)
      PROVE  t.facts[i] \in Fact /\ t.facts[i].claims \in A
  <2>1. t.facts[i] \in Fact
    BY <1>1, ElementOfSeq
  <2>2. t.facts[i] \in Range(t.facts)
    BY <1>2 DEF Range
  <2> QED BY <2>1, <2>2
<1> HIDE DEF A
<1>5. \A i \in 1..Len(t.facts) : t.facts[i].claims \subseteq Claims(t)
  BY <1>3, <1>4
<1>6. Verbatim(t) \in Fact /\ Verbatim(t).claims = t.claims
  BY <1>1 DEF Verbatim, Fact
<1> QED BY <1>1, <1>2, <1>3, <1>4, <1>5, <1>6
------------------------------------------------------------------------------
(* What a fact does to the store.                                          *)

Memory ==
  [user : Seq(STRING), id : Nat, claims : SUBSET STRING, slot : {UNSLOTTED} \cup STRING,
   live : BOOLEAN]

IsStore(M) ==
  M \subseteq Memory /\ IsFiniteSet(M) /\ \A a, b \in M : a.id = b.id => a = b

(* The key of a case is one of the users of a store.                       *)
LEMMA KeyIsSeq ==
  ASSUME NEW c \in EvalCase
  PROVE  UserKey(c) \in Seq(STRING)
BY ConcatProperties DEF UserKey, EvalCase

LEMMA StoredIsNew ==
  ASSUME NEW S, IsStore(S), NEW c, UserKey(c) \in Seq(STRING), NEW f \in Fact
  PROVE  LET r == Stored(c, S, f)
         IN /\ r \in Memory /\ \A m \in S : m.id # r.id
            /\ r.user = UserKey(c) /\ r.claims = f.claims /\ r.slot = f.slot /\ r.live
<1> DEFINE T == {m.id : m \in S}
           g == [m \in S |-> m.id]
<1>1. T \subseteq Nat /\ IsFiniteSet(S)
  BY DEF IsStore, Memory
<1>2. g \in Surjection(S, T)
  BY Fun_IsSurj
<1>3. IsFiniteSet(T)
  BY <1>1, <1>2, FS_Surjection
<1>4. \A m \in S : m.id \in T
  OBVIOUS
<1> HIDE DEF T, g
<1>5. IsFiniteSet(T \cup {0}) /\ T \cup {0} \in SUBSET Nat /\ T \cup {0} # {}
  BY <1>1, <1>3, FS_AddElement
<1>6. PICK x \in Nat : x = Max(T \cup {0}) /\ \A y \in T \cup {0} : x >= y
  BY <1>5, GreatestOf
<1>7. Stored(c, S, f) = [user |-> UserKey(c), id |-> x + 1, claims |-> f.claims,
                         slot |-> f.slot, live |-> TRUE]
  BY <1>6 DEF Stored, T
<1>8. \A m \in S : m.id # x + 1
  <2> SUFFICES ASSUME NEW m \in S PROVE m.id # x + 1
    OBVIOUS
  <2>1. m.id \in Nat /\ x >= m.id
    BY <1>1, <1>4, <1>6
  <2> QED BY <2>1
<1> QED BY <1>7, <1>8 DEF Memory, Fact

LEMMA SmallerStore ==
  ASSUME NEW M, IsStore(M), NEW N, N \subseteq M
  PROVE  IsStore(N)
BY FS_Subset DEF IsStore

LEMMA LargerStore ==
  ASSUME NEW M, IsStore(M), NEW r \in Memory, \A m \in M : m.id # r.id
  PROVE  IsStore(M \cup {r})
<1>1. IsFiniteSet(M \cup {r})
  BY FS_AddElement DEF IsStore
<1> QED BY <1>1 DEF IsStore

LEMMA RewrittenStore ==
  ASSUME NEW M, IsStore(M), NEW f \in [M -> Memory], \A m \in M : f[m].id = m.id
  PROVE  IsStore({f[m] : m \in M})
<1> DEFINE N == {f[m] : m \in M}
<1>1. f \in Surjection(M, N)
  BY Fun_IsSurj
<1>2. IsFiniteSet(N)
  BY <1>1, FS_Surjection DEF IsStore
<1>3. ASSUME NEW a \in N, NEW b \in N, a.id = b.id PROVE a = b
  <2>1. PICK m \in M : a = f[m]
    OBVIOUS
  <2>2. PICK n \in M : b = f[n]
    OBVIOUS
  <2>3. m = n
    BY <1>3, <2>1, <2>2 DEF IsStore
  <2> QED BY <2>1, <2>2, <2>3
<1>4. N \subseteq Memory
  OBVIOUS
<1> QED BY <1>2, <1>3, <1>4 DEF IsStore

LEMMA OneMore ==
  ASSUME NEW S, IsFiniteSet(S), NEW x
  PROVE  /\ Cardinality(S \cup {x}) <= Cardinality(S) + 1
         /\ Cardinality(S) <= Cardinality(S \cup {x})
         /\ IsFiniteSet(S \cup {x}) /\ Cardinality(S \cup {x}) \in Nat
<1>1. /\ IsFiniteSet(S \cup {x})
      /\ Cardinality(S \cup {x}) = IF x \in S THEN Cardinality(S) ELSE Cardinality(S) + 1
  BY FS_AddElement
<1>2. Cardinality(S) \in Nat
  BY FS_CardinalityType
<1> QED BY <1>1, <1>2

(* The records of a user are a finite part of the store.                   *)
LEMMA OwnIsFinite ==
  ASSUME NEW M, IsStore(M), NEW c
  PROVE  /\ Of(c, M) \subseteq M /\ Live(Of(c, M)) \subseteq Of(c, M)
         /\ IsFiniteSet(Of(c, M)) /\ Cardinality(Of(c, M)) \in Nat
         /\ IsFiniteSet(Live(Of(c, M))) /\ Cardinality(Live(Of(c, M))) \in Nat
         /\ Cardinality(Live(Of(c, M))) <= Cardinality(Of(c, M))
<1>1. Of(c, M) \subseteq M /\ Live(Of(c, M)) \subseteq Of(c, M)
  BY DEF Live, Of
<1>2. IsFiniteSet(Of(c, M))
  BY <1>1, FS_Subset DEF IsStore
<1> QED BY <1>1, <1>2, FS_Subset, FS_CardinalityType

(* A listing that is long enough leaves nothing out.                       *)
LEMMA PageIsAll ==
  ASSUME NEW S, S \subseteq Memory, IsFiniteSet(S), NEW n \in Nat, Cardinality(S) <= n
  PROVE  Page(S, n) = S
<1>1. ASSUME NEW m \in S
      PROVE  Cardinality({x \in S : x.id < m.id}) < n
  <2> DEFINE B == {x \in S : x.id < m.id}
  <2>1. m.id \in Nat
    BY DEF Memory
  <2>2. m \notin B
    BY <2>1
  <2>3. B \subseteq S
    OBVIOUS
  <2> HIDE DEF B
  <2>4. IsFiniteSet(B) /\ Cardinality(B) <= Cardinality(S) /\ Cardinality(B) # Cardinality(S)
    BY <1>1, <2>2, <2>3, FS_Subset
  <2>5. Cardinality(B) \in Nat /\ Cardinality(S) \in Nat
    BY <2>4, FS_CardinalityType
  <2>6. Cardinality(B) < n
    BY <2>4, <2>5
  <2> QED BY <2>6 DEF B
<1> QED BY <1>1 DEF Page

(* What is in a store after a text was in it before, or makes claims of    *)
(* the text under the key of the case.                                     *)
From(N, S, c, X) ==
  \A m \in N : \/ \E o \in S : m.user = o.user /\ m.claims = o.claims
               \/ m.user = UserKey(c) /\ m.claims \subseteq X

(* What others have in the store stays as it is.                           *)
OthersKept(N, S, c) == \A m : m.user # UserKey(c) => (m \in N <=> m \in S)

LEMMA SameStore ==
  ASSUME NEW S, NEW c, NEW X
  PROVE  From(S, S, c, X) /\ OthersKept(S, S, c)
BY DEF From, OthersKept

LEMMA Added ==
  ASSUME NEW S, IsStore(S), NEW c, UserKey(c) \in Seq(STRING), NEW f \in Fact,
         NEW X, f.claims \subseteq X
  PROVE  LET N == S \cup {Stored(c, S, f)}
         IN IsStore(N) /\ From(N, S, c, X) /\ OthersKept(N, S, c)
<1> DEFINE r == Stored(c, S, f)
<1>1. r \in Memory /\ (\A m \in S : m.id # r.id) /\ r.user = UserKey(c) /\ r.claims = f.claims
  BY StoredIsNew
<1> HIDE DEF r
<1>2. IsStore(S \cup {r})
  BY <1>1, LargerStore
<1>3. From(S \cup {r}, S, c, X) /\ OthersKept(S \cup {r}, S, c)
  BY <1>1 DEF From, OthersKept
<1> QED BY <1>2, <1>3 DEF r

(* A store whose records R are retired.                                    *)
Retire(S, R) == [m \in S |-> IF m \in R THEN [m EXCEPT !.live = FALSE] ELSE m]

(* A fact is held when a live record of the case says it.                  *)
Holds(c, M, f) == \E m \in Live(Of(c, M)) : m.slot = f.slot /\ m.claims = f.claims

(* The turn knows all records of the case.                                 *)
Knows(c, s) == \A m \in Of(c, s.store) : m.id \in s.known

OneEach(c, M) ==
  \A a, b \in Live(Of(c, M)) : a.slot = b.slot /\ a.slot # UNSLOTTED => a = b

Restated(c, s, f) ==
  \E m \in Live(Of(c, s.store)) : m.id \in s.known /\ m.slot = f.slot /\ m.claims = f.claims

LEMMA ResolveIs ==
  ASSUME NEW c, NEW s, NEW f
  PROVE  LET r == Stored(c, s.store, f)
             N == {Retire(s.store, Rivals(c, s, f))[m] : m \in s.store} \cup {r}
         IN Resolve(c, s, f) =
              IF Restated(c, s, f) THEN s ELSE [store |-> N, known |-> s.known \cup {r.id}]
<1> DEFINE R == Rivals(c, s, f)
           S == s.store
           r == Stored(c, S, f)
           D == {[m EXCEPT !.live = FALSE] : m \in R}
           G == {Retire(S, R)[m] : m \in S}
<1>1. R \subseteq S
  BY DEF Rivals, Live, Of
<1>2. Resolve(c, s, f) = IF Restated(c, s, f) THEN s
                         ELSE [store |-> ((S \ R) \cup D) \cup {r}, known |-> s.known \cup {r.id}]
  BY DEF Resolve, Restated
<1> HIDE DEF R, r, S
<1>3. (S \ R) \cup D = G
  BY <1>1 DEF Retire
<1> HIDE DEF D, G
<1>4. Resolve(c, s, f) = IF Restated(c, s, f) THEN s
                         ELSE [store |-> G \cup {r}, known |-> s.known \cup {r.id}]
  BY <1>2, <1>3
<1> QED BY <1>4 DEF G, R, S, r

(* What retiring changes.                                                  *)
LEMMA RetireKeeps ==
  ASSUME NEW S, IsStore(S), NEW R
  PROVE  LET g == Retire(S, R)
         IN /\ g \in [S -> Memory]
            /\ \A m \in S : /\ g[m].id = m.id /\ g[m].user = m.user
                            /\ g[m].claims = m.claims /\ g[m].slot = m.slot
                            /\ m \notin R => g[m] = m
                            /\ g[m].live => g[m] = m /\ m \notin R
BY DEF Retire, IsStore, Memory

(* The store after one fact.                                               *)
LEMMA ResolveStore ==
  ASSUME NEW c, UserKey(c) \in Seq(STRING), NEW s, IsStore(s.store), NEW f \in Fact
  PROVE  LET S == s.store
             N == Resolve(c, s, f).store
         IN /\ IsStore(N) /\ OthersKept(N, S, c) /\ Holds(c, N, f)
            /\ \A n \in N :
                 \/ \E o \in S : /\ n.user = o.user /\ n.claims = o.claims /\ n.slot = o.slot
                                 /\ n.live => n = o
                 \/ n.user = UserKey(c) /\ n.claims = f.claims /\ n.slot = f.slot
            /\ Cardinality(Of(c, S)) <= Cardinality(Of(c, N))
            /\ Cardinality(Of(c, N)) <= Cardinality(Of(c, S)) + 1
<1> DEFINE S == s.store
           R == Rivals(c, s, f)
           g == Retire(S, R)
           r == Stored(c, S, f)
           G == {g[m] : m \in S}
           N == Resolve(c, s, f).store
<1>0. CASE Restated(c, s, f)
  <2>1. N = S
    BY <1>0, ResolveIs
  <2>2. Holds(c, S, f)
    BY <1>0 DEF Restated, Holds
  <2>3. Cardinality(Of(c, S)) \in Nat
    BY OwnIsFinite
  <2> HIDE DEF N, S
  <2>4. Cardinality(Of(c, S)) <= Cardinality(Of(c, S)) + 1
    BY <2>3
  <2>5. IsStore(S)
    BY DEF S
  <2>6. OthersKept(S, S, c)
    BY SameStore
  <2>7. \A n \in S : \E o \in S : /\ n.user = o.user /\ n.claims = o.claims /\ n.slot = o.slot
                                  /\ n.live => n = o
    OBVIOUS
  <2> QED BY <2>1, <2>2, <2>3, <2>4, <2>5, <2>6, <2>7 DEF N, S
<1>1. CASE ~Restated(c, s, f)
  <2>1. N = G \cup {r}
    BY <1>1, ResolveIs
  <2>2. /\ r \in Memory /\ (\A m \in S : m.id # r.id) /\ r.live
        /\ r.user = UserKey(c) /\ r.claims = f.claims /\ r.slot = f.slot
    BY StoredIsNew
  <2>3. /\ g \in [S -> Memory]
        /\ \A m \in S : /\ g[m].id = m.id /\ g[m].user = m.user
                        /\ g[m].claims = m.claims /\ g[m].slot = m.slot
                        /\ g[m].live => g[m] = m
    BY RetireKeeps
  <2>4. R \subseteq Of(c, S)
    BY DEF Rivals, Live
  <2>5. \A m \in S : m.user # UserKey(c) => g[m] = m
    BY <2>4, RetireKeeps DEF Of
  <2>6. IsStore(S)
    OBVIOUS
  <2> HIDE DEF N, g, r, S, R
  <2>7. IsStore(G)
    BY <2>3, <2>6, RewrittenStore
  <2>8. \A n \in G : n.id # r.id
    BY <2>2, <2>3
  <2>9. IsStore(N)
    <3> HIDE DEF G
    <3> QED BY <2>1, <2>2, <2>7, <2>8, LargerStore
  <2>10. OthersKept(N, S, c)
    BY <2>1, <2>2, <2>3, <2>5 DEF OthersKept
  <2>11. Holds(c, N, f)
    <3>1. r \in Live(Of(c, N))
      BY <2>1, <2>2 DEF Live, Of
    <3> QED BY <2>2, <3>1 DEF Holds
  <2>12. \A n \in N :
           \/ \E o \in S : /\ n.user = o.user /\ n.claims = o.claims /\ n.slot = o.slot
                           /\ n.live => n = o
           \/ n.user = UserKey(c) /\ n.claims = f.claims /\ n.slot = f.slot
    BY <2>1, <2>2, <2>3
  <2> DEFINE A == Of(c, S)
             B == {g[m] : m \in A}
             h == [m \in A |-> g[m]]
  <2>13. IsFiniteSet(A) /\ A \subseteq S /\ Cardinality(A) \in Nat
    BY <2>6, OwnIsFinite
  <2>14. Of(c, N) = B \cup {r}
    BY <2>1, <2>2, <2>3 DEF Of
  <2>15. h \in Bijection(A, B)
    <3>1. h \in [A -> B] /\ \A b \in B : \E m \in A : h[m] = b
      OBVIOUS
    <3>2. \A x, y \in A : h[x] = h[y] => x = y
      <4> SUFFICES ASSUME NEW x \in A, NEW y \in A, h[x] = h[y] PROVE x = y
        OBVIOUS
      <4>1. x \in S /\ y \in S /\ g[x] = g[y]
        BY <2>13
      <4>2. x.id = y.id
        BY <2>3, <4>1
      <4> QED BY <2>6, <4>1, <4>2 DEF IsStore
    <3> HIDE DEF h, A, B
    <3> QED BY <3>1, <3>2, Fun_IsBij
  <2> HIDE DEF A, B, h
  <2>16. IsFiniteSet(B) /\ Cardinality(B) = Cardinality(A)
    <3>1. ExistsBijection(A, B)
      BY <2>15 DEF ExistsBijection
    <3> QED BY <2>13, <3>1, FS_Bijection
  <2>17. /\ Cardinality(B \cup {r}) <= Cardinality(B) + 1
         /\ Cardinality(B) <= Cardinality(B \cup {r})
    BY <2>16, OneMore
  <2>18. Cardinality(A) <= Cardinality(Of(c, N)) /\ Cardinality(Of(c, N)) <= Cardinality(A) + 1
    BY <2>14, <2>16, <2>17
  <2> QED BY <2>9, <2>10, <2>11, <2>12, <2>18 DEF N, A, S
<1> QED BY <1>0, <1>1

(* A turn that knows all records of the case retires every old value.      *)
LEMMA ResolveKnows ==
  ASSUME NEW c, UserKey(c) \in Seq(STRING), NEW s, IsStore(s.store), NEW f \in Fact, Knows(c, s)
  PROVE  LET u == Resolve(c, s, f)
         IN /\ Knows(c, u)
            /\ OneEach(c, s.store) =>
                 /\ OneEach(c, u.store)
                 /\ \A n \in Live(Of(c, u.store)) :
                      n.slot = f.slot /\ n.slot # UNSLOTTED => n.claims = f.claims
<1> DEFINE S == s.store
           R == Rivals(c, s, f)
           g == Retire(S, R)
           r == Stored(c, S, f)
           G == {g[m] : m \in S}
           u == Resolve(c, s, f)
<1>0. CASE Restated(c, s, f)
  <2>1. u = s
    BY <1>0, ResolveIs
  <2>2. PICK m \in Live(Of(c, S)) : m.slot = f.slot /\ m.claims = f.claims
    BY <1>0 DEF Restated
  <2> HIDE DEF u
  <2>3. OneEach(c, S) => \A n \in Live(Of(c, S)) :
                           n.slot = f.slot /\ n.slot # UNSLOTTED => n.claims = f.claims
    BY <2>2 DEF OneEach
  <2> QED BY <2>1, <2>3 DEF u
<1>1. CASE ~Restated(c, s, f)
  <2>1. u = [store |-> G \cup {r}, known |-> s.known \cup {r.id}]
    BY <1>1, ResolveIs
  <2>2. r.user = UserKey(c) /\ r.claims = f.claims /\ r.slot = f.slot
    BY StoredIsNew
  <2>3. \A m \in S : /\ g[m].id = m.id /\ g[m].user = m.user /\ g[m].slot = m.slot
                     /\ g[m].live => g[m] = m /\ m \notin R
    BY RetireKeeps
  <2>4. \A m \in Of(c, S) : m.id \in s.known
    BY DEF Knows
  <2>5. \A m \in Live(Of(c, S)) : m.slot = f.slot /\ f.slot # UNSLOTTED => m \in R
    <3>1. Live(Of(c, S)) \subseteq Of(c, S)
      BY DEF Live
    <3> QED BY <2>4, <3>1 DEF Rivals
  <2>6. u.store = G \cup {r} /\ u.known = s.known \cup {r.id}
    BY <2>1
  <2> HIDE DEF u, R, g, r, S
  <2>7. Knows(c, u)
    <3> SUFFICES ASSUME NEW n \in Of(c, u.store) PROVE n.id \in u.known
      BY DEF Knows
    <3>1. n = r \/ \E m \in S : n = g[m] /\ m.user = UserKey(c)
      BY <2>3, <2>6 DEF Of
    <3>2. ASSUME NEW m \in S, n = g[m], m.user = UserKey(c) PROVE n.id \in s.known
      <4>1. m \in Of(c, S)
        BY <3>2 DEF Of
      <4> QED BY <2>3, <2>4, <3>2, <4>1
    <3> QED BY <2>6, <3>1, <3>2
  <2>8. ASSUME NEW n \in Live(Of(c, u.store)), n # r
        PROVE  n \in Live(Of(c, S)) /\ (n.slot = f.slot => n.slot = UNSLOTTED)
    <3>1. n.live /\ n.user = UserKey(c) /\ n \in G
      BY <2>6, <2>8 DEF Live, Of
    <3>2. PICK m \in S : n = g[m]
      BY <3>1
    <3>3. n = m /\ m \notin R
      BY <2>3, <3>1, <3>2
    <3>4. n \in Live(Of(c, S))
      BY <3>1, <3>3 DEF Live, Of
    <3> QED BY <2>5, <3>3, <3>4
  <2>9. ASSUME OneEach(c, S) PROVE OneEach(c, u.store)
    <3> SUFFICES ASSUME NEW a \in Live(Of(c, u.store)), NEW b \in Live(Of(c, u.store)),
                        a.slot = b.slot, a.slot # UNSLOTTED
                 PROVE  a = b
      BY DEF OneEach
    <3>1. CASE a # r /\ b # r
      BY <2>8, <2>9, <3>1 DEF OneEach
    <3>2. CASE a = r \/ b = r
      BY <2>2, <2>8, <3>2
    <3> QED BY <3>1, <3>2
  <2>10. \A n \in Live(Of(c, u.store)) :
           n.slot = f.slot /\ n.slot # UNSLOTTED => n.claims = f.claims
    BY <2>2, <2>8
  <2> QED BY <2>7, <2>9, <2>10 DEF u, S
<1> QED BY <1>0, <1>1
------------------------------------------------------------------------------
(* What a turn does to the store: one fact after the other.                *)
Steps(c, t, u, k) ==
  u = [i \in 0..k |-> IF i = 0 THEN Listed(c) ELSE Resolve(c, u[i - 1], t.facts[i])]

LEMMA FactByFact ==
  ASSUME NEW c, NEW t \in Turn
  PROVE  /\ AfterFacts(c, t)[0] = Listed(c)
         /\ \A i \in 1..Len(t.facts) :
              AfterFacts(c, t)[i] = Resolve(c, AfterFacts(c, t)[i - 1], t.facts[i])
<1> DEFINE n == Len(t.facts)
           g == AfterFacts(c, t)
<1>1. n \in Nat
  BY FactsOfTurn
<1>2. g = CHOOSE u : Steps(c, t, u, n)
  BY DEF AfterFacts, Steps
<1>3. \E u : Steps(c, t, u, n)
  <2> DEFINE Bad == {k \in Nat : k <= n /\ ~\E u : Steps(c, t, u, k)}
  <2>1. SUFFICES ASSUME n \in Bad PROVE FALSE
    BY <1>1
  <2>2. PICK k \in Bad : \A l \in Bad : k <= l
    <3>1. Bad \in SUBSET Nat /\ Bad # {}
      BY <2>1
    <3> HIDE DEF Bad
    <3> QED BY <3>1, LeastOf
  <2>3. k # 0
    <3>1. Steps(c, t, [i \in 0..0 |-> Listed(c)], 0)
      BY DEF Steps
    <3> QED BY <2>2, <3>1
  <2>4. k \in Nat /\ k <= n /\ k - 1 \in Nat /\ k - 1 \notin Bad
    <3>1. k \in Nat /\ k <= n
      BY <2>2
    <3>2. k - 1 \in Nat /\ ~(k <= k - 1)
      BY <2>3, <3>1
    <3> HIDE DEF Bad
    <3> QED BY <2>2, <3>1, <3>2
  <2>5. PICK h : Steps(c, t, h, k - 1)
    BY <1>1, <2>4
  <2> DEFINE v == [i \in 0..k |-> IF i < k THEN h[i] ELSE Resolve(c, h[k - 1], t.facts[k])]
  <2>6. ASSUME NEW i \in 0..k
        PROVE  v[i] = IF i = 0 THEN Listed(c) ELSE Resolve(c, v[i - 1], t.facts[i])
    <3>1. CASE i < k
      <4>1. i \in 0..(k - 1) /\ (i = 0 \/ i - 1 \in 0..(k - 1))
        BY <2>4, <3>1
      <4>2. v[i] = h[i] /\ h[i] = IF i = 0 THEN Listed(c) ELSE Resolve(c, h[i - 1], t.facts[i])
        BY <2>5, <3>1, <4>1 DEF Steps
      <4>3. i # 0 => v[i - 1] = h[i - 1]
        BY <2>4, <3>1, <4>1
      <4> QED BY <4>2, <4>3
    <3>2. CASE i = k
      <4>1. v[i] = Resolve(c, h[k - 1], t.facts[k]) /\ v[i - 1] = h[k - 1]
        BY <2>4, <3>2
      <4> QED BY <2>3, <3>2, <4>1
    <3> QED BY <2>4, <3>1, <3>2
  <2>7. v = [i \in 0..k |-> v[i]]
    OBVIOUS
  <2> HIDE DEF v
  <2>8. Steps(c, t, v, k)
    BY <2>6, <2>7 DEF Steps
  <2> QED BY <2>2, <2>8
<1>4. Steps(c, t, g, n)
  BY <1>2, <1>3
<1> HIDE DEF g
<1>5. \A i \in 0..n : g[i] = IF i = 0 THEN Listed(c) ELSE Resolve(c, g[i - 1], t.facts[i])
  BY <1>1, <1>4 DEF Steps
<1>6. 0 \in 0..n /\ \A i \in 1..n : i \in 0..n /\ i # 0
  BY <1>1
<1>7. g[0] = Listed(c) /\ \A i \in 1..n : g[i] = Resolve(c, g[i - 1], t.facts[i])
  BY <1>5, <1>6
<1> QED BY <1>7 DEF g, n

(* A record says fact j of a text, and no later one of its first i takes   *)
(* back what it says.                                                      *)
Recent(m, t, j, i) ==
  \A k \in (j + 1)..i :
    t.facts[k].slot = m.slot /\ m.slot # UNSLOTTED => t.facts[k].claims = m.claims

Says(m, f) == m.slot = f.slot /\ m.claims = f.claims

(* After the first i facts of a text.                                      *)
Turned(c, t, i, s) ==
  /\ IsStore(s.store) /\ From(s.store, memories, c, Claims(t))
  /\ OthersKept(s.store, memories, c)
  /\ Cardinality(Of(c, memories)) <= Cardinality(Of(c, s.store))
  /\ Cardinality(Of(c, s.store)) <= Cardinality(Of(c, memories)) + i
  /\ \A m \in Live(Of(c, s.store)) : m \in memories \/ \E j \in 1..i : Says(m, t.facts[j])
  /\ i > 0 => Holds(c, s.store, t.facts[i])
  /\ Cardinality(Of(c, memories)) <= MaxExisting =>
       /\ Knows(c, s)
       /\ OneEach(c, memories) =>
            /\ OneEach(c, s.store)
            /\ \A m \in Live(Of(c, s.store)) :
                 \/ m \in memories /\ Recent(m, t, 0, i)
                 \/ \E j \in 1..i : Says(m, t.facts[j]) /\ Recent(m, t, j, i)

LEMMA TurnStarts ==
  ASSUME IsStore(memories), NEW c, NEW t \in Turn
  PROVE  Turned(c, t, 0, AfterFacts(c, t)[0])
<1> DEFINE s == AfterFacts(c, t)[0]
<1>1. s.store = memories /\ s.known = {m.id : m \in Page(Of(c, memories), MaxExisting)}
  <2>1. s = Listed(c)
    BY FactByFact
  <2> HIDE DEF s
  <2> QED BY <2>1 DEF Listed
<1> HIDE DEF s
<1>2. /\ Of(c, memories) \subseteq memories /\ IsFiniteSet(Of(c, memories))
      /\ Cardinality(Of(c, memories)) \in Nat
  BY OwnIsFinite
<1>3. MaxExisting \in Nat
  BY BenchmarkAssumption
<1>4. Cardinality(Of(c, memories)) <= MaxExisting => Knows(c, s)
  <2> SUFFICES ASSUME Cardinality(Of(c, memories)) <= MaxExisting PROVE Knows(c, s)
    OBVIOUS
  <2>1. Of(c, memories) \subseteq Memory
    BY <1>2 DEF IsStore
  <2>2. Page(Of(c, memories), MaxExisting) = Of(c, memories)
    BY <1>2, <1>3, <2>1, PageIsAll
  <2> QED BY <1>1, <2>2 DEF Knows
<1>5. \A m : Recent(m, t, 0, 0)
  BY DEF Recent
<1>6. \A m \in Live(Of(c, memories)) : m \in memories
  BY DEF Live, Of
<1>7. From(memories, memories, c, Claims(t)) /\ OthersKept(memories, memories, c)
  BY SameStore
<1>8. /\ Cardinality(Of(c, memories)) <= Cardinality(Of(c, memories))
      /\ Cardinality(Of(c, memories)) <= Cardinality(Of(c, memories)) + 0
  BY <1>2
<1> QED BY <1>1, <1>4, <1>5, <1>6, <1>7, <1>8 DEF Turned, s

LEMMA TurnGoesOn ==
  ASSUME NEW c, UserKey(c) \in Seq(STRING), NEW t \in Turn, NEW i \in 1..Len(t.facts),
         IsStore(memories), NEW s, Turned(c, t, i - 1, s)
  PROVE  Turned(c, t, i, Resolve(c, s, t.facts[i]))
<1> DEFINE f == t.facts[i]
           u == Resolve(c, s, f)
           S == s.store
           N == u.store
<1>1. f \in Fact /\ f.claims \subseteq Claims(t) /\ i \in Nat /\ i > 0 /\ i - 1 \in Nat
  BY FactsOfTurn
<1>2. IsStore(S) /\ From(S, memories, c, Claims(t)) /\ OthersKept(S, memories, c)
  BY DEF Turned
<1> HIDE DEF f
<1>3. /\ IsStore(N) /\ OthersKept(N, S, c) /\ Holds(c, N, f)
      /\ \A n \in N :
           \/ \E o \in S : /\ n.user = o.user /\ n.claims = o.claims /\ n.slot = o.slot
                           /\ n.live => n = o
           \/ n.user = UserKey(c) /\ n.claims = f.claims /\ n.slot = f.slot
      /\ Cardinality(Of(c, S)) <= Cardinality(Of(c, N))
      /\ Cardinality(Of(c, N)) <= Cardinality(Of(c, S)) + 1
  BY <1>1, <1>2, ResolveStore
<1>4. Knows(c, s) =>
        /\ Knows(c, u)
        /\ OneEach(c, S) =>
             /\ OneEach(c, N)
             /\ \A n \in Live(Of(c, N)) : n.slot = f.slot /\ n.slot # UNSLOTTED => n.claims = f.claims
  BY <1>1, <1>2, ResolveKnows
<1> HIDE DEF u
<1>5. From(N, memories, c, Claims(t))
  <2> SUFFICES ASSUME NEW n \in N
               PROVE  \/ \E o \in memories : n.user = o.user /\ n.claims = o.claims
                      \/ n.user = UserKey(c) /\ n.claims \subseteq Claims(t)
    BY DEF From
  <2>1. CASE n.user = UserKey(c) /\ n.claims = f.claims
    BY <1>1, <2>1
  <2>2. CASE \E o \in S : n.user = o.user /\ n.claims = o.claims
    <3>1. PICK o \in S : n.user = o.user /\ n.claims = o.claims
      BY <2>2
    <3>2. \/ \E p \in memories : o.user = p.user /\ o.claims = p.claims
          \/ o.user = UserKey(c) /\ o.claims \subseteq Claims(t)
      BY <1>2 DEF From
    <3> QED BY <3>1, <3>2
  <2> QED BY <1>3, <2>1, <2>2
<1>6. OthersKept(N, memories, c)
  BY <1>2, <1>3 DEF OthersKept
<1>7. /\ Cardinality(Of(c, memories)) <= Cardinality(Of(c, N))
      /\ Cardinality(Of(c, N)) <= Cardinality(Of(c, memories)) + i
  <2>1. /\ Cardinality(Of(c, memories)) \in Nat /\ Cardinality(Of(c, S)) \in Nat
        /\ Cardinality(Of(c, N)) \in Nat
    BY <1>2, <1>3, OwnIsFinite
  <2>2. /\ Cardinality(Of(c, memories)) <= Cardinality(Of(c, S))
        /\ Cardinality(Of(c, S)) <= Cardinality(Of(c, memories)) + (i - 1)
    BY DEF Turned
  <2>3. ASSUME NEW x \in Nat, NEW y \in Nat, NEW z \in Nat, x <= y, y <= x + (i - 1),
               y <= z, z <= y + 1
        PROVE  x <= z /\ z <= x + i
    BY <1>1, <2>3
  <2> HIDE DEF S, N
  <2> QED BY <1>3, <2>1, <2>2, <2>3
<1>8. ASSUME NEW n \in Live(Of(c, N)) PROVE n \in Live(Of(c, S)) \/ Says(n, f)
  <2>1. n \in N /\ n.live /\ n.user = UserKey(c)
    BY DEF Live, Of
  <2>2. CASE \E o \in S : n = o
    BY <2>1, <2>2 DEF Live, Of
  <2>3. CASE n.claims = f.claims /\ n.slot = f.slot
    BY <2>3 DEF Says
  <2> QED BY <1>3, <2>1, <2>2, <2>3
<1>9. i \in 1..i /\ \A j \in 1..(i - 1) : j \in 1..i
  BY <1>1
<1>10. ASSUME NEW m \in Live(Of(c, N))
       PROVE  m \in memories \/ \E j \in 1..i : Says(m, t.facts[j])
  <2>1. CASE Says(m, f)
    BY <1>9, <2>1 DEF f
  <2>2. CASE m \in Live(Of(c, S))
    <3>1. m \in memories \/ \E j \in 1..(i - 1) : Says(m, t.facts[j])
      BY <2>2 DEF Turned
    <3> QED BY <1>9, <3>1
  <2> QED BY <1>8, <2>1, <2>2
<1>11. ASSUME Cardinality(Of(c, memories)) <= MaxExisting, OneEach(c, memories),
              NEW m \in Live(Of(c, N))
       PROVE  \/ m \in memories /\ Recent(m, t, 0, i)
              \/ \E j \in 1..i : Says(m, t.facts[j]) /\ Recent(m, t, j, i)
  <2>1. Knows(c, s) /\ OneEach(c, S)
    BY <1>11 DEF Turned
  <2>2. m.slot = f.slot /\ m.slot # UNSLOTTED => m.claims = f.claims
    BY <1>4, <2>1
  <2>3. CASE Says(m, f)
    <3>1. (i + 1)..i = {}
      BY <1>1
    <3>2. Recent(m, t, i, i)
      BY <3>1 DEF Recent
    <3> QED BY <1>9, <2>3, <3>2 DEF f
  <2>4. CASE m \in Live(Of(c, S))
    <3>1. \/ m \in memories /\ Recent(m, t, 0, i - 1)
          \/ \E j \in 1..(i - 1) : Says(m, t.facts[j]) /\ Recent(m, t, j, i - 1)
      BY <1>11, <2>4 DEF Turned
    <3>2. ASSUME NEW j \in Nat, Recent(m, t, j, i - 1) PROVE Recent(m, t, j, i)
      <4>1. \A k \in (j + 1)..i : k \in (j + 1)..(i - 1) \/ k = i
        BY <1>1
      <4> QED BY <2>2, <3>2, <4>1 DEF Recent, f
    <3>3. \A j \in 1..(i - 1) : j \in Nat
      OBVIOUS
    <3> QED BY <1>9, <3>1, <3>2, <3>3
  <2> QED BY <1>8, <2>3, <2>4
<1>12. Cardinality(Of(c, memories)) <= MaxExisting =>
         Knows(c, u) /\ (OneEach(c, memories) => OneEach(c, N))
  BY <1>4 DEF Turned
<1> HIDE DEF N
<1>13. Turned(c, t, i, u)
  BY <1>3, <1>5, <1>6, <1>7, <1>10, <1>11, <1>12 DEF Turned, N, f
<1> QED BY <1>13 DEF u, f

LEMMA TurnDone ==
  ASSUME IsStore(memories), NEW c, UserKey(c) \in Seq(STRING), NEW t \in Turn
  PROVE  Turned(c, t, Len(t.facts), AfterFacts(c, t)[Len(t.facts)])
<1> DEFINE n == Len(t.facts)
           Bad == {i \in Nat : i <= n /\ ~Turned(c, t, i, AfterFacts(c, t)[i])}
<1>1. n \in Nat
  BY FactsOfTurn
<1>2. SUFFICES ASSUME n \in Bad PROVE FALSE
  BY <1>1
<1>3. PICK k \in Bad : \A l \in Bad : k <= l
  <2>1. Bad \in SUBSET Nat /\ Bad # {}
    BY <1>2
  <2> HIDE DEF Bad
  <2> QED BY <2>1, LeastOf
<1>4. k \in Nat /\ k <= n /\ ~Turned(c, t, k, AfterFacts(c, t)[k])
  BY <1>3
<1>5. k # 0
  BY <1>4, TurnStarts
<1>6. k - 1 \in Nat /\ k - 1 <= n /\ ~(k <= k - 1) /\ k \in 1..n
  BY <1>1, <1>4, <1>5
<1>7. k - 1 \notin Bad
  <2> HIDE DEF Bad
  <2> QED BY <1>3, <1>6
<1>8. Turned(c, t, k - 1, AfterFacts(c, t)[k - 1])
  BY <1>6, <1>7
<1>9. AfterFacts(c, t)[k] = Resolve(c, AfterFacts(c, t)[k - 1], t.facts[k])
  BY <1>6, FactByFact
<1>10. PICK s : s = AfterFacts(c, t)[k - 1]
  OBVIOUS
<1>11. Turned(c, t, k, Resolve(c, s, t.facts[k]))
  BY <1>6, <1>8, <1>10, TurnGoesOn
<1> QED BY <1>4, <1>9, <1>10, <1>11

(* The texts that leave no record.                                         *)
Blocked(t) == t.blank \/ t.source # "user" \/ t.marked

LEMMA ManagerIsTurned ==
  ASSUME IsStore(memories), NEW c, UserKey(c) \in Seq(STRING), NEW t \in Turn
  PROVE  IF Blocked(t) THEN ManagerApply(c, t) = memories
         ELSE \E s : Turned(c, t, Len(t.facts), s) /\ ManagerApply(c, t) = s.store
<1>1. CASE Blocked(t)
  BY <1>1 DEF Blocked, ManagerApply
<1>2. CASE ~Blocked(t)
  <2>1. ManagerApply(c, t) = AfterFacts(c, t)[Len(t.facts)].store
    BY <1>2 DEF Blocked, ManagerApply
  <2>2. Turned(c, t, Len(t.facts), AfterFacts(c, t)[Len(t.facts)])
    BY TurnDone
  <2> QED BY <1>2, <2>1, <2>2
<1> QED BY <1>1, <1>2

LEMMA ManagerOutcome ==
  ASSUME IsStore(memories), NEW c, UserKey(c) \in Seq(STRING), NEW t \in Turn
  PROVE  LET N == ManagerApply(c, t)
         IN /\ IsStore(N) /\ From(N, memories, c, Claims(t)) /\ OthersKept(N, memories, c)
            /\ Cardinality(Of(c, memories)) <= Cardinality(Of(c, N))
            /\ Cardinality(Of(c, N)) <= Cardinality(Of(c, memories)) + Len(t.facts)
<1> DEFINE N == ManagerApply(c, t)
<1>1. CASE Blocked(t)
  <2>1. N = memories
    BY <1>1, ManagerIsTurned
  <2>2. Cardinality(Of(c, memories)) \in Nat /\ Len(t.facts) \in Nat
    BY OwnIsFinite, FactsOfTurn
  <2> HIDE DEF N
  <2>3. /\ Cardinality(Of(c, memories)) <= Cardinality(Of(c, memories))
        /\ Cardinality(Of(c, memories)) <= Cardinality(Of(c, memories)) + Len(t.facts)
    BY <2>2
  <2> QED BY <2>1, <2>3, SameStore DEF N
<1>2. CASE ~Blocked(t)
  <2>1. PICK s : Turned(c, t, Len(t.facts), s) /\ N = s.store
    BY <1>2, ManagerIsTurned
  <2> QED BY <2>1 DEF Turned
<1> QED BY <1>1, <1>2

(* The manager keeps at most one live record per user and attribute, as    *)
(* long as one listing holds all records of the user.                      *)
OnePerSlot(M) ==
  \A a, b \in M :
    /\ a.user = b.user /\ a.slot = b.slot /\ a.slot # UNSLOTTED /\ a.live /\ b.live
    /\ Cardinality({m \in M : m.user = a.user}) <= MaxExisting
    => a = b

LEMMA OneForEach ==
  ASSUME NEW M, OnePerSlot(M), NEW c, Cardinality(Of(c, M)) <= MaxExisting
  PROVE  OneEach(c, M)
<1> SUFFICES ASSUME NEW a \in Live(Of(c, M)), NEW b \in Live(Of(c, M)),
                    a.slot = b.slot, a.slot # UNSLOTTED
             PROVE  a = b
  BY DEF OneEach
<1>1. a \in M /\ b \in M /\ a.live /\ b.live /\ a.user = UserKey(c) /\ b.user = UserKey(c)
  BY DEF Live, Of
<1>2. {m \in M : m.user = a.user} = Of(c, M)
  BY <1>1 DEF Of
<1> QED BY <1>1, <1>2 DEF OnePerSlot

LEMMA ManagerKeepsOne ==
  ASSUME IsStore(memories), NEW c, UserKey(c) \in Seq(STRING), NEW t \in Turn, OnePerSlot(memories)
  PROVE  OnePerSlot(ManagerApply(c, t))
<1> DEFINE N == ManagerApply(c, t)
<1>1. CASE Blocked(t)
  BY <1>1, ManagerIsTurned
<1>2. CASE ~Blocked(t)
  <2>1. PICK s : Turned(c, t, Len(t.facts), s) /\ N = s.store
    BY <1>2, ManagerIsTurned
  <2> HIDE DEF N
  <2>2. /\ IsStore(N) /\ OthersKept(N, memories, c)
        /\ Cardinality(Of(c, memories)) <= Cardinality(Of(c, N))
        /\ Cardinality(Of(c, memories)) <= MaxExisting /\ OneEach(c, memories) => OneEach(c, N)
    BY <2>1 DEF Turned
  <2>3. ASSUME NEW a \in N, NEW b \in N, a.user = b.user, a.slot = b.slot, a.slot # UNSLOTTED,
               a.live, b.live, Cardinality({m \in N : m.user = a.user}) <= MaxExisting
        PROVE  a = b
    <3>1. CASE a.user = UserKey(c)
      <4>1. {m \in N : m.user = a.user} = Of(c, N)
        BY <3>1 DEF Of
      <4>2. Cardinality(Of(c, memories)) <= MaxExisting
        <5>1. /\ Cardinality(Of(c, memories)) \in Nat /\ Cardinality(Of(c, N)) \in Nat
              /\ MaxExisting \in Nat
          BY <2>2, OwnIsFinite, BenchmarkAssumption
        <5>2. Cardinality(Of(c, N)) <= MaxExisting
          BY <2>3, <4>1
        <5>3. Cardinality(Of(c, memories)) <= Cardinality(Of(c, N))
          BY <2>2
        <5> QED BY ONLY <5>1, <5>2, <5>3, SMT
      <4>3. OneEach(c, N)
        BY <2>2, <4>2, OneForEach
      <4>4. a \in Live(Of(c, N)) /\ b \in Live(Of(c, N))
        BY <2>3, <3>1 DEF Live, Of
      <4> QED BY <2>3, <4>3, <4>4 DEF OneEach
    <3>2. CASE a.user # UserKey(c)
      <4>1. {m \in N : m.user = a.user} = {m \in memories : m.user = a.user}
        BY <2>2, <3>2 DEF OthersKept
      <4>2. a \in memories /\ b \in memories
        BY <2>2, <2>3, <3>2 DEF OthersKept
      <4> QED BY <2>3, <4>1, <4>2 DEF OnePerSlot
    <3> QED BY <3>1, <3>2
  <2>4. OnePerSlot(N)
    BY <2>3 DEF OnePerSlot
  <2> QED BY <2>4 DEF N
<1> QED BY <1>1, <1>2

LEMMA NaiveOutcome ==
  ASSUME IsStore(memories), NEW c, UserKey(c) \in Seq(STRING), NEW t \in Turn
  PROVE  LET N == NaiveApply(c, t)
         IN IsStore(N) /\ From(N, memories, c, Claims(t)) /\ OthersKept(N, memories, c)
<1>1. Verbatim(t) \in Fact /\ Verbatim(t).claims \subseteq Claims(t)
  BY FactsOfTurn
<1>2. CASE t.blank
  BY <1>2, SameStore DEF NaiveApply
<1>3. CASE ~t.blank
  <2>1. NaiveApply(c, t) = memories \cup {Stored(c, memories, Verbatim(t))}
    BY <1>3 DEF NaiveApply
  <2>2. PICK f, X : f \in Fact /\ f = Verbatim(t) /\ X = Claims(t) /\ f.claims \subseteq X
    BY <1>1
  <2>3. LET N == memories \cup {Stored(c, memories, f)}
        IN IsStore(N) /\ From(N, memories, c, X) /\ OthersKept(N, memories, c)
    BY <2>2, Added
  <2> QED BY <2>1, <2>2, <2>3
<1> QED BY <1>2, <1>3

LEMMA Mem0Outcome ==
  ASSUME IsStore(memories), NEW c, UserKey(c) \in Seq(STRING), NEW t \in Turn,
         NEW M \in Mem0Outcomes(c, t)
  PROVE  IsStore(M) /\ From(M, memories, c, Claims(t)) /\ OthersKept(M, memories, c)
<1>1. CASE t.blank
  BY <1>1, SameStore DEF Mem0Outcomes
<1>2. CASE ~t.blank
  <2> DEFINE Own == Of(c, memories)
             r == Stored(c, memories, Verbatim(t))
             Rest(D, R) == (memories \ (D \cup R)) \cup {[m EXCEPT !.claims = t.claims] : m \in R}
  <2>1. PICK D \in SUBSET Own, R \in SUBSET Own : M = Rest(D, R) \/ M = Rest(D, R) \cup {r}
    <3> DEFINE Two(D, R) == {Rest(D, R), Rest(D, R) \cup {r}}
           U == UNION {Two(D, R) : D \in SUBSET Own, R \in SUBSET Own}
    <3>0. Mem0Outcomes(c, t) = IF t.blank THEN {memories} ELSE U
      BY DEF Mem0Outcomes
    <3> HIDE DEF U
    <3>1. Mem0Outcomes(c, t) = U
      BY <1>2, <3>0
    <3> USE DEF U
    <3> HIDE DEF Two
    <3>2. PICK D \in SUBSET Own, R \in SUBSET Own : M \in Two(D, R)
      BY <3>1
    <3> QED BY <3>2 DEF Two
  <2> DEFINE K == (memories \ (D \cup R)) \cup R
             g == [m \in K |-> IF m \in R THEN [m EXCEPT !.claims = t.claims] ELSE m]
             N == {g[m] : m \in K}
  <2>2. Own \subseteq memories /\ \A m \in Own : m.user = UserKey(c)
    BY DEF Of
  <2>3. /\ r \in Memory /\ (\A m \in memories : m.id # r.id)
        /\ r.user = UserKey(c) /\ r.claims = t.claims
    <3>1. Verbatim(t) \in Fact /\ Verbatim(t).claims = t.claims
      BY FactsOfTurn
    <3> QED BY <3>1, StoredIsNew
  <2>4. t.claims \in SUBSET STRING /\ t.claims \subseteq Claims(t)
    BY FactsOfTurn DEF Turn
  <2> HIDE DEF Own, r
  <2>5. K \subseteq memories
    BY <2>2
  <2>6. Rest(D, R) = N
    OBVIOUS
  <2>7. \A m \in K : /\ g[m] \in Memory /\ g[m].id = m.id /\ g[m].user = m.user
                     /\ m \notin R => g[m] = m
                     /\ m \in R => g[m].claims = t.claims
    BY <2>4, <2>5 DEF IsStore, Memory
  <2>8. \A m \in memories : m.user # UserKey(c) => m \in K /\ m \notin R
    BY <2>2
  <2>9. \A m \in R : m.user = UserKey(c)
    BY <2>2
  <2>10. g \in [K -> Memory]
    BY <2>7
  <2> HIDE DEF K, g, Rest
  <2>11. IsStore(K)
    BY <2>5, SmallerStore
  <2>12. IsStore(N)
    BY <2>7, <2>10, <2>11, RewrittenStore
  <2>13. \A n \in N : n.id # r.id
    BY <2>3, <2>5, <2>7
  <2>14. \A n \in N : \/ n \in memories
                      \/ n.user = UserKey(c) /\ n.claims = t.claims
    BY <2>5, <2>7, <2>9
  <2>15. \A m \in memories : m.user # UserKey(c) => m \in N
    BY <2>7, <2>8
  <2> HIDE DEF N
  <2>16. IsStore(M)
    BY <2>1, <2>3, <2>6, <2>12, <2>13, LargerStore
  <2>17. /\ \A n \in M : n \in memories \/ (n.user = UserKey(c) /\ n.claims \subseteq Claims(t))
         /\ \A m \in memories : m.user # UserKey(c) => m \in M
    BY <2>1, <2>3, <2>4, <2>6, <2>14, <2>15
  <2> QED BY <2>16, <2>17 DEF From, OthersKept
<1> QED BY <1>1, <1>2

LEMMA OutcomesAreStores ==
  ASSUME IsStore(memories), NEW c, UserKey(c) \in Seq(STRING), NEW t \in Turn,
         NEW arm, NEW M \in Outcomes(arm, c, t)
  PROVE  IsStore(M) /\ From(M, memories, c, Claims(t)) /\ OthersKept(M, memories, c)
<1>1. CASE arm = "manager"
  BY <1>1, ManagerOutcome DEF Outcomes
<1>2. CASE arm = "mem0"
  BY <1>2, Mem0Outcome DEF Outcomes
<1>3. CASE arm # "manager" /\ arm # "mem0"
  BY <1>3, NaiveOutcome DEF Outcomes
<1> QED BY <1>1, <1>2, <1>3
------------------------------------------------------------------------------
(* What a case whose texts have a fact at most told the store so far.      *)
IsFact(t) == ~Blocked(t) /\ Len(t.facts) = 1

TurnAt(c, j) == History(c)[j].turn

Single(c, n) == \A j \in 1..n : Len(TurnAt(c, j).facts) <= 1

(* The naive writer has a record of every text; the manager of facts only, *)
(* and of the last one certainly; neither has more than there were turns.  *)
Tells(arm, c, n, M) ==
  /\ Cardinality(Of(c, M)) <= n
  /\ arm = "naive" =>
       \A j \in 1..n : ~TurnAt(c, j).blank =>
         \E m \in Live(Of(c, M)) : m.claims = TurnAt(c, j).claims
  /\ arm = "manager" =>
       /\ \A m \in Live(Of(c, M)) : \E j \in 1..n :
            IsFact(TurnAt(c, j)) /\ Says(m, TurnAt(c, j).facts[1])
       /\ n > 0 /\ IsFact(TurnAt(c, n)) => Holds(c, M, TurnAt(c, n).facts[1])

LEMMA NothingTold ==
  ASSUME NEW arm, NEW c, NEW M, Of(c, M) = {}
  PROVE  Tells(arm, c, 0, M)
<1>1. Live(Of(c, M)) = {}
  BY DEF Live
<1>2. Cardinality(Of(c, M)) = 0
  BY FS_EmptySet
<1>3. \A j : j \notin 1..0
  OBVIOUS
<1> QED BY <1>1, <1>2, <1>3 DEF Tells

LEMMA NaiveTells ==
  ASSUME IsStore(memories), NEW c \in EvalCase, NEW n \in Nat, n < Len(History(c)),
         Tells("naive", c, n, memories)
  PROVE  Tells("naive", c, n + 1, NaiveApply(c, TurnAt(c, n + 1)))
<1> DEFINE t == TurnAt(c, n + 1)
           r == Stored(c, memories, Verbatim(t))
           M == NaiveApply(c, t)
<1>1. t \in Turn
  BY TurnOfHistory DEF TurnAt
<1> HIDE DEF t
<1>2. r.user = UserKey(c) /\ r.claims = t.claims /\ r.live
  <2>1. Verbatim(t) \in Fact /\ Verbatim(t).claims = t.claims
    BY <1>1, FactsOfTurn
  <2> QED BY <2>1, KeyIsSeq, StoredIsNew
<1>3. /\ IsFiniteSet(Of(c, memories)) /\ Cardinality(Of(c, memories)) \in Nat
      /\ Cardinality(Of(c, memories)) <= n
  BY OwnIsFinite DEF Tells
<1>4. M = IF t.blank THEN memories ELSE memories \cup {r}
  BY DEF NaiveApply
<1> HIDE DEF r, M
<1>5. Of(c, M) = IF t.blank THEN Of(c, memories) ELSE Of(c, memories) \cup {r}
  BY <1>2, <1>4 DEF Of
<1>6. /\ \A m \in Live(Of(c, memories)) : m \in Live(Of(c, M))
      /\ ~t.blank => r \in Live(Of(c, M))
  BY <1>2, <1>5 DEF Live
<1>7. Cardinality(Of(c, M)) <= n + 1
  <2> DEFINE A == Of(c, memories)
  <2>1. IsFiniteSet(A)
    BY <1>3
  <2> HIDE DEF A
  <2>2. /\ Cardinality(A \cup {r}) <= Cardinality(A) + 1 /\ Cardinality(A \cup {r}) \in Nat
    BY <2>1, OneMore
  <2>3. Cardinality(A) \in Nat /\ Cardinality(A) <= n
    BY <1>3 DEF A
  <2>4. Cardinality(A) <= n + 1 /\ Cardinality(A \cup {r}) <= n + 1
    BY <2>2, <2>3
  <2>5. Of(c, M) = A \/ Of(c, M) = A \cup {r}
    BY <1>5 DEF A
  <2> QED BY <2>4, <2>5
<1>8. \A j \in 1..n : ~TurnAt(c, j).blank =>
        \E m \in Live(Of(c, memories)) : m.claims = TurnAt(c, j).claims
  BY DEF Tells
<1>9. ASSUME NEW j \in 1..(n + 1), ~TurnAt(c, j).blank
      PROVE  \E m \in Live(Of(c, M)) : m.claims = TurnAt(c, j).claims
  <2>1. CASE j \in 1..n
    BY <1>6, <1>8, <1>9, <2>1
  <2>2. CASE j = n + 1
    <3>1. ~t.blank /\ TurnAt(c, j).claims = t.claims
      BY <1>9, <2>2 DEF t
    <3> QED BY <1>2, <1>6, <3>1
  <2> QED BY <2>1, <2>2
<1> QED BY <1>7, <1>9 DEF Tells, M, t

LEMMA ManagerTells ==
  ASSUME IsStore(memories), NEW c \in EvalCase, NEW n \in Nat, n < Len(History(c)),
         Len(TurnAt(c, n + 1).facts) <= 1, Tells("manager", c, n, memories)
  PROVE  Tells("manager", c, n + 1, ManagerApply(c, TurnAt(c, n + 1)))
<1> DEFINE t == TurnAt(c, n + 1)
           M == ManagerApply(c, t)
           Told(m, j) == IsFact(TurnAt(c, j)) /\ Says(m, TurnAt(c, j).facts[1])
<1>1. t \in Turn /\ Len(t.facts) \in Nat /\ Len(t.facts) <= 1
  <2>1. t \in Turn
    BY TurnOfHistory DEF TurnAt
  <2> QED BY <2>1, FactsOfTurn
<1> HIDE DEF t
<1>2. UserKey(c) \in Seq(STRING)
  BY KeyIsSeq
<1>3. Cardinality(Of(c, memories)) \in Nat /\ Cardinality(Of(c, memories)) <= n
  BY OwnIsFinite DEF Tells
<1>4. Cardinality(Of(c, M)) <= n + 1
  <2>1. IsStore(M) /\ Cardinality(Of(c, M)) <= Cardinality(Of(c, memories)) + Len(t.facts)
    BY <1>1, <1>2, ManagerOutcome
  <2>2. Cardinality(Of(c, M)) \in Nat
    BY <2>1, OwnIsFinite
  <2> HIDE DEF M
  <2> QED BY <1>1, <1>3, <2>1, <2>2
<1>5. /\ \A m \in Live(Of(c, M)) : m \in Live(Of(c, memories)) \/ (IsFact(t) /\ Says(m, t.facts[1]))
      /\ IsFact(t) => Holds(c, M, t.facts[1])
  <2>1. CASE Blocked(t)
    BY <1>1, <1>2, <2>1, ManagerIsTurned DEF IsFact
  <2>2. CASE ~Blocked(t)
    <3>1. PICK s : Turned(c, t, Len(t.facts), s) /\ M = s.store
      BY <1>1, <1>2, <2>2, ManagerIsTurned
    <3>2. /\ \A m \in Live(Of(c, M)) : m \in memories \/ \E j \in 1..Len(t.facts) : Says(m, t.facts[j])
          /\ Len(t.facts) > 0 => Holds(c, M, t.facts[Len(t.facts)])
      BY <3>1 DEF Turned
    <3>3. \A j \in 1..Len(t.facts) : j = 1 /\ Len(t.facts) = 1
      <4>1. \A k \in Nat : k <= 1 => \A j \in 1..k : j = 1 /\ k = 1
        OBVIOUS
      <4> QED BY ONLY <1>1, <4>1
    <3>4. \A m \in Live(Of(c, M)) : m \in memories => m \in Live(Of(c, memories))
      BY DEF Live, Of
    <3> QED BY <2>2, <3>2, <3>3, <3>4 DEF IsFact
  <2> QED BY <2>1, <2>2
<1>6. \A m \in Live(Of(c, memories)) : \E j \in 1..n : Told(m, j)
  BY DEF Tells
<1> HIDE DEF M
<1>7. ASSUME NEW m \in Live(Of(c, M)) PROVE \E j \in 1..(n + 1) : Told(m, j)
  <2>1. CASE m \in Live(Of(c, memories))
    <3>1. PICK j \in 1..n : Told(m, j)
      BY <1>6, <2>1
    <3>2. j \in 1..(n + 1)
      OBVIOUS
    <3> HIDE DEF Told
    <3> QED BY <3>1, <3>2
  <2>2. CASE IsFact(t) /\ Says(m, t.facts[1])
    <3>1. Told(m, n + 1) /\ n + 1 \in 1..(n + 1)
      BY <2>2 DEF t
    <3> HIDE DEF Told
    <3> QED BY <3>1
  <2> QED BY <1>5, <2>1, <2>2
<1> QED BY <1>4, <1>5, <1>7 DEF Tells, M, t

(* The conflict cases that tell the writers apart, spelled out.            *)
LEMMA TakesBackMeans ==
  ASSUME NEW c \in EvalCase, TakesBack(c)
  PROVE  LET n == Len(History(c))
             l == TurnAt(c, n)
         IN /\ n \in Nat /\ n > 0 /\ n <= TopK /\ n <= MaxExisting /\ Single(c, n)
            /\ IsFact(l) /\ l.facts[1].slot # UNSLOTTED /\ l.facts[1].claims = c.expect_any
            /\ c.expect_any \cap c.reject_any = {} /\ c.reject_any # {}
            /\ ~c.probe.blank /\ c.probe.claims \cap c.reject_any = {}
            /\ \E j \in 1..n : ~TurnAt(c, j).blank /\ TurnAt(c, j).claims = c.reject_any
            /\ \A j \in 1..n : Claims(TurnAt(c, j)) \cap c.reject_any # {} =>
                                 TurnAt(c, j).facts[1].slot = l.facts[1].slot
<1> DEFINE n == Len(History(c))
           s == [i \in DOMAIN History(c) |-> History(c)[i].turn]
           l == Last(s)
           Makes(t, claims) ==
             /\ t.source = "user" /\ ~t.marked /\ ~t.blank /\ t.claims = claims
             /\ t.facts = <<[claims |-> claims, slot |-> l.facts[1].slot]>>
<1>1. n \in Nat /\ DOMAIN History(c) = 1..n
  BY HistoryIsSeq, LenProperties
<1>2. Len(s) = n /\ DOMAIN s = 1..n /\ \A j \in 1..n : s[j] = TurnAt(c, j)
  <2>1. s = [j \in 1..n |-> TurnAt(c, j)]
    BY <1>1 DEF TurnAt
  <2> HIDE DEF s, n
  <2>2. s \in Seq(Range(s))
    <3>1. s \in [1..n -> Range(s)]
      BY <2>1 DEF Range
    <3> QED BY <1>1, <3>1, FunIsSeq
  <2>3. DOMAIN s = 1..n
    BY <2>1
  <2>4. Len(s) = n
    BY <1>1, <2>2, <2>3, LenProperties
  <2> QED BY <2>1, <2>3, <2>4
<1>3. /\ c.reject_any # {} /\ c.expect_any \cap c.reject_any = {}
      /\ ~c.probe.blank /\ c.probe.claims \cap c.reject_any = {}
      /\ Len(s) <= TopK /\ Len(s) <= MaxExisting
      /\ \A t \in Range(s) : Len(t.facts) <= 1
      /\ \E t \in Range(s) : Makes(t, c.reject_any)
      /\ Makes(l, c.expect_any) /\ l.facts[1].slot # UNSLOTTED
      /\ \A t \in Range(s) : Claims(t) \cap c.reject_any # {} => Makes(t, t.claims)
  BY DEF TakesBack
<1> HIDE DEF s
<1>4. l = TurnAt(c, n) /\ n > 0
  <2>1. n # 0
    <3>1. PICK t \in Range(s) : TRUE
      BY <1>3
    <3>2. PICK j \in 1..n : t = s[j]
      BY <1>2 DEF Range
    <3> QED BY <1>1, <3>2
  <2>2. l = s[n]
    BY <1>2 DEF Last
  <2>3. n \in 1..n /\ n > 0
    BY <1>1, <2>1
  <2> QED BY <1>2, <2>2, <2>3
<1> HIDE DEF l, n
<1>5. \A j \in 1..n : TurnAt(c, j) \in Range(s)
  BY <1>2 DEF Range
<1>6. \A t \in Range(s) : \E j \in 1..n : t = TurnAt(c, j)
  BY <1>2 DEF Range
<1>7. ASSUME NEW t, NEW claims, Makes(t, claims)
      PROVE  /\ IsFact(t) /\ ~t.blank /\ t.claims = claims
             /\ t.facts[1].claims = claims /\ t.facts[1].slot = l.facts[1].slot
  <2>1. PICK f : f = [claims |-> claims, slot |-> l.facts[1].slot]
    OBVIOUS
  <2>2. t.facts = <<f>> /\ t.source = "user" /\ ~t.marked /\ ~t.blank /\ t.claims = claims
    BY <1>7, <2>1
  <2>3. Len(t.facts) = 1 /\ t.facts[1] = f
    BY <2>2
  <2> QED BY <2>1, <2>2, <2>3 DEF IsFact, Blocked
<1>8. IsFact(l) /\ l.facts[1].claims = c.expect_any
  BY <1>3, <1>7
<1>9. \E j \in 1..n : ~TurnAt(c, j).blank /\ TurnAt(c, j).claims = c.reject_any
  <2>1. PICK t \in Range(s) : Makes(t, c.reject_any)
    BY <1>3
  <2>2. ~t.blank /\ t.claims = c.reject_any
    BY <1>7, <2>1
  <2> QED BY <1>6, <2>2
<1>10. \A j \in 1..n : Claims(TurnAt(c, j)) \cap c.reject_any # {} =>
                         TurnAt(c, j).facts[1].slot = l.facts[1].slot
  <2> SUFFICES ASSUME NEW j \in 1..n, Claims(TurnAt(c, j)) \cap c.reject_any # {}
               PROVE  TurnAt(c, j).facts[1].slot = l.facts[1].slot
    OBVIOUS
  <2>1. Makes(TurnAt(c, j), TurnAt(c, j).claims)
    BY <1>3, <1>5
  <2> QED BY <1>7, <2>1
<1>11. Single(c, n)
  BY <1>3, <1>5 DEF Single
<1>12. n <= TopK /\ n <= MaxExisting
  BY <1>2, <1>3
<1> QED BY <1>1, <1>3, <1>4, <1>8, <1>9, <1>10, <1>11, <1>12 DEF n

(* A recall that all records fit into returns all that is live.            *)
LEMMA AllIsRecalled ==
  ASSUME IsStore(memories), NEW c, NEW a, HasMemory(a), NEW t, ~t.blank,
         NEW R \in Recalls(a, c, t), Cardinality(Of(c, memories)) <= TopK
  PROVE  R = Live(Of(c, memories))
<1> DEFINE own == Of(c, memories)
           most == Overfetch * TopK
<1>1. /\ IsFiniteSet(own) /\ Cardinality(own) \in Nat /\ IsFiniteSet(Live(own))
      /\ Cardinality(Live(own)) \in Nat /\ Cardinality(Live(own)) <= Cardinality(own)
  BY OwnIsFinite
<1>2. TopK \in Nat /\ most \in Nat /\ TopK <= most
  <2>1. TopK \in Nat /\ Overfetch \in Nat /\ Overfetch >= 1
    BY BenchmarkAssumption
  <2> QED BY <2>1
<1>3. Cardinality(own) <= TopK
  OBVIOUS
<1>4. PICK found \in AtMost(own, most) : R \in AtMost(Live(found), TopK)
  BY DEF Recalls
<1> HIDE DEF own, most
<1>5. ASSUME NEW S, IsFiniteSet(S), Cardinality(S) \in Nat, NEW n \in Nat, Cardinality(S) <= n,
             NEW Q \in AtMost(S, n)
      PROVE  Q = S
  <2>1. Q \in SUBSET S /\ Cardinality(Q) = IF Cardinality(S) < n THEN Cardinality(S) ELSE n
    BY DEF AtMost
  <2>2. Cardinality(Q) = Cardinality(S)
    BY <1>5, <2>1
  <2> QED BY <1>5, <2>1, <2>2, FS_Subset
<1>6. found = own
  BY <1>1, <1>2, <1>3, <1>4, <1>5
<1>7. Cardinality(Live(own)) <= TopK
  BY <1>1, <1>2, <1>3
<1>8. R = Live(own)
  BY <1>1, <1>2, <1>4, <1>5, <1>6, <1>7
<1> QED BY <1>8 DEF own
------------------------------------------------------------------------------
(* The store and the transcripts hold what cases up to the current one     *)
(* said; in the conversation of the current probe nothing was said yet.    *)
PositionOK == position \in [case : Nat \ {0}, replayed : Nat]

Witnessed(m, last) ==
  \E k \in DOMAIN cases :
    k <= last /\ m.user = UserKey(cases[k]) /\ m.claims \subseteq SaidIn(cases[k])

HeldOK == \A m \in memories : Witnessed(m, position.case)

Heard(m, last) ==
  \E k \in DOMAIN cases, t \in Seq(STRING) :
    /\ k <= last /\ m.user = UserKey(cases[k]) /\ m.thread = cases[k].id \o t
    /\ k = last => t # cases[k].probe_thread

HeardOK == \A m \in messages : Heard(m, position.case)

SlotOK == phase = "run" /\ arms # <<>> /\ Head(arms) = "manager" => OnePerSlot(memories)

(* The case that is replayed is one of the file, and its id is its own.    *)
LEMMA CurrentCase ==
  ASSUME InputOK, CasesOK, PositionOK, Running
  PROVE  /\ position.case \in DOMAIN cases /\ position.case \in Nat
         /\ Case \in EvalCase /\ Case \in Range(file) /\ Case.probe \in Turn
         /\ Case = cases[position.case] /\ ProbeThreadIsNew(Case)
         /\ \A k \in DOMAIN cases : cases[k].id = Case.id => k = position.case
<1>1. /\ cases \in Seq(EvalCase) /\ Range(cases) \subseteq Range(file) /\ phase = "run"
      /\ \A k, l \in DOMAIN cases : cases[k].id = cases[l].id => k = l
      /\ \A k \in DOMAIN cases : ProbeThreadIsNew(cases[k])
  BY CasesAreOfTheFile DEF Running
<1>2. position.case \in 1..Len(cases) /\ DOMAIN cases = 1..Len(cases) /\ position.case \in Nat
  BY <1>1, LenProperties DEF Running, PositionOK
<1>3. Case \in EvalCase /\ Case \in Range(file)
  BY <1>1, <1>2, ElementOfSeq DEF Case, Range
<1>4. Case.probe \in Turn
  BY <1>3 DEF EvalCase
<1> QED BY <1>1, <1>2, <1>3, <1>4 DEF Case

(* What replaying a turn or asking the probe makes of the store: records   *)
(* of what the case said, beside what was there.                           *)
LEMMA StoreStep ==
  ASSUME InputOK, CasesOK, PositionOK, IsStore(memories), ReplayTurn \/ Probe
  PROVE  /\ IsStore(memories') /\ From(memories', memories, Case, SaidIn(Case))
         /\ Head(arms) = "manager" /\ OnePerSlot(memories) => OnePerSlot(memories')
<1>1. Case \in EvalCase /\ Running
  BY CurrentCase DEF ReplayTurn, Probe
<1>2. \E t \in Turn : /\ Claims(t) \subseteq SaidIn(Case)
                      /\ memories' \in {memories} \cup Outcomes(Head(arms), Case, t)
                      /\ Head(arms) = "manager" => memories' \in Outcomes(Head(arms), Case, t)
  <2>1. CASE ReplayTurn
    <3> DEFINE t == History(Case)[position.replayed + 1].turn
    <3>1. position.replayed \in Nat /\ position.replayed < Len(History(Case))
      BY <2>1 DEF ReplayTurn, PositionOK
    <3>2. t \in Turn /\ Claims(t) \subseteq SaidIn(Case)
      BY <1>1, <3>1, TurnOfHistory
    <3>3. memories' \in IF t.source = "user" /\ ~HasMemory(Head(arms)) THEN {memories}
                        ELSE Outcomes(Head(arms), Case, t)
      BY <2>1 DEF ReplayTurn
    <3> HIDE DEF t
    <3>4. Head(arms) = "manager" => HasMemory(Head(arms))
      BY DEF HasMemory
    <3> QED BY <3>2, <3>3, <3>4
  <2>2. CASE Probe
    <3>1. Case.probe \in Turn /\ Claims(Case.probe) \subseteq SaidIn(Case)
      <4>1. Case.probe \in Turn
        BY <1>1, CurrentCase
      <4>2. Claims(Case.probe) \subseteq SaidIn(Case)
        BY ProbeIsSaid
      <4> QED BY <4>1, <4>2
    <3>2. memories' \in IF HasMemory(Head(arms)) THEN Outcomes(Head(arms), Case, Case.probe)
                        ELSE {memories}
      BY <2>2 DEF Probe
    <3>3. Head(arms) = "manager" => HasMemory(Head(arms))
      BY DEF HasMemory
    <3> QED BY <3>1, <3>2, <3>3
  <2> QED BY <2>1, <2>2
<1>3. PICK t \in Turn : /\ Claims(t) \subseteq SaidIn(Case)
                        /\ memories' \in {memories} \cup Outcomes(Head(arms), Case, t)
                        /\ Head(arms) = "manager" => memories' \in Outcomes(Head(arms), Case, t)
  BY <1>2
<1>4. PICK M \in {memories} \cup Outcomes(Head(arms), Case, t) : M = memories'
  BY <1>3
<1>5. IsStore(M) /\ From(M, memories, Case, Claims(t))
  <2>1. CASE M = memories
    BY <2>1, SameStore
  <2>2. CASE M \in Outcomes(Head(arms), Case, t)
    BY <1>1, <2>2, KeyIsSeq, OutcomesAreStores
  <2> QED BY <2>1, <2>2
<1>6. Head(arms) = "manager" /\ OnePerSlot(memories) => OnePerSlot(M)
  <2> SUFFICES ASSUME Head(arms) = "manager", OnePerSlot(memories) PROVE OnePerSlot(M)
    OBVIOUS
  <2>1. M = ManagerApply(Case, t)
    BY <1>3, <1>4 DEF Outcomes
  <2> QED BY <1>1, <2>1, KeyIsSeq, ManagerKeepsOne
<1>7. From(M, memories, Case, SaidIn(Case))
  BY <1>3, <1>5 DEF From
<1> QED BY <1>4, <1>5, <1>6, <1>7

(* Each invariant against each action.                                     *)
LEMMA InputStep ==
  ASSUME InputOK, CasesOK, FreshOK, [Next]_vars
  PROVE  InputOK' /\ CasesOK' /\ FreshOK'
<1>1. InputOK'
  BY DEF InputOK, Next, Load, ReplayTurn, Probe, Mem0Raises, NextArm, Gate, input, vars
<1>2. CASE Load
  <2>1. /\ phase = "load" /\ phase' = IF Loads(file) THEN "run" ELSE "raised"
        /\ cases' = IF limit # 0 THEN SamplePerKind(file, limit) ELSE file
        /\ file' = file /\ limit' = limit
    BY <1>2 DEF Load, input
  <2> QED BY <1>1, <2>1 DEF CasesOK, FreshOK
<1>3. CASE ReplayTurn \/ Probe \/ Mem0Raises \/ NextArm \/ Gate
  <2>1. /\ phase # "load" /\ phase' \in {phase, "raised", "gate", "failed", "passed"}
        /\ cases' = cases /\ file' = file /\ limit' = limit
    BY <1>3 DEF ReplayTurn, Probe, Mem0Raises, NextArm, Gate, Running, input
  <2> QED BY <1>1, <2>1 DEF CasesOK, FreshOK
<1>4. CASE UNCHANGED vars
  <2>1. /\ phase' = phase /\ cases' = cases /\ file' = file /\ limit' = limit
        /\ memories' = memories /\ messages' = messages /\ position' = position
    BY <1>4 DEF vars, input
  <2> QED BY <1>1, <2>1 DEF CasesOK, FreshOK
<1> QED BY <1>1, <1>2, <1>3, <1>4 DEF Next


(* What the invariants below have in common: every step but a turn and a   *)
(* probe leaves the store and the transcripts alone or empties them, and   *)
(* after loading nothing changes the cases.                                *)
LEMMA OtherSteps ==
  ASSUME InputOK, CasesOK, FreshOK, PositionOK, [Next]_vars, ~ReplayTurn, ~Probe
  PROVE  /\ PositionOK'
         /\ \/ memories' = {} /\ messages' = {}
            \/ /\ memories' = memories /\ messages' = messages
               /\ position' = position /\ cases' = cases
               /\ arms' = arms /\ (phase' = "run" => phase = "run")
         /\ reports' = reports /\ selected' = selected
<1>1. CASE Load
  BY <1>1 DEF Load, FreshOK, PositionOK, input
<1>2. CASE Mem0Raises \/ Gate
  BY <1>2 DEF Mem0Raises, Gate, PositionOK, input
<1>3. CASE NextArm
  BY <1>3 DEF NextArm, PositionOK, input
<1>4. CASE UNCHANGED vars
  BY <1>4 DEF vars, PositionOK, input
<1> QED BY <1>1, <1>2, <1>3, <1>4 DEF Next

LEMMA TurnSteps ==
  ASSUME PositionOK, ReplayTurn \/ Probe
  PROVE  /\ PositionOK' /\ position.case <= position'.case /\ cases' = cases
         /\ phase = "run" /\ phase' = phase /\ arms' = arms /\ selected' = selected
<1>1. CASE ReplayTurn
  <2>1. position' = [position EXCEPT !.replayed = @ + 1]
    BY <1>1 DEF ReplayTurn
  <2>2. position'.case = position.case /\ PositionOK'
    BY <2>1 DEF PositionOK
  <2>3. position.case <= position'.case
    BY <2>2 DEF PositionOK
  <2> QED BY <1>1, <2>2, <2>3 DEF ReplayTurn, Running, input
<1>2. CASE Probe
  <2>1. position' = [case |-> position.case + 1, replayed |-> 0]
    BY <1>2 DEF Probe
  <2>2. PositionOK' /\ position.case <= position'.case
    BY <2>1 DEF PositionOK
  <2> QED BY <1>2, <2>2 DEF Probe, Running, input
<1> QED BY <1>1, <1>2

LEMMA StillHeld ==
  ASSUME InputOK, CasesOK, PositionOK, IsStore(memories), HeldOK, ReplayTurn \/ Probe
  PROVE  \A m \in memories' : Witnessed(m, position.case)
<1>1. From(memories', memories, Case, SaidIn(Case))
  BY StoreStep
<1>2. position.case \in DOMAIN cases /\ Case = cases[position.case]
  BY CurrentCase DEF ReplayTurn, Probe
<1>3. position.case \in Nat /\ position.case <= position.case
  BY DEF PositionOK
<1>4. \A m \in memories : Witnessed(m, position.case)
  BY DEF HeldOK
<1>5. ASSUME NEW m \in memories' PROVE Witnessed(m, position.case)
  <2>1. CASE \E o \in memories : m.user = o.user /\ m.claims = o.claims
    BY <1>4, <2>1 DEF Witnessed
  <2>2. CASE m.user = UserKey(Case) /\ m.claims \subseteq SaidIn(Case)
    BY <1>2, <1>3, <2>2 DEF Witnessed
  <2> QED BY <1>1, <2>1, <2>2 DEF From
<1> QED BY <1>5

LEMMA HeldStep ==
  ASSUME InputOK, CasesOK, FreshOK, PositionOK, IsStore(memories), HeldOK, [Next]_vars
  PROVE  IsStore(memories)' /\ HeldOK'
<1>1. CASE ReplayTurn \/ Probe
  <2>1. position.case <= position'.case /\ PositionOK' /\ cases' = cases
    BY <1>1, TurnSteps
  <2>2. position'.case \in Nat /\ position.case \in Nat /\ DOMAIN cases \subseteq Nat
    BY <2>1, CasesAreOfTheFile, LenProperties DEF PositionOK
  <2>3. \A k \in DOMAIN cases : k <= position.case => k <= position'.case
    BY <2>1, <2>2
  <2>4. \A m \in memories' : Witnessed(m, position'.case)
    BY <1>1, <2>3, StillHeld DEF Witnessed
  <2>5. HeldOK'
    BY <2>1, <2>4 DEF HeldOK, Witnessed
  <2> QED BY <1>1, <2>5, StoreStep
<1>2. CASE ~ReplayTurn /\ ~Probe
  <2>1. CASE memories' = {}
    BY <2>1, FS_EmptySet DEF IsStore, HeldOK
  <2>2. CASE memories' = memories /\ position' = position /\ cases' = cases
    BY <2>2 DEF IsStore, HeldOK, Witnessed
  <2> QED BY <1>2, <2>1, <2>2, OtherSteps
<1> QED BY <1>1, <1>2

LEMMA HeardStep ==
  ASSUME InputOK, CasesOK, FreshOK, PositionOK, HeardOK, [Next]_vars
  PROVE  HeardOK'
<1>1. CASE ReplayTurn
  <2>1. /\ position.case \in DOMAIN cases /\ Case = cases[position.case]
        /\ position.case \in Nat /\ Case \in EvalCase /\ ProbeThreadIsNew(Case)
    BY <1>1, CurrentCase DEF ReplayTurn
  <2> DEFINE h == History(Case)[position.replayed + 1]
  <2>2. \E i \in DOMAIN Case.sessions : h.thread = Case.sessions[i].thread
    <3>1. position.replayed \in Nat /\ position.replayed < Len(History(Case))
      BY <1>1 DEF ReplayTurn, PositionOK
    <3> QED BY <2>1, <3>1, TurnOfHistory
  <2>3. h.thread \in Seq(STRING) /\ h.thread # Case.probe_thread
    <3>1. PICK i \in DOMAIN Case.sessions : h.thread = Case.sessions[i].thread
      BY <2>2
    <3>2. Case.sessions \in Seq([thread : Seq(STRING), turns : Seq(Turn)])
      BY <2>1 DEF EvalCase
    <3>3. Case.sessions[i] \in [thread : Seq(STRING), turns : Seq(Turn)]
      BY <3>1, <3>2, LenProperties, ElementOfSeq
    <3>4. Case.sessions[i].thread \in Seq(STRING)
      BY <3>3
    <3> QED BY <2>1, <3>1, <3>4 DEF ProbeThreadIsNew
  <2>4. /\ messages' \subseteq messages \cup {Said(Case, h.thread, h.turn)}
        /\ position'.case = position.case /\ cases' = cases
    BY <1>1 DEF ReplayTurn, PositionOK
  <2>5. /\ Said(Case, h.thread, h.turn).thread = Case.id \o h.thread
        /\ Said(Case, h.thread, h.turn).user = UserKey(Case)
    BY DEF Said
  <2> DEFINE s == Said(Case, h.thread, h.turn)
             x == h.thread
  <2>6. /\ s.user = UserKey(Case) /\ s.thread = Case.id \o x /\ x \in Seq(STRING)
        /\ x # Case.probe_thread
    BY <2>3, <2>5
  <2>7. messages' \subseteq messages \cup {s}
    BY <2>4
  <2> HIDE DEF s, x, h
  <2>8. Heard(s, position.case)
    <3>1. PICK k \in DOMAIN cases : k = position.case /\ Case = cases[k] /\ k <= k
      BY <2>1
    <3>2. /\ k <= position.case /\ s.user = UserKey(cases[k])
          /\ s.thread = cases[k].id \o x /\ x # cases[k].probe_thread
      BY <2>6, <3>1
    <3> QED BY <2>6, <3>2 DEF Heard
  <2>9. \A m \in messages' : Heard(m, position.case)
    BY <2>7, <2>8 DEF HeardOK
  <2> QED BY <2>4, <2>9 DEF HeardOK, Heard
<1>2. CASE Probe
  <2>1. /\ position.case \in DOMAIN cases /\ Case = cases[position.case]
        /\ position.case \in Nat /\ Case \in EvalCase
        /\ cases \in Seq(EvalCase)
    BY <1>2, CurrentCase, CasesAreOfTheFile DEF Probe
  <2> DEFINE s == Said(Case, Case.probe_thread, Case.probe)
             n == position.case
  <2>2. messages' = messages \cup {s} /\ position'.case = n + 1 /\ cases' = cases
    BY <1>2 DEF Probe
  <2>3. /\ s.user = UserKey(Case) /\ s.thread = Case.id \o Case.probe_thread
        /\ Case.probe_thread \in Seq(STRING)
    BY <2>1 DEF Said, EvalCase
  <2>4. n \in Nat /\ DOMAIN cases \subseteq Nat
    BY <2>1, LenProperties
  <2>5. \A k \in DOMAIN cases : k <= n => k <= n + 1 /\ k # n + 1
    BY <2>4
  <2>6. \A m \in messages : Heard(m, n)
    BY DEF HeardOK
  <2> HIDE DEF s, n
  <2>7. ASSUME NEW m \in messages PROVE Heard(m, n + 1)
    BY <2>5, <2>6 DEF Heard
  <2>8. n <= n
    BY <2>4
  <2>9. Heard(s, n + 1)
    BY <2>1, <2>3, <2>5, <2>8 DEF Heard, n
  <2>10. \A m \in messages' : Heard(m, n + 1)
    BY <2>2, <2>7, <2>9
  <2>11. PICK v : v = position'.case /\ \A m \in messages' : Heard(m, v)
    BY <2>2, <2>10
  <2>12. ASSUME NEW m \in messages' PROVE Heard(m, position.case)'
    <3>1. PICK k \in DOMAIN cases, t \in Seq(STRING) :
            /\ k <= v /\ m.user = UserKey(cases[k]) /\ m.thread = cases[k].id \o t
            /\ k = v => t # cases[k].probe_thread
      BY ONLY <2>11, <2>12 DEF Heard
    <3>2. k \in DOMAIN cases' /\ cases'[k] = cases[k] /\ v = position'.case
      BY ONLY <2>2, <2>11, <3>1
    <3>3. \E j \in DOMAIN cases', u \in Seq(STRING) :
            /\ j <= position'.case /\ m.user = UserKey(cases'[j]) /\ m.thread = cases'[j].id \o u
            /\ j = position'.case => u # cases'[j].probe_thread
      BY ONLY <3>1, <3>2
    <3> QED BY ONLY <3>3 DEF Heard
  <2> QED BY ONLY <2>12 DEF HeardOK
<1>3. CASE ~ReplayTurn /\ ~Probe
  <2>1. CASE messages' = {}
    BY <2>1 DEF HeardOK
  <2>2. CASE messages' = messages /\ position' = position /\ cases' = cases
    BY <2>2 DEF HeardOK, Heard
  <2> QED BY <1>3, <2>1, <2>2, OtherSteps
<1> QED BY <1>1, <1>2, <1>3

LEMMA SlotStep ==
  ASSUME InputOK, CasesOK, FreshOK, PositionOK, IsStore(memories), SlotOK, [Next]_vars
  PROVE  SlotOK'
<1>1. CASE ReplayTurn \/ Probe
  <2>1. Head(arms) = "manager" /\ OnePerSlot(memories) => OnePerSlot(memories')
    BY <1>1, StoreStep
  <2>2. phase = "run" /\ arms' = arms
    BY <1>1, TurnSteps
  <2> QED BY <2>1, <2>2 DEF SlotOK
<1>2. CASE ~ReplayTurn /\ ~Probe
  <2>1. CASE memories' = {}
    BY <2>1 DEF SlotOK, OnePerSlot
  <2>2. CASE memories' = memories /\ arms' = arms /\ (phase' = "run" => phase = "run")
    BY <2>2 DEF SlotOK, OnePerSlot
  <2> QED BY <1>2, <2>1, <2>2, OtherSteps
<1> QED BY <1>1, <1>2

------------------------------------------------------------------------------
(* What a probe adds to the results.                                       *)
ReportsOK ==
  DOMAIN reports = selected /\ \A a \in selected : reports[a] \in Seq(Range(reports[a]))

Asked == Said(Case, Case.probe_thread, Case.probe)

Prompted(R) == Prompt(Head(arms), R, Asked, messages)

(* A result that asking the probe may have.                                *)
Probed(r) ==
  \E R \in Recalls(Head(arms), Case, Case.probe) : \E reply \in Replies(R, Prompted(R)) :
    r = Result(Case, Prompted(R), reply,
               IF HasMemory(Head(arms)) THEN Scored(Head(arms), Case, memories') ELSE {},
               Of(Case, memories'))

LEMMA AppendedResult ==
  ASSUME NEW s, s \in Seq(Range(s)), NEW r
  PROVE  /\ Append(s, r) \in Seq(Range(Append(s, r)))
         /\ Len(Append(s, r)) = Len(s) + 1 /\ Len(s) \in Nat
         /\ \A i \in DOMAIN Append(s, r) :
              Append(s, r)[i] = r \/ \E j \in DOMAIN s : Append(s, r)[i] = s[j]
<1> DEFINE S == Range(s) \cup {r}
           n == Len(s)
           q == Append(s, r)
<1>1. s \in Seq(S) /\ r \in S
  <2>1. \A i \in 1..Len(s) : s[i] \in S
    BY ElementOfSeq
  <2>2. Len(s) \in Nat /\ s = [i \in 1..Len(s) |-> s[i]]
    BY LenProperties, SeqDef
  <2> HIDE DEF S
  <2>3. s \in Seq(S)
    BY <2>1, <2>2, IsASeq
  <2> QED BY <2>3 DEF S
<1> HIDE DEF S
<1>2. q \in Seq(S) /\ Len(q) = n + 1 /\ n \in Nat /\ DOMAIN s = 1..n /\ DOMAIN q = 1..(n + 1)
  BY <1>1, AppendProperties, LenProperties
<1>3. \A i \in 1..n : q[i] = s[i]
  BY <1>1, AppendProperties
<1>4. q[n + 1] = r
  BY <1>1, AppendProperties
<1> HIDE DEF q, n
<1>5. \A i \in 1..(n + 1) : i \in 1..n \/ i = n + 1
  BY <1>2
<1>6. \A i \in DOMAIN q : q[i] = r \/ \E j \in DOMAIN s : q[i] = s[j]
  BY <1>2, <1>3, <1>4, <1>5
<1>7. q \in Seq(Range(q))
  <2>1. q = [i \in 1..(n + 1) |-> q[i]]
    BY <1>2, SeqDef
  <2>2. \A i \in 1..(n + 1) : q[i] \in Range(q)
    BY <1>2 DEF Range
  <2>3. n + 1 \in Nat
    BY <1>2
  <2> QED BY <2>1, <2>2, <2>3, IsASeq
<1> QED BY <1>2, <1>6, <1>7 DEF q, n

(* The step adds the result r to the report of the current arm, and        *)
(* nothing to the others.                                                  *)
Adds(r) ==
  \A a \in selected : \A i \in DOMAIN reports'[a] :
    \/ a = Head(arms) /\ reports'[a][i] = r
    \/ \E j \in DOMAIN reports[a] : reports'[a][i] = reports[a][j]

Reported ==
  /\ Probe
  /\ \E r : Probed(r) /\ Adds(r)
  /\ \A a \in selected :
       Len(reports'[a]) = Len(reports[a]) + IF a = Head(arms) THEN 1 ELSE 0

LEMMA NewResults ==
  ASSUME InputOK, CasesOK, FreshOK, PositionOK, ReportsOK, [Next]_vars
  PROVE  /\ ReportsOK' /\ selected' = selected /\ provider' = provider
         /\ reports' = reports \/ Reported
<1>0. provider' = provider
  BY DEF Next, Load, ReplayTurn, Probe, Mem0Raises, NextArm, Gate, input, vars
<1>1. CASE ReplayTurn
  BY <1>0, <1>1, TurnSteps DEF ReplayTurn, ReportsOK
<1>2. CASE Probe
  <2>1. PICK r : Probed(r) /\ reports' = [reports EXCEPT ![Head(arms)] = Append(@, r)]
    BY <1>2 DEF Probe, Probed, Prompted, Asked
  <2> DEFINE b == Head(arms)
  <2>2. DOMAIN reports' = DOMAIN reports /\ selected' = selected
    BY <1>2, <2>1 DEF Probe, input
  <2>3. \A a \in selected :
          reports'[a] = IF a = b THEN Append(reports[a], r) ELSE reports[a]
    BY <2>1 DEF ReportsOK
  <2> HIDE DEF b
  <2>4. ASSUME NEW a \in selected
        PROVE  /\ reports'[a] \in Seq(Range(reports'[a]))
               /\ Len(reports'[a]) = Len(reports[a]) + IF a = b THEN 1 ELSE 0
               /\ \A i \in DOMAIN reports'[a] :
                    \/ a = b /\ reports'[a][i] = r
                    \/ \E j \in DOMAIN reports[a] : reports'[a][i] = reports[a][j]
    <3>1. reports[a] \in Seq(Range(reports[a])) /\ Len(reports[a]) \in Nat
      BY LenProperties DEF ReportsOK
    <3>2. CASE a = b
      <4>1. reports'[a] = Append(reports[a], r)
        BY <2>3, <3>2
      <4> QED BY <3>1, <3>2, <4>1, AppendedResult
    <3>3. CASE a # b
      <4>1. reports'[a] = reports[a]
        BY <2>3, <3>3
      <4> QED BY <3>1, <3>3, <4>1
    <3> QED BY <3>2, <3>3
  <2>5. ReportsOK'
    BY <2>2, <2>4 DEF ReportsOK
  <2>6. Reported
    <3>1. Probed(r) /\ Adds(r)
      BY <2>1, <2>4 DEF Adds, b
    <3>2. \A a \in selected : Len(reports'[a]) = Len(reports[a]) + IF a = Head(arms) THEN 1 ELSE 0
      BY <2>4 DEF b
    <3> QED BY <1>2, <3>1, <3>2 DEF Reported
  <2> QED BY <1>0, <2>2, <2>5, <2>6
<1>3. CASE ~ReplayTurn /\ ~Probe
  <2>1. reports' = reports /\ selected' = selected
    BY <1>3, OtherSteps
  <2> QED BY <1>0, <2>1 DEF ReportsOK
<1> QED BY <1>1, <1>2, <1>3


(* The keys under which cases keep their records tell the cases of a file  *)
(* apart.                                                                  *)
KeysTellCases ==
  \A f \in Files : \A c, d \in Range(f) : UserKey(c) = UserKey(d) => c.id = d.id

(* What follows the same beginning in the same sequence is the same.       *)
LEMMA SameRest ==
  ASSUME NEW S, NEW x \in Seq(S), NEW y \in Seq(S), NEW z \in Seq(S), x \o y = x \o z
  PROVE  y = z
<1>1. Len(x) \in Nat /\ Len(y) \in Nat /\ Len(z) \in Nat
  BY LenProperties
<1>2. /\ Len(x \o y) = Len(x) + Len(y) /\ Len(x \o z) = Len(x) + Len(z)
      /\ \A i \in 1..(Len(x) + Len(y)) :
           (x \o y)[i] = IF i <= Len(x) THEN x[i] ELSE y[i - Len(x)]
      /\ \A i \in 1..(Len(x) + Len(z)) :
           (x \o z)[i] = IF i <= Len(x) THEN x[i] ELSE z[i - Len(x)]
  BY ConcatProperties
<1>3. Len(y) = Len(z)
  BY <1>1, <1>2
<1>4. ASSUME NEW i \in 1..Len(y) PROVE y[i] = z[i]
  <2> DEFINE k == Len(x) + i
  <2>1. /\ k \in 1..(Len(x) + Len(y)) /\ k \in 1..(Len(x) + Len(z))
        /\ ~(k <= Len(x)) /\ k - Len(x) = i
    BY <1>1, <1>3
  <2> HIDE DEF k
  <2>2. (x \o y)[k] = y[i] /\ (x \o z)[k] = z[i]
    BY <1>2, <2>1
  <2> QED BY <2>2
<1> QED BY <1>3, <1>4, SeqEqual

(* Nothing was said before in the conversation of the probe.               *)
LEMMA ProbeHearsItself ==
  ASSUME InputOK, CasesOK, PositionOK, HeardOK, Running, KeysTellCases, NEW R
  PROVE  /\ Prompted(R) \subseteq ClaimsOf(R) \cup Case.probe.claims
         /\ ClaimsOf(R) \subseteq Prompted(R)
<1>1. /\ position.case \in DOMAIN cases /\ Case = cases[position.case] /\ Case \in EvalCase
      /\ Case \in Range(file) /\ file \in Files
      /\ \A k \in DOMAIN cases : cases[k].id = Case.id => k = position.case
  BY CurrentCase DEF InputOK
<1>2. Asked.user = UserKey(Case) /\ Asked.thread = Case.id \o Case.probe_thread
      /\ Asked.claims = Case.probe.claims
  BY DEF Asked, Said
<1>3. ASSUME NEW m \in messages, m.user = Asked.user, m.thread = Asked.thread
      PROVE  FALSE
  <2>1. PICK k \in DOMAIN cases, t \in Seq(STRING) :
          /\ m.user = UserKey(cases[k]) /\ m.thread = cases[k].id \o t
          /\ k = position.case => t # cases[k].probe_thread
    BY DEF HeardOK, Heard
  <2>2. cases[k] \in Range(file)
    <3>1. Range(cases) \subseteq Range(file)
      BY CasesAreOfTheFile
    <3> QED BY <3>1 DEF Range
  <2>3. cases[k].id = Case.id
    <3>1. UserKey(cases[k]) = UserKey(Case)
      BY <1>2, <1>3, <2>1
    <3> QED BY <1>1, <2>2, <3>1 DEF KeysTellCases
  <2>4. k = position.case
    BY <1>1, <2>3
  <2>5. Case.id \in Seq(STRING) /\ Case.probe_thread \in Seq(STRING)
    BY <1>1 DEF EvalCase
  <2>6. Case.id \o t = Case.id \o Case.probe_thread
    BY <1>2, <1>3, <2>1, <2>3
  <2>7. t = Case.probe_thread
    BY <2>5, <2>6, SameRest
  <2> QED BY <1>1, <2>1, <2>4, <2>7
<1> DEFINE before == {m \in messages : m.user = Asked.user /\ m.thread = Asked.thread}
<1>4. before = {}
  BY <1>3
<1>5. ClaimsOf(before) = {}
  BY <1>4 DEF ClaimsOf
<1>6. Prompted(R) = (ClaimsOf(R) \cup Asked.claims)
                      \cup IF Head(arms) = "mem0" THEN {} ELSE ClaimsOf(before)
  BY DEF Prompted, Prompt
<1> HIDE DEF before
<1> QED BY <1>2, <1>5, <1>6

(* What is recalled for a case is of its key, and nothing without memory.  *)
LEMMA RecallsOwn ==
  ASSUME NEW a, NEW c, NEW t, NEW R \in Recalls(a, c, t)
  PROVE  R \subseteq Live(Of(c, memories)) /\ (~HasMemory(a) => R = {})
<1>1. CASE HasMemory(a) /\ ~t.blank
  <2>1. PICK found \in AtMost(Of(c, memories), Overfetch * TopK) : R \in AtMost(Live(found), TopK)
    BY <1>1 DEF Recalls
  <2>2. R \subseteq Live(found) /\ found \subseteq Of(c, memories)
    BY <2>1 DEF AtMost
  <2> QED BY <1>1, <2>2 DEF Live
<1>2. CASE ~(HasMemory(a) /\ ~t.blank)
  BY <1>2 DEF Recalls
<1> QED BY <1>1, <1>2

(* Records under the key of the current case were said in it.              *)
LEMMA OwnIsSaid ==
  ASSUME InputOK, CasesOK, PositionOK, Running, KeysTellCases,
         NEW m, NEW last, m.user = UserKey(Case), Witnessed(m, last)
  PROVE  m.claims \subseteq SaidIn(Case)
<1>1. PICK k \in DOMAIN cases : m.user = UserKey(cases[k]) /\ m.claims \subseteq SaidIn(cases[k])
  BY DEF Witnessed
<1>2. cases[k] \in Range(file) /\ Case \in Range(file) /\ file \in Files
  <2>1. Range(cases) \subseteq Range(file)
    BY CasesAreOfTheFile
  <2> QED BY <2>1, CurrentCase DEF Range, InputOK
<1>3. UserKey(cases[k]) = UserKey(Case)
  BY <1>1
<1>4. cases[k].id = Case.id
  BY <1>2, <1>3 DEF KeysTellCases
<1> QED BY <1>1, <1>4, CurrentCase

LEMMA WhatIsScored ==
  ASSUME InputOK, CasesOK, FreshOK, PositionOK, IsStore(memories), HeldOK, HeardOK, SlotOK,
         Probe, NEW r, Probed(r), NEW a, a = Head(arms)
  PROVE  /\ r.case = Case
         /\ a = "stateless" =>
              /\ KeysTellCases => r.prompt \subseteq Case.probe.claims
              /\ provider = "stub" => r.reply = {}
         /\ a = "manager" /\ Cardinality(r.records) <= MaxExisting =>
              \A m, n \in r.stored : m.slot = n.slot /\ m.slot # UNSLOTTED => m = n
         /\ KeysTellCases =>
              /\ r.prompt \subseteq SaidIn(Case) /\ ClaimsOf(r.stored) \subseteq SaidIn(Case)
              /\ provider = "stub" => r.reply \subseteq SaidIn(Case)
<1> DEFINE S == IF HasMemory(a) THEN Scored(a, Case, memories') ELSE {}
<1>1. PICK R, reply :
        R \in Recalls(a, Case, Case.probe) /\ reply \in Replies(R, Prompted(R))
        /\ r = Result(Case, Prompted(R), reply, S, Of(Case, memories'))
  BY DEF Probed
<1>2. /\ r.case = Case /\ r.stored = S /\ r.reply = reply /\ r.prompt = Prompted(R)
      /\ r.records = Of(Case, memories')
  BY <1>1 DEF Result
<1>3. R \subseteq Of(Case, memories) /\ (a = "stateless" => R = {})
  <2>1. R \subseteq Live(Of(Case, memories)) /\ (~HasMemory(a) => R = {})
    BY <1>1, RecallsOwn
  <2> QED BY <2>1 DEF Live, HasMemory
<1>4. S \subseteq Live(Of(Case, memories'))
  BY DEF Scored, Live, Page
<1>5. provider = "stub" => r.reply = ClaimsOf(R)
  BY <1>1, <1>2 DEF Replies
<1> HIDE DEF S
<1>6. Running /\ (KeysTellCases => Prompted(R) \subseteq ClaimsOf(R) \cup Case.probe.claims)
  BY ProbeHearsItself DEF Probe
<1>7. R = {} => ClaimsOf(R) = {}
  BY DEF ClaimsOf
<1>8. ASSUME a = "manager", Cardinality(r.records) <= MaxExisting, NEW m \in r.stored, NEW n \in r.stored,
             m.slot = n.slot, m.slot # UNSLOTTED
      PROVE  m = n
  <2>1. OnePerSlot(memories)
    BY <1>8 DEF SlotOK, Probe, Running
  <2>2. OnePerSlot(memories')
    BY <1>8, <2>1, StoreStep
  <2>3. OneEach(Case, memories')
    BY <1>2, <1>8, <2>2, OneForEach
  <2> QED BY <1>2, <1>4, <1>8, <2>3 DEF OneEach
<1>9. ASSUME KeysTellCases
      PROVE  /\ ClaimsOf(R) \subseteq SaidIn(Case) /\ Case.probe.claims \subseteq SaidIn(Case)
             /\ ClaimsOf(r.stored) \subseteq SaidIn(Case)
  <2>1. ASSUME NEW m \in Of(Case, memories) PROVE m.claims \subseteq SaidIn(Case)
    <3>1. m.user = UserKey(Case) /\ Witnessed(m, position.case)
      BY DEF Of, HeldOK
    <3> QED BY <1>6, <1>9, <3>1, OwnIsSaid
  <2>2. ASSUME NEW m \in r.stored PROVE m.claims \subseteq SaidIn(Case)
    <3>1. m \in memories' /\ m.user = UserKey(Case)
      BY <1>2, <1>4 DEF Live, Of
    <3>2. HeldOK' /\ cases' = cases
      BY HeldStep, TurnSteps DEF Next
    <3>3. Witnessed(m, position'.case)
      BY <3>1, <3>2 DEF HeldOK, Witnessed
    <3> QED BY <1>6, <1>9, <3>1, <3>3, OwnIsSaid
  <2>3. Case.probe.claims \subseteq Claims(Case.probe)
    BY DEF Claims
  <2>4. Claims(Case.probe) \subseteq SaidIn(Case)
    BY ProbeIsSaid
  <2>5. ClaimsOf(R) \subseteq SaidIn(Case)
    BY <1>3, <2>1 DEF ClaimsOf
  <2>6. ClaimsOf(r.stored) \subseteq SaidIn(Case)
    BY <2>2 DEF ClaimsOf
  <2> QED BY <2>3, <2>4, <2>5, <2>6
<1>10. ASSUME KeysTellCases
       PROVE  /\ r.prompt \subseteq SaidIn(Case) /\ ClaimsOf(r.stored) \subseteq SaidIn(Case)
              /\ provider = "stub" => r.reply \subseteq SaidIn(Case)
  BY <1>2, <1>5, <1>6, <1>9, <1>10
<1>11. a = "stateless" => /\ KeysTellCases => r.prompt \subseteq Case.probe.claims
                          /\ provider = "stub" => r.reply = {}
  BY <1>2, <1>3, <1>5, <1>6, <1>7
<1> QED BY <1>2, <1>8, <1>10, <1>11
------------------------------------------------------------------------------
(* What the current case told the store of the two writers that conflict   *)
(* cases compare.                                                          *)
ToldOK ==
  KeysTellCases /\ phase = "run" /\ arms # <<>> /\ Head(arms) \in {"naive", "manager"} =>
    (position.case \in DOMAIN cases /\ Single(cases[position.case], position.replayed)
       => Tells(Head(arms), cases[position.case], position.replayed, memories))

LEMMA ToldStep ==
  ASSUME InputOK, CasesOK, FreshOK, PositionOK, IsStore(memories), HeldOK, ToldOK, [Next]_vars
  PROVE  ToldOK'
<1>1. CASE ReplayTurn
  <2> DEFINE n == position.replayed
             t == TurnAt(Case, n + 1)
  <2>1. /\ Running /\ n \in Nat /\ n < Len(History(Case)) /\ PositionOK
        /\ phase' = phase /\ arms' = arms /\ cases' = cases
    BY <1>1 DEF ReplayTurn, PositionOK
  <2>2. /\ Case \in EvalCase /\ Case = cases[position.case]
        /\ position.case \in DOMAIN cases
    BY <2>1, CurrentCase
  <2>3. position'.case = position.case /\ position'.replayed = n + 1
    BY <1>1 DEF ReplayTurn, PositionOK
  <2>4. memories' \in IF t.source = "user" /\ ~HasMemory(Head(arms)) THEN {memories}
                      ELSE Outcomes(Head(arms), Case, t)
    BY <1>1 DEF ReplayTurn, TurnAt
  <2> HIDE DEF t, n
  <2>5. ASSUME KeysTellCases, phase = "run", arms # <<>>, Head(arms) \in {"naive", "manager"},
               Single(Case, n + 1)
        PROVE  Tells(Head(arms), Case, n + 1, memories')
    <3>0. Single(Case, n) /\ Len(t.facts) <= 1
      <4>1. n + 1 \in 1..(n + 1) /\ \A j \in 1..n : j \in 1..(n + 1)
        BY <2>1
      <4> QED BY <2>5, <4>1 DEF Single, t
    <3>1. Tells(Head(arms), Case, n, memories)
      BY <2>2, <2>5, <3>0 DEF ToldOK, n
    <3>2. HasMemory(Head(arms))
      BY <2>5 DEF HasMemory
    <3>3. memories' \in Outcomes(Head(arms), Case, t)
      BY <2>4, <3>2
    <3>4. CASE Head(arms) = "naive"
      <4>1. memories' = NaiveApply(Case, t)
        BY <3>3, <3>4 DEF Outcomes
      <4>2. Tells("naive", Case, n + 1, NaiveApply(Case, TurnAt(Case, n + 1)))
        BY <2>1, <2>2, <3>1, <3>4, NaiveTells
      <4> QED BY <3>4, <4>1, <4>2 DEF t
    <3>5. CASE Head(arms) = "manager"
      <4>1. memories' = ManagerApply(Case, t)
        BY <3>3, <3>5 DEF Outcomes
      <4>2. Len(TurnAt(Case, n + 1).facts) <= 1
        BY <3>0 DEF t
      <4>3. Tells("manager", Case, n + 1, ManagerApply(Case, TurnAt(Case, n + 1)))
        BY <2>1, <2>2, <3>1, <3>5, <4>2, ManagerTells
      <4> QED BY <3>5, <4>1, <4>3 DEF t
    <3> QED BY <2>5, <3>4, <3>5
  <2> QED BY <2>1, <2>2, <2>3, <2>5 DEF ToldOK
<1>2. CASE Probe
  <2>1. /\ position'.case = position.case + 1 /\ position'.replayed = 0
        /\ cases' = cases /\ position.case \in Nat /\ phase = "run" /\ Running
    BY <1>2 DEF Probe, PositionOK, Running
  <2> DEFINE d == cases[position.case + 1]
  <2>2. ASSUME KeysTellCases, position.case + 1 \in DOMAIN cases
        PROVE  Of(d, memories') = {}
    <3> SUFFICES ASSUME NEW m \in memories', m.user = UserKey(d) PROVE FALSE
      BY DEF Of
    <3>1. PICK k \in DOMAIN cases : k <= position.case /\ m.user = UserKey(cases[k])
      BY <1>2, StillHeld DEF Witnessed
    <3>2. /\ Range(cases) \subseteq Range(file) /\ file \in Files
          /\ \A x, y \in DOMAIN cases : cases[x].id = cases[y].id => x = y
          /\ DOMAIN cases \subseteq Nat
      BY <2>1, CasesAreOfTheFile, LenProperties DEF InputOK
    <3>3. cases[k] \in Range(file) /\ d \in Range(file)
      BY <2>2, <3>2 DEF Range
    <3>4. UserKey(cases[k]) = UserKey(d)
      BY <3>1
    <3>5. cases[k].id = d.id
      BY <2>2, <3>2, <3>3, <3>4 DEF KeysTellCases
    <3>6. k = position.case + 1
      BY <2>2, <3>2, <3>5
    <3>7. k \in Nat
      BY <3>2
    <3> QED BY <2>1, <3>1, <3>6, <3>7
  <2> HIDE DEF d
  <2>3. ASSUME KeysTellCases, position.case + 1 \in DOMAIN cases, NEW arm
        PROVE  Tells(arm, d, 0, memories')
    BY <2>2, <2>3, NothingTold
  <2>4. SUFFICES ASSUME KeysTellCases, position'.case \in DOMAIN cases'
                 PROVE  Tells(Head(arms'), cases'[position'.case], position'.replayed, memories')
    BY DEF ToldOK
  <2>5. cases'[position'.case] = d /\ position.case + 1 \in DOMAIN cases
    BY <2>1, <2>4 DEF d
  <2>6. Tells(Head(arms'), d, 0, memories')
    BY <2>3, <2>4, <2>5
  <2> QED BY <2>1, <2>5, <2>6
<1>3. CASE Load \/ NextArm
  <2>1. memories' = {} /\ position'.replayed = 0
    BY <1>3 DEF Load, NextArm, FreshOK
  <2>2. \A c : Of(c, memories') = {}
    BY <2>1 DEF Of
  <2>3. \A arm, c : Tells(arm, c, 0, memories')
    BY <2>2, NothingTold
  <2>4. Tells(Head(arms'), cases'[position'.case], 0, memories')
    BY <2>3
  <2> QED BY <2>1, <2>4 DEF ToldOK
<1>4. CASE Mem0Raises \/ Gate
  BY <1>4 DEF Mem0Raises, Gate, ToldOK
<1>5. CASE UNCHANGED vars
  BY <1>5 DEF vars, ToldOK
<1> QED BY <1>1, <1>2, <1>3, <1>4, <1>5 DEF Next

(* Of a case that takes something back, a text passes that holds what was  *)
(* recalled and no more than the probe beside it, if the manager wrote.    *)
LEMMA WhatPasses ==
  ASSUME InputOK, CasesOK, PositionOK, IsStore(memories), SlotOK, ToldOK, Probe,
         NEW a \in {"naive", "manager"}, a = Head(arms), NEW R \in Recalls(a, Case, Case.probe),
         KeysTellCases, TakesBack(Case),
         NEW X, ClaimsOf(R) \subseteq X, X \subseteq ClaimsOf(R) \cup Case.probe.claims
  PROVE  Passes(Case, X) <=> a = "manager"
<1> DEFINE c == Case
           n == Len(History(c))
           l == TurnAt(c, n)
           here == Live(Of(c, memories))
<1>1. /\ c \in EvalCase /\ position.case \in DOMAIN cases /\ c = cases[position.case]
      /\ position.replayed = n /\ phase = "run" /\ arms # <<>>
  BY CurrentCase DEF Probe, Running
<1>2. /\ n \in Nat /\ n > 0 /\ n <= TopK /\ n <= MaxExisting /\ Single(c, n)
      /\ IsFact(l) /\ l.facts[1].slot # UNSLOTTED /\ l.facts[1].claims = c.expect_any
      /\ c.expect_any \cap c.reject_any = {} /\ c.reject_any # {}
      /\ ~c.probe.blank /\ c.probe.claims \cap c.reject_any = {}
      /\ \E j \in 1..n : ~TurnAt(c, j).blank /\ TurnAt(c, j).claims = c.reject_any
      /\ \A j \in 1..n : Claims(TurnAt(c, j)) \cap c.reject_any # {} =>
                           TurnAt(c, j).facts[1].slot = l.facts[1].slot
  BY <1>1, TakesBackMeans
<1>3. Tells(a, c, n, memories)
  BY <1>1, <1>2 DEF ToldOK
<1>4. HasMemory(a)
  BY DEF HasMemory
<1>5. Cardinality(Of(c, memories)) <= TopK /\ Cardinality(Of(c, memories)) <= MaxExisting
  <2>1. Cardinality(Of(c, memories)) <= n /\ Cardinality(Of(c, memories)) \in Nat
    BY <1>3, OwnIsFinite DEF Tells
  <2>2. TopK \in Nat /\ MaxExisting \in Nat
    BY BenchmarkAssumption
  <2> HIDE DEF c, n
  <2> QED BY <1>2, <2>1, <2>2
<1>6. R = here
  BY <1>2, <1>4, <1>5, AllIsRecalled
<1>7. /\ \A m \in here : m.claims \subseteq X
      /\ \A x \in X : x \in c.probe.claims \/ \E m \in here : x \in m.claims
  BY <1>6 DEF ClaimsOf
<1>8. CASE a = "naive"
  <2>1. PICK j \in 1..n : ~TurnAt(c, j).blank /\ TurnAt(c, j).claims = c.reject_any
    BY <1>2
  <2>2. PICK m \in here : m.claims = c.reject_any
    BY <1>3, <1>8, <2>1 DEF Tells
  <2>3. c.reject_any \subseteq X
    BY <1>7, <2>2
  <2>4. X \cap c.reject_any # {}
    BY <1>2, <2>3
  <2> QED BY <1>8, <2>4 DEF Passes
<1>9. CASE a = "manager"
  <2>1. PICK m0 \in here : m0.slot = l.facts[1].slot /\ m0.claims = c.expect_any
    BY <1>2, <1>3, <1>9 DEF Tells, Holds
  <2>2. OneEach(c, memories)
    <3>1. OnePerSlot(memories)
      BY <1>1, <1>9 DEF SlotOK
    <3> QED BY <1>5, <3>1, OneForEach
  <2>3. ASSUME NEW m \in here PROVE m.claims \cap c.reject_any = {}
    <3> SUFFICES ASSUME m.claims \cap c.reject_any # {} PROVE FALSE
      OBVIOUS
    <3>1. PICK j \in 1..n : IsFact(TurnAt(c, j)) /\ Says(m, TurnAt(c, j).facts[1])
      BY <1>3, <1>9 DEF Tells
    <3>2. m.claims \subseteq Claims(TurnAt(c, j))
      <4>1. TurnAt(c, j) \in Turn
        <5>1. j - 1 \in Nat /\ j - 1 < n /\ (j - 1) + 1 = j
          BY <1>2
        <5> HIDE DEF c, n
        <5>2. History(c)[(j - 1) + 1].turn \in Turn
          BY <1>1, <5>1, TurnOfHistory DEF n
        <5> QED BY <5>1, <5>2 DEF TurnAt
      <4>2. Len(TurnAt(c, j).facts) = 1 /\ 1 \in 1..1
        BY <3>1 DEF IsFact
      <4>3. TurnAt(c, j).facts[1].claims \subseteq Claims(TurnAt(c, j))
        BY <4>1, <4>2, FactsOfTurn
      <4> QED BY <3>1, <4>3 DEF Says
    <3>3. m.slot = l.facts[1].slot
      BY <1>2, <3>1, <3>2 DEF Says
    <3>4. m = m0
      BY <1>2, <2>1, <2>2, <3>3 DEF OneEach
    <3> QED BY <1>2, <2>1, <3>4
  <2>4. X \cap c.reject_any = {}
    BY <1>2, <1>7, <2>3
  <2>5. c.expect_any = {} \/ X \cap c.expect_any # {}
    BY <1>7, <2>1
  <2> QED BY <1>9, <2>4, <2>5 DEF Passes
<1> QED BY <1>8, <1>9

LEMMA ResultTells ==
  ASSUME InputOK, CasesOK, PositionOK, IsStore(memories), HeardOK, SlotOK, ToldOK, Probe,
         NEW r, Probed(r), NEW a \in {"naive", "manager"}, a = Head(arms),
         KeysTellCases, TakesBack(Case)
  PROVE  /\ Passes(Case, r.prompt) <=> a = "manager"
         /\ provider = "stub" => (r.passed <=> a = "manager")
<1> DEFINE S == IF HasMemory(a) THEN Scored(a, Case, memories') ELSE {}
<1>1. PICK R, reply :
        R \in Recalls(a, Case, Case.probe) /\ reply \in Replies(R, Prompted(R))
        /\ r = Result(Case, Prompted(R), reply, S, Of(Case, memories'))
  BY DEF Probed
<1>2. r.prompt = Prompted(R) /\ r.passed = Passes(Case, reply)
  BY <1>1 DEF Result
<1>3. /\ Prompted(R) \subseteq ClaimsOf(R) \cup Case.probe.claims
      /\ ClaimsOf(R) \subseteq Prompted(R)
  BY ProbeHearsItself DEF Probe
<1>4. provider = "stub" => reply = ClaimsOf(R)
  BY <1>1 DEF Replies
<1>5. Passes(Case, Prompted(R)) <=> a = "manager"
  BY <1>1, <1>3, WhatPasses
<1>6. Passes(Case, ClaimsOf(R)) <=> a = "manager"
  <2>1. ClaimsOf(R) \subseteq ClaimsOf(R) /\ ClaimsOf(R) \subseteq ClaimsOf(R) \cup Case.probe.claims
    OBVIOUS
  <2> QED BY <1>1, <2>1, WhatPasses
<1> QED BY <1>2, <1>4, <1>5, <1>6
------------------------------------------------------------------------------
(* The theorems.                                                           *)

(* What every result of an arm satisfies.                                  *)
ResultOK(a, r) ==
  /\ a = "stateless" =>
       /\ KeysTellCases => r.prompt \subseteq r.case.probe.claims
       /\ provider = "stub" => r.reply = {}
  /\ a = "manager" /\ Cardinality(r.records) <= MaxExisting =>
       \A m, n \in r.stored : m.slot = n.slot /\ m.slot # UNSLOTTED => m = n
  /\ KeysTellCases =>
       /\ r.prompt \subseteq SaidIn(r.case) /\ ClaimsOf(r.stored) \subseteq SaidIn(r.case)
       /\ provider = "stub" => r.reply \subseteq SaidIn(r.case)
  /\ KeysTellCases /\ a \in {"naive", "manager"} /\ TakesBack(r.case) =>
       /\ Passes(r.case, r.prompt) <=> a = "manager"
       /\ provider = "stub" => (r.passed <=> a = "manager")

ResultsOK == \A a \in selected : \A i \in DOMAIN reports[a] : ResultOK(a, reports[a][i])

LEMMA ResultsStep ==
  ASSUME InputOK, CasesOK, FreshOK, PositionOK, IsStore(memories), HeldOK, HeardOK, SlotOK,
         ToldOK, ReportsOK, ResultsOK, [Next]_vars
  PROVE  ResultsOK'
<1>1. selected' = selected /\ provider' = provider
  BY NewResults
<1>2. CASE reports' = reports
  BY <1>1, <1>2 DEF ResultsOK, ResultOK
<1>3. CASE reports' # reports
  <2>1. PICK r : /\ Probe /\ Probed(r)
                 /\ \A a \in selected : \A i \in DOMAIN reports'[a] :
                      \/ a = Head(arms) /\ reports'[a][i] = r
                      \/ \E j \in DOMAIN reports[a] : reports'[a][i] = reports[a][j]
    <3>1. Reported
      BY <1>3, NewResults
    <3> QED BY <3>1 DEF Reported, Adds
  <2>2. ResultOK(Head(arms), r)
    <3>1. /\ r.case = Case
          /\ Head(arms) = "stateless" =>
               /\ KeysTellCases => r.prompt \subseteq Case.probe.claims
               /\ provider = "stub" => r.reply = {}
          /\ Head(arms) = "manager" /\ Cardinality(r.records) <= MaxExisting =>
               \A m, n \in r.stored : m.slot = n.slot /\ m.slot # UNSLOTTED => m = n
          /\ KeysTellCases =>
               /\ r.prompt \subseteq SaidIn(Case) /\ ClaimsOf(r.stored) \subseteq SaidIn(Case)
               /\ provider = "stub" => r.reply \subseteq SaidIn(Case)
      BY <2>1, WhatIsScored
    <3>2. KeysTellCases /\ Head(arms) \in {"naive", "manager"} /\ TakesBack(Case) =>
            /\ Passes(Case, r.prompt) <=> Head(arms) = "manager"
            /\ provider = "stub" => (r.passed <=> Head(arms) = "manager")
      BY <2>1, ResultTells
    <3> QED BY <3>1, <3>2 DEF ResultOK
  <2>3. ASSUME NEW a \in selected, NEW i \in DOMAIN reports'[a]
        PROVE  ResultOK(a, reports'[a][i])
    BY <2>1, <2>2 DEF ResultsOK
  <2>4. ASSUME NEW a \in selected', NEW i \in DOMAIN reports'[a]
        PROVE  ResultOK(a, reports[a][i])'
    <3>1. PICK t : t = reports'[a][i]
      OBVIOUS
    <3>2. ResultOK(a, t)
      BY ONLY <1>1, <2>3, <2>4, <3>1
    <3> QED BY ONLY <1>1, <3>1, <3>2 DEF ResultOK
  <2> QED BY ONLY <2>4 DEF ResultsOK
<1> QED BY <1>2, <1>3

(* The inductive invariant.                                                *)
BenchInv ==
  /\ InputOK /\ CasesOK /\ FreshOK /\ PositionOK
  /\ IsStore(memories) /\ HeldOK /\ HeardOK /\ SlotOK /\ ToldOK /\ ReportsOK
  /\ ResultsOK

LEMMA InitBench == Init => BenchInv
<1> SUFFICES ASSUME Init PROVE BenchInv
  OBVIOUS
<1>1. InputOK /\ CasesOK /\ FreshOK /\ PositionOK
  BY DEF Init, InputOK, CasesOK, FreshOK, PositionOK
<1>2. IsStore(memories) /\ HeldOK /\ HeardOK
  BY FS_EmptySet DEF Init, IsStore, HeldOK, HeardOK
<1>4. phase = "load"
  BY DEF Init
<1>5. SlotOK
  BY <1>4 DEF SlotOK
<1>6. ToldOK
  BY <1>4 DEF ToldOK
<1>3. ReportsOK /\ ResultsOK
  BY EmptySeq DEF Init, ReportsOK, ResultsOK
<1> QED BY <1>1, <1>2, <1>3, <1>5, <1>6 DEF BenchInv

LEMMA NextBench == BenchInv /\ [Next]_vars => BenchInv'
<1> SUFFICES ASSUME BenchInv, [Next]_vars PROVE BenchInv'
  OBVIOUS
<1>1. InputOK' /\ CasesOK' /\ FreshOK'
  BY InputStep DEF BenchInv
<1>2. PositionOK'
  BY OtherSteps, TurnSteps DEF BenchInv
<1>3. IsStore(memories)' /\ HeldOK' /\ HeardOK' /\ SlotOK' /\ ToldOK'
  BY HeldStep, HeardStep, SlotStep, ToldStep DEF BenchInv
<1>4. ReportsOK' /\ ResultsOK'
  BY NewResults, ResultsStep DEF BenchInv
<1> QED BY <1>1, <1>2, <1>3, <1>4 DEF BenchInv

LEMMA BenchInvHolds == Spec => []BenchInv
BY InitBench, NextBench, PTL DEF Spec

(* A sample keeps every kind of case its file has, so that no rate is      *)
(* taken over nothing (_sample_per_kind).                                  *)
THEOREM SampleBalanced == Spec => []SampleIsBalanced
<1>1. BenchInv => SampleIsBalanced
  BY KindsAreKept DEF BenchInv
<1> QED BY <1>1, BenchInvHolds, PTL

(* If the keys tell the cases of a file apart, then without memory a model *)
(* is given nothing but what the probe says, however many cases and arms   *)
(* share the threads and whatever a model answers; a claim that the probe  *)
(* did not make is then a guess of the model, and the stub makes none      *)
(* (_probe_thread_must_be_new).                                            *)
THEOREM ControlIsBlind ==
  ASSUME KeysTellCases
  PROVE  Spec => []ControlKnowsNothing
<1>1. BenchInv => ControlKnowsNothing
  BY DEF BenchInv, ResultsOK, ResultOK, ControlKnowsNothing, Ran, Results
<1> QED BY <1>1, BenchInvHolds, PTL

(* While a listing of the manager holds all records of a case, it is       *)
(* scored on at most one record per attribute, however often the value     *)
(* moved within its texts and between them (run_case, _active_memories).   *)
THEOREM OneRecordPerAttribute == Spec => []RetiredIsNotClutter
<1>1. BenchInv => RetiredIsNotClutter
  BY DEF BenchInv, ResultsOK, ResultOK, RetiredIsNotClutter, Ran, Results
<1> QED BY <1>1, BenchInvHolds, PTL

(* If the keys tell the cases of a file apart, neither what a model is     *)
(* given nor what is stored for a case nor a reply of the stub holds what  *)
(* was not said in it, although the cases of an arm share one store        *)
(* (EvalCase.user_key).                                                    *)
THEOREM NoCaseLeaks ==
  ASSUME KeysTellCases
  PROVE  Spec => []CasesDoNotLeak
<1>1. BenchInv => CasesDoNotLeak
  BY DEF BenchInv, ResultsOK, ResultOK, CasesDoNotLeak, Results, SaidIn
<1> QED BY <1>1, BenchInvHolds, PTL

(* If the keys tell the cases of a file apart, the conflict cases that fit *)
(* into one recall and one listing give the retracted claim to the model   *)
(* under the naive writer and the current one alone under the manager,     *)
(* whatever else the file holds, and the stub fails and passes them        *)
(* accordingly (_default_responder).                                       *)
THEOREM ConflictsTellWriters ==
  ASSUME KeysTellCases
  PROVE  Spec => []ConflictTellsWritersApart
<1>1. BenchInv => ConflictTellsWritersApart
  BY DEF BenchInv, ResultsOK, ResultOK, ConflictTellsWritersApart, Results
<1> QED BY <1>1, BenchInvHolds, PTL

(* Keys tell cases apart when no id has a colon in it: the key then begins *)
(* with the id, whatever the user is called (EvalCase.user_key).           *)
THEOREM PlainIdsTellCases ==
  ASSUME \A f \in Files : \A c \in Range(f) : Len(c.id) = 1
  PROVE  KeysTellCases
<1> SUFFICES ASSUME NEW f \in Files, NEW c \in Range(f), NEW d \in Range(f),
                    UserKey(c) = UserKey(d)
             PROVE  c.id = d.id
  BY DEF KeysTellCases
<1>1. f \in Seq(EvalCase)
  BY BenchmarkAssumption
<1>2. c \in EvalCase /\ d \in EvalCase /\ Len(c.id) = 1 /\ Len(d.id) = 1
  BY <1>1, LenProperties, ElementOfSeq DEF Range
<1>3. c.id \in Seq(STRING) /\ d.id \in Seq(STRING) /\ c.user \in Seq(STRING) /\ d.user \in Seq(STRING)
  BY <1>2 DEF EvalCase
<1>4. UserKey(c)[1] = c.id[1] /\ UserKey(d)[1] = d.id[1]
  <2>1. ASSUME NEW x \in Seq(STRING), NEW y \in Seq(STRING), Len(x) = 1
        PROVE  (x \o y)[1] = x[1]
    <3>1. Len(y) \in Nat
      BY LenProperties
    <3>2. 1 \in 1..(Len(x) + Len(y)) /\ 1 <= Len(x)
      BY <2>1, <3>1
    <3>3. (x \o y)[1] = IF 1 <= Len(x) THEN x[1] ELSE y[1 - Len(x)]
      BY <3>2, ConcatProperties
    <3> QED BY <3>2, <3>3
  <2> QED BY <1>2, <1>3, <2>1 DEF UserKey
<1>5. c.id[1] = d.id[1]
  BY <1>4
<1> QED BY <1>2, <1>3, <1>5, SeqEqual
------------------------------------------------------------------------------
(* Arms run once each, in order, and every one of them reports a case at a *)
(* time.                                                                   *)
ArmsOK ==
  /\ arms \in Seq(selected)
  /\ phase = "run" => arms # <<>>
  /\ \A i, j \in DOMAIN arms : arms[i] = arms[j] => i = j

CountOK ==
  /\ position.case <= Len(cases) + 1
  /\ \A a \in selected : Len(reports[a]) <= Len(cases)
  /\ \A i \in DOMAIN arms : Len(reports[arms[i]]) = IF i = 1 THEN position.case - 1 ELSE 0
  /\ phase = "load" => \A a \in selected : Len(reports[a]) = 0

LEMMA SelectedArmsOK ==
  ASSUME InputOK
  PROVE  /\ SelectedArms \in Seq(selected) /\ SelectedArms # <<>>
         /\ \A i, j \in DOMAIN SelectedArms : SelectedArms[i] = SelectedArms[j] => i = j
<1> DEFINE P == {i \in DOMAIN Arms : Arms[i] \in selected}
           s == Kept(Arms, P)
           n == Cardinality(P)
           A == {"stateless", "naive", "manager", "mem0"}
<1>1. Arms \in Seq(A) /\ Len(Arms) = 4 /\ DOMAIN Arms = 1..4
  <2> DEFINE f == [i \in 1..4 |-> IF i = 1 THEN "stateless" ELSE IF i = 2 THEN "naive"
                                  ELSE IF i = 3 THEN "manager" ELSE "mem0"]
  <2>1. f \in Seq(A) /\ Len(f) = 4
    <3>1. \A i \in 1..4 : f[i] \in A
      OBVIOUS
    <3> QED BY <3>1, IsASeq, LenProperties
  <2>2. Arms = f
    BY DEF Arms
  <2> QED BY <2>1, <2>2, LenProperties
<1>2. selected \subseteq Range(Arms) /\ selected # {}
  <2>1. \A T \in Selections : T \subseteq Range(Arms) /\ T # {}
    BY BenchmarkAssumption
  <2> QED BY <2>1 DEF InputOK
<1>3. P # {} /\ P \subseteq 1..4 /\ \A i \in P : Arms[i] \in selected
  BY <1>1, <1>2 DEF Range
<1>4. s = SelectedArms
  BY DEF SelectedArms
<1> HIDE DEF P
<1>5. /\ s \in Seq(A) /\ Len(s) = n
      /\ \A k \in 1..n : Nth(P, k) \in P
  BY <1>1, <1>3, KeptIsThat
<1>6. s = [k \in 1..n |-> Arms[Nth(P, k)]]
  BY DEF Kept, Nth
<1>7. n \in Nat /\ n # 0
  <2>1. IsFiniteSet(P) /\ n \in Nat
    BY <1>3, UpToFinite, FS_CardinalityType
  <2> QED BY <1>3, <2>1, FS_EmptySet
<1>8. \A k, l \in 1..n : Nth(P, k) = Nth(P, l) => k = l
  <2>1. 4 \in Nat /\ P \subseteq 1..4
    BY <1>3
  <2> QED BY <2>1, NthIsInjective
<1> HIDE DEF s, n
<1>9. \A k \in 1..n : s[k] = Arms[Nth(P, k)] /\ s[k] \in selected
  BY <1>3, <1>5, <1>6
<1>10. s \in Seq(selected)
  <2>1. s = [k \in 1..n |-> s[k]]
    BY <1>6
  <2> QED BY <1>7, <1>9, <2>1, IsASeq
<1>11. DOMAIN s = 1..n /\ s # <<>>
  BY <1>5, <1>7, <1>10, LenProperties, EmptySeq
<1>12. \A i, j \in 1..4 : Arms[i] = Arms[j] => i = j
  BY DEF Arms
<1>13. \A k, l \in 1..n : s[k] = s[l] => k = l
  <2> SUFFICES ASSUME NEW k \in 1..n, NEW l \in 1..n, s[k] = s[l] PROVE k = l
    OBVIOUS
  <2>1. Nth(P, k) \in 1..4 /\ Nth(P, l) \in 1..4
    BY <1>3, <1>5
  <2>2. Arms[Nth(P, k)] = Arms[Nth(P, l)]
    BY <1>9
  <2>3. Nth(P, k) = Nth(P, l)
    BY <1>12, <2>1, <2>2
  <2> QED BY <1>8, <2>3
<1> QED BY <1>4, <1>10, <1>11, <1>13

LEMMA ArmsStep ==
  ASSUME BenchInv, ArmsOK, CountOK, [Next]_vars
  PROVE  ArmsOK' /\ CountOK'
<1>0. /\ InputOK /\ CasesOK /\ FreshOK /\ PositionOK /\ ReportsOK /\ selected' = selected
      /\ position.case \in Nat /\ position.case >= 1
  <2>1. InputOK /\ CasesOK /\ FreshOK /\ PositionOK /\ ReportsOK
    BY DEF BenchInv
  <2>2. position.case \in Nat \ {0}
    BY <2>1 DEF PositionOK
  <2>3. position.case \in Nat /\ position.case >= 1
    BY <2>2
  <2> QED BY <2>1, <2>3, NewResults
<1>1. cases \in Seq(EvalCase) /\ Len(cases) \in Nat /\ DOMAIN arms = 1..Len(arms) /\ Len(arms) \in Nat
  BY <1>0, CasesAreTaken, LenProperties DEF ArmsOK
<1>2. \A a \in selected : Len(reports[a]) \in Nat
  BY <1>0, LenProperties DEF ReportsOK
<1>3. \A i \in DOMAIN arms : arms[i] \in selected
  <2>1. arms \in Seq(selected)
    BY DEF ArmsOK
  <2> QED BY <1>1, <2>1, ElementOfSeq
<1>4. CASE Load
  <2>1. arms' = SelectedArms /\ position' = position /\ reports' = reports /\ phase = "load"
        /\ phase' # "load" /\ position.case = 1
    BY <1>0, <1>4 DEF Load, FreshOK
  <2>2. ArmsOK'
    BY <1>0, <2>1, SelectedArmsOK DEF ArmsOK
  <2>3. \A i \in DOMAIN arms' : arms'[i] \in selected
    <3>1. arms' \in Seq(selected)
      BY <1>0, <2>2 DEF ArmsOK
    <3>2. DOMAIN arms' = 1..Len(arms')
      BY <3>1, LenProperties
    <3> QED BY <3>1, <3>2, ElementOfSeq
  <2>4. \A a \in selected : Len(reports[a]) = 0
    BY <2>1 DEF CountOK
  <2>5. cases' \in Seq(EvalCase)
    <3>1. InputOK' /\ CasesOK'
      BY <1>0, InputStep
    <3>2. (InputOK /\ CasesOK => cases \in Seq(EvalCase))'
      BY CasesAreTaken, PTL
    <3> QED BY <3>1, <3>2
  <2>6. Len(cases') \in Nat
    BY <2>5, LenProperties
  <2>7. CountOK'
    BY <1>0, <2>1, <2>3, <2>4, <2>6 DEF CountOK
  <2> QED BY <2>2, <2>7
<1>5. CASE ReplayTurn
  <2>1. position'.case = position.case
    BY <1>0, <1>5 DEF ReplayTurn, PositionOK
  <2> QED BY <1>5, <2>1, <1>0 DEF ReplayTurn, ArmsOK, CountOK
<1>6. CASE Probe
  <2>1. /\ arms' = arms /\ cases' = cases /\ phase' = phase /\ phase = "run"
        /\ position'.case = position.case + 1 /\ position.case <= Len(cases)
        /\ arms # <<>>
    BY <1>6 DEF Probe, Running
  <2>2. 1 \in DOMAIN arms /\ Head(arms) = arms[1]
    BY <1>1, <2>1, EmptySeq DEF ArmsOK
  <2>3. \A a \in selected : Len(reports'[a]) =
          Len(reports[a]) + IF a = Head(arms) THEN 1 ELSE 0
    <3>1. CASE reports' = reports
      <4>1. Len(reports[Head(arms)]) = position.case - 1
        BY <2>2 DEF CountOK
      <4>2. PICK r : reports' = [reports EXCEPT ![Head(arms)] = Append(@, r)]
        BY <1>6 DEF Probe
      <4>3. Head(arms) \in selected /\ reports[Head(arms)] \in Seq(Range(reports[Head(arms)]))
        BY <1>0, <1>3, <2>2 DEF ReportsOK
      <4>4. reports'[Head(arms)] = Append(reports[Head(arms)], r)
        BY <1>0, <4>2, <4>3 DEF ReportsOK
      <4>5. Len(Append(reports[Head(arms)], r)) = Len(reports[Head(arms)]) + 1
        BY <4>3, AppendedResult
      <4> QED BY <1>2, <3>1, <4>3, <4>4, <4>5
    <3>2. CASE reports' # reports
      BY <1>0, <3>2, NewResults DEF Reported
    <3> QED BY <3>1, <3>2
  <2>4. ArmsOK'
    BY <1>0, <2>1 DEF ArmsOK
  <2>5. \A i \in DOMAIN arms : i # 1 => arms[i] # Head(arms)
    BY <2>2 DEF ArmsOK
  <2>6. \A i \in DOMAIN arms : Len(reports'[arms[i]]) = IF i = 1 THEN position.case ELSE 0
    <3> SUFFICES ASSUME NEW i \in DOMAIN arms
                 PROVE  Len(reports'[arms[i]]) = IF i = 1 THEN position.case ELSE 0
      OBVIOUS
    <3>1. Len(reports[arms[i]]) = IF i = 1 THEN position.case - 1 ELSE 0
      BY DEF CountOK
    <3>2. Len(reports'[arms[i]]) = Len(reports[arms[i]]) + IF arms[i] = Head(arms) THEN 1 ELSE 0
      BY <1>3, <2>3
    <3> QED BY <1>0, <2>2, <2>5, <3>1, <3>2
  <2>7. \A a \in selected : Len(reports'[a]) <= Len(cases)
    <3> SUFFICES ASSUME NEW a \in selected PROVE Len(reports'[a]) <= Len(cases)
      OBVIOUS
    <3>1. CASE a = Head(arms)
      <4>1. Len(reports'[a]) = position.case
        BY <2>2, <2>6, <3>1
      <4> QED BY <2>1, <4>1
    <3>2. CASE a # Head(arms)
      <4>1. Len(reports'[a]) = Len(reports[a]) + 0
        BY <2>3, <3>2
      <4>2. Len(reports[a]) <= Len(cases)
        BY DEF CountOK
      <4> QED BY <1>2, <4>1, <4>2
    <3> QED BY <3>1, <3>2
  <2>8. CountOK'
    <3>1. position'.case - 1 = position.case /\ position'.case <= Len(cases) + 1
      BY <1>0, <1>1, <2>1
    <3> QED BY <1>0, <2>1, <2>6, <2>7, <3>1 DEF CountOK
  <2> QED BY <2>4, <2>8
<1>7. CASE Mem0Raises \/ Gate
  <2>1. /\ arms' = arms /\ cases' = cases /\ position' = position /\ reports' = reports
        /\ phase' # "run" /\ phase' # "load"
    BY <1>7 DEF Mem0Raises, Gate
  <2> QED BY <1>0, <2>1 DEF ArmsOK, CountOK
<1>8. CASE NextArm
  <2>1. /\ arms' = Tail(arms) /\ cases' = cases /\ reports' = reports
        /\ position'.case = 1 /\ phase = "run" /\ phase' # "load"
        /\ phase' = "run" => Tail(arms) # <<>>
    BY <1>8 DEF NextArm
  <2>2. arms # <<>> /\ arms \in Seq(selected)
    BY <2>1 DEF ArmsOK
  <2>3. /\ Tail(arms) \in Seq(selected) /\ DOMAIN Tail(arms) = 1..(Len(arms) - 1)
        /\ \A i \in 1..(Len(arms) - 1) : Tail(arms)[i] = arms[i + 1]
    <3>1. Tail(arms) \in Seq(selected) /\ Len(Tail(arms)) = Len(arms) - 1
          /\ \A i \in 1..Len(Tail(arms)) : Tail(arms)[i] = arms[i + 1]
      BY <2>2, HeadTailProperties
    <3> QED BY <3>1, LenProperties
  <2>4. \A i \in 1..(Len(arms) - 1) : i + 1 \in DOMAIN arms /\ i + 1 # 1
    BY <1>1
  <2>5. \A i, j \in 1..(Len(arms) - 1) : Tail(arms)[i] = Tail(arms)[j] => i = j
    <3> SUFFICES ASSUME NEW i \in 1..(Len(arms) - 1), NEW j \in 1..(Len(arms) - 1),
                        Tail(arms)[i] = Tail(arms)[j]
                 PROVE  i = j
      OBVIOUS
    <3>1. i + 1 = j + 1
      BY <2>3, <2>4 DEF ArmsOK
    <3> QED BY <3>1
  <2>6. \A i \in 1..(Len(arms) - 1) : Len(reports[Tail(arms)[i]]) = 0
    BY <2>3, <2>4 DEF CountOK
  <2>7. ArmsOK'
    BY <1>0, <2>1, <2>3, <2>5 DEF ArmsOK
  <2>8. CountOK'
    BY <1>0, <1>1, <2>1, <2>3, <2>6 DEF CountOK
  <2> QED BY <2>7, <2>8
<1>9. CASE UNCHANGED vars
  BY <1>9 DEF vars, input, ArmsOK, CountOK
<1> QED BY <1>4, <1>5, <1>6, <1>7, <1>8, <1>9 DEF Next

(* As many records as ids.                                                 *)
LEMMA IdsCount ==
  ASSUME IsStore(memories)
  PROVE  Cardinality({m.id : m \in memories}) = Cardinality(memories)
<1> DEFINE T == {m.id : m \in memories}
           f == [m \in memories |-> m.id]
<1>1. f \in Bijection(memories, T)
  <2>1. f \in [memories -> T] /\ \A t \in T : \E m \in memories : f[m] = t
    OBVIOUS
  <2>2. \A a, b \in memories : f[a] = f[b] => a = b
    BY DEF IsStore
  <2> HIDE DEF f, T
  <2> QED BY <2>1, <2>2, Fun_IsBij
<1>2. IsFiniteSet(memories)
  BY DEF IsStore
<1> HIDE DEF f, T
<1>3. Cardinality(T) = Cardinality(memories)
  <2>1. ExistsBijection(memories, T)
    BY <1>1 DEF ExistsBijection
  <2> QED BY <1>2, <2>1, FS_Bijection
<1> QED BY <1>3 DEF T

(* The types of the variables: what is replayed is of the file, what runs  *)
(* was selected, no two records share an id, and no arm reports more cases *)
(* than there are.                                                         *)
THEOREM TypeCorrect == Spec => []TypeOK
<1>1. Init => ArmsOK /\ CountOK
  <2> SUFFICES ASSUME Init PROVE ArmsOK /\ CountOK
    OBVIOUS
  <2>1. Len(<<>>) = 0 /\ DOMAIN <<>> = {} /\ arms = <<>> /\ cases = <<>> /\ phase = "load"
        /\ position.case = 1 /\ reports = [a \in selected |-> <<>>]
    BY DEF Init
  <2> QED BY <2>1, EmptySeq DEF ArmsOK, CountOK
<1>2. BenchInv /\ ArmsOK /\ CountOK /\ [Next]_vars => ArmsOK' /\ CountOK'
  BY ArmsStep
<1>3. BenchInv /\ ArmsOK /\ CountOK => TypeOK
  <2> SUFFICES ASSUME BenchInv, ArmsOK, CountOK PROVE TypeOK
    OBVIOUS
  <2>1. phase \in {"load", "run", "raised", "gate", "passed", "failed"}
    BY DEF BenchInv, CasesOK
  <2>2. Range(cases) \subseteq Range(file) /\ cases \in Seq(EvalCase)
    BY CasesAreOfTheFile DEF BenchInv
  <2>3. Range(arms) \subseteq selected
    <3>1. arms \in Seq(selected)
      BY DEF ArmsOK
    <3>2. DOMAIN arms = 1..Len(arms)
      BY <3>1, LenProperties
    <3>3. \A i \in 1..Len(arms) : arms[i] \in selected
      BY <3>1, ElementOfSeq
    <3> QED BY <3>2, <3>3 DEF Range
  <2>4. position.case \in 1..(Len(cases) + 1) /\ position.replayed \in Nat
    <3>1. position.case \in Nat /\ position.case >= 1 /\ position.replayed \in Nat
      BY DEF BenchInv, PositionOK
    <3>2. Len(cases) \in Nat
      BY <2>2, LenProperties
    <3> QED BY <3>1, <3>2 DEF CountOK
  <2>5. Cardinality({m.id : m \in memories}) = Cardinality(memories)
    BY IdsCount DEF BenchInv
  <2> QED BY <2>1, <2>2, <2>3, <2>4, <2>5 DEF TypeOK, CountOK
<1> QED BY <1>1, <1>2, <1>3, BenchInvHolds, PTL DEF Spec
------------------------------------------------------------------------------
(* The gate.                                                               *)

(* A sum goes from term to term.                                           *)
LEMMA TotalAddsUp ==
  ASSUME NEW n \in Nat, NEW f \in [1..n -> Nat]
  PROVE  \E h \in [0..n -> Nat] :
           h[0] = 0 /\ Total(f) = h[n] /\ \A i \in 1..n : h[i] = h[i - 1] + f[i]
<1> DEFINE Sums(u, k) == u = [i \in 0..k |-> IF i = 0 THEN 0 ELSE u[i - 1] + f[i]]
           g == CHOOSE u : Sums(u, n)
<1>1. Len(f) = n
  BY FunIsSeq, LenProperties
<1>2. Total(f) = g[n]
  BY <1>1 DEF Total
<1>3. \E u : Sums(u, n)
  <2> DEFINE Bad == {k \in Nat : k <= n /\ ~\E u : Sums(u, k)}
  <2>1. SUFFICES ASSUME n \in Bad PROVE FALSE
    OBVIOUS
  <2>2. PICK k \in Bad : \A l \in Bad : k <= l
    <3>1. Bad \in SUBSET Nat /\ Bad # {}
      BY <2>1
    <3> HIDE DEF Bad
    <3> QED BY <3>1, LeastOf
  <2>3. k # 0
    <3>1. Sums([i \in 0..0 |-> 0], 0)
      OBVIOUS
    <3> QED BY <2>2, <3>1
  <2>4. k \in Nat /\ k <= n /\ k - 1 \in Nat /\ k - 1 \notin Bad
    <3>1. k \in Nat /\ k <= n
      BY <2>2
    <3>2. k - 1 \in Nat /\ ~(k <= k - 1)
      BY <2>3, <3>1
    <3> HIDE DEF Bad
    <3> QED BY <2>2, <3>1, <3>2
  <2>5. PICK h : Sums(h, k - 1)
    BY <2>4
  <2> DEFINE v == [i \in 0..k |-> IF i < k THEN h[i] ELSE h[k - 1] + f[k]]
  <2>6. ASSUME NEW i \in 0..k
        PROVE  v[i] = IF i = 0 THEN 0 ELSE v[i - 1] + f[i]
    <3>1. CASE i < k
      <4>1. i \in 0..(k - 1) /\ (i = 0 \/ i - 1 \in 0..(k - 1))
        BY <2>4, <3>1
      <4>2. v[i] = h[i] /\ h[i] = IF i = 0 THEN 0 ELSE h[i - 1] + f[i]
        BY <2>5, <3>1, <4>1
      <4>3. i # 0 => v[i - 1] = h[i - 1]
        BY <2>4, <3>1, <4>1
      <4> QED BY <4>2, <4>3
    <3>2. CASE i = k
      <4>1. v[i] = h[k - 1] + f[k] /\ v[i - 1] = h[k - 1]
        BY <2>4, <3>2
      <4> QED BY <2>3, <3>2, <4>1
    <3> QED BY <2>4, <3>1, <3>2
  <2>7. v = [i \in 0..k |-> v[i]]
    OBVIOUS
  <2> HIDE DEF v
  <2>8. Sums(v, k)
    BY <2>6, <2>7
  <2> QED BY <2>2, <2>8
<1>4. Sums(g, n)
  BY <1>3
<1> HIDE DEF g
<1>5. \A i \in 0..n : g[i] = IF i = 0 THEN 0 ELSE g[i - 1] + f[i]
  BY <1>4
<1>6. g[0] = 0 /\ \A i \in 1..n : g[i] = g[i - 1] + f[i]
  BY <1>5
<1>7. \A i \in 0..n : g[i] \in Nat
  <2> DEFINE Bad == {i \in 0..n : g[i] \notin Nat}
  <2>1. SUFFICES ASSUME Bad # {} PROVE FALSE
    OBVIOUS
  <2>2. PICK k \in Bad : \A l \in Bad : k <= l
    <3>1. Bad \in SUBSET Nat
      OBVIOUS
    <3> HIDE DEF Bad
    <3> QED BY <2>1, <3>1, LeastOf
  <2>3. k \in 0..n /\ k # 0 /\ g[k] \notin Nat
    BY <1>6, <2>2
  <2>4. k - 1 \in 0..n /\ k \in 1..n /\ ~(k <= k - 1)
    BY <2>3
  <2>5. g[k - 1] \in Nat
    BY <2>2, <2>4
  <2>6. g[k] = g[k - 1] + f[k] /\ f[k] \in Nat
    BY <1>6, <2>4
  <2> QED BY <2>3, <2>5, <2>6
<1>8. g \in [0..n -> Nat]
  BY <1>4, <1>7
<1> QED BY <1>2, <1>6, <1>8

(* What stands below another in every place and has no smaller sum is      *)
(* equal to it in every place.                                             *)
LEMMA TotalsCompare ==
  ASSUME NEW n \in Nat, NEW f \in [1..n -> Nat], NEW g \in [1..n -> Nat],
         \A i \in 1..n : f[i] <= g[i], Total(f) >= Total(g)
  PROVE  \A i \in 1..n : f[i] = g[i]
<1>1. PICK h \in [0..n -> Nat] :
        h[0] = 0 /\ Total(f) = h[n] /\ \A i \in 1..n : h[i] = h[i - 1] + f[i]
  BY TotalAddsUp
<1>2. PICK k \in [0..n -> Nat] :
        k[0] = 0 /\ Total(g) = k[n] /\ \A i \in 1..n : k[i] = k[i - 1] + g[i]
  BY TotalAddsUp
<1>3. \A i \in 0..n : h[i] \in Nat /\ k[i] \in Nat
  BY <1>1, <1>2
<1>4. \A i \in 1..n : f[i] \in Nat /\ g[i] \in Nat
  OBVIOUS
<1>5. \A i \in 0..n : h[i] <= k[i]
  <2> DEFINE Over == {i \in 0..n : ~(h[i] <= k[i])}
  <2>1. SUFFICES ASSUME Over # {} PROVE FALSE
    OBVIOUS
  <2>2. PICK m \in Over : \A l \in Over : m <= l
    <3>1. Over \in SUBSET Nat
      OBVIOUS
    <3> HIDE DEF Over
    <3> QED BY <2>1, <3>1, LeastOf
  <2>3. m \in 0..n /\ ~(h[m] <= k[m])
    BY <2>2
  <2>4. m # 0
    BY <1>1, <1>2, <2>3
  <2>5. m - 1 \in 0..n /\ m \in 1..n /\ ~(m <= m - 1)
    BY <2>3, <2>4
  <2>6. h[m - 1] <= k[m - 1]
    BY <2>2, <2>5
  <2>7. h[m] = h[m - 1] + f[m] /\ k[m] = k[m - 1] + g[m] /\ f[m] <= g[m]
    BY <1>1, <1>2, <2>5
  <2> HIDE DEF Over
  <2> QED BY <1>3, <1>4, <2>3, <2>5, <2>6, <2>7
<1> DEFINE Bad == {j \in Nat : j <= n /\ h[n - j] < k[n - j]}
<1>6. Bad = {}
  <2>1. SUFFICES ASSUME Bad # {} PROVE FALSE
    OBVIOUS
  <2>2. PICK j \in Bad : \A l \in Bad : j <= l
    <3>1. Bad \in SUBSET Nat
      OBVIOUS
    <3> HIDE DEF Bad
    <3> QED BY <2>1, <3>1, LeastOf
  <2>3. j \in Nat /\ j <= n /\ h[n - j] < k[n - j]
    BY <2>2
  <2>4. j # 0
    BY <1>1, <1>2, <1>3, <2>3
  <2>5. j - 1 \in Nat /\ j - 1 <= n /\ ~(j <= j - 1)
    BY <2>3, <2>4
  <2> DEFINE i == n - (j - 1)
  <2>6. i \in 1..n /\ i - 1 = n - j /\ i - 1 \in 0..n /\ i \in 0..n
    BY <2>3, <2>5
  <2>7. ~(h[i] < k[i])
    BY <2>2, <2>5
  <2> HIDE DEF i
  <2>8. h[i - 1] < k[i - 1]
    BY <2>3, <2>6
  <2>9. h[i] = h[i - 1] + f[i] /\ k[i] = k[i - 1] + g[i] /\ f[i] <= g[i]
    BY <1>1, <1>2, <2>6
  <2> HIDE DEF Bad
  <2> QED BY <1>3, <1>4, <2>6, <2>7, <2>8, <2>9
<1>7. \A i \in 0..n : h[i] = k[i]
  <2> SUFFICES ASSUME NEW i \in 0..n PROVE h[i] = k[i]
    OBVIOUS
  <2>1. n - i \in Nat /\ n - i <= n /\ n - (n - i) = i
    OBVIOUS
  <2>2. ~(h[i] < k[i])
    BY <1>6, <2>1
  <2> HIDE DEF Bad
  <2> QED BY <1>3, <1>5, <2>2
<1> HIDE DEF Bad
<1> SUFFICES ASSUME NEW i \in 1..n PROVE f[i] = g[i]
  OBVIOUS
<1>8. i \in 0..n /\ i - 1 \in 0..n
  OBVIOUS
<1>9. h[i] = k[i] /\ h[i - 1] = k[i - 1]
  BY <1>7, <1>8
<1>10. h[i] = h[i - 1] + f[i] /\ k[i] = k[i - 1] + g[i]
  BY <1>1, <1>2
<1>11. h[i - 1] \in Nat /\ f[i] \in Nat /\ g[i] \in Nat
  BY <1>3, <1>4, <1>8
<1>12. h[i - 1] + f[i] = h[i - 1] + g[i]
  BY <1>9, <1>10
<1>13. \A x, y, z \in Nat : x + y = x + z => y = z
  OBVIOUS
<1> QED BY <1>11, <1>12, <1>13

(* A sum that is not zero has a term that is not.                          *)
LEMMA TotalOfZeros ==
  ASSUME NEW n \in Nat, NEW f \in [1..n -> Nat], \A i \in 1..n : f[i] = 0
  PROVE  Total(f) = 0
<1>1. PICK h \in [0..n -> Nat] :
        h[0] = 0 /\ Total(f) = h[n] /\ \A i \in 1..n : h[i] = h[i - 1] + f[i]
  BY TotalAddsUp
<1> DEFINE Bad == {i \in 0..n : h[i] # 0}
<1>2. Bad = {}
  <2>1. SUFFICES ASSUME Bad # {} PROVE FALSE
    OBVIOUS
  <2>2. PICK m \in Bad : \A l \in Bad : m <= l
    <3>1. Bad \in SUBSET Nat
      OBVIOUS
    <3> HIDE DEF Bad
    <3> QED BY <2>1, <3>1, LeastOf
  <2>3. m \in 0..n /\ m # 0 /\ h[m] # 0
    BY <1>1, <2>2
  <2>4. m - 1 \in 0..n /\ m \in 1..n /\ ~(m <= m - 1)
    BY <2>3
  <2>5. h[m - 1] = 0
    BY <2>2, <2>4
  <2>6. h[m] = h[m - 1] + f[m] /\ f[m] = 0
    BY <1>1, <2>4
  <2> QED BY <2>3, <2>5, <2>6
<1> QED BY <1>1, <1>2

LEMMA TotalIsNat ==
  ASSUME NEW n \in Nat, NEW f \in [1..n -> Nat]
  PROVE  Total(f) \in Nat
<1>1. PICK h \in [0..n -> Nat] :
        h[0] = 0 /\ Total(f) = h[n] /\ \A i \in 1..n : h[i] = h[i - 1] + f[i]
  BY TotalAddsUp
<1>2. n \in 0..n
  OBVIOUS
<1> QED BY <1>1, <1>2

(* A floor of 100 percent that is kept leaves out nothing, and is not kept *)
(* by nothing.                                                             *)
LEMMA KeptFloor ==
  ASSUME NEW part \in Nat, NEW whole \in Nat, ~Below(part, whole, 100)
  PROVE  whole # 0 /\ part >= whole
BY DEF Below

(* The same of the numbers f of what counts among the numbers g of what    *)
(* there is.                                                               *)
LEMMA KeptTotals ==
  ASSUME NEW n \in Nat, NEW f \in [1..n -> Nat], NEW g \in [1..n -> Nat],
         \A i \in 1..n : f[i] <= g[i], ~Below(Total(f), Total(g), 100)
  PROVE  (\A i \in 1..n : f[i] = g[i]) /\ \E i \in 1..n : g[i] # 0
<1>1. Total(g) # 0 /\ Total(f) >= Total(g)
  <2>1. Total(f) \in Nat /\ Total(g) \in Nat
    BY TotalIsNat
  <2> QED BY <2>1, KeptFloor
<1>2. \A i \in 1..n : f[i] = g[i]
  BY <1>1, TotalsCompare
<1>3. (\A i \in 1..n : g[i] = 0) => Total(g) = 0
  BY TotalOfZeros
<1> QED BY <1>1, <1>2, <1>3

(* A part of a finite set that is as large is all of it.                   *)
LEMMA AllOfThem ==
  ASSUME NEW T, IsFiniteSet(T), NEW S \in SUBSET T, Cardinality(S) >= Cardinality(T)
  PROVE  S = T
<1>1. Cardinality(S) <= Cardinality(T) /\ Cardinality(S) \in Nat /\ Cardinality(T) \in Nat
  BY FS_Subset, FS_CardinalityType
<1>2. Cardinality(S) = Cardinality(T)
  BY <1>1
<1> QED BY <1>2, FS_Subset

LEMMA KeptRate ==
  ASSUME NEW r, r \in Seq(Range(r)), NEW kind, ~RateBelow(r, kind, 100)
  PROVE  /\ \E i \in DOMAIN r : r[i].case.kind = kind
         /\ \A i \in DOMAIN r : r[i].case.kind = kind => r[i].passed
<1> DEFINE T == {i \in DOMAIN r : r[i].case.kind = kind}
           S == {i \in T : r[i].passed}
<1>1. IsFiniteSet(T)
  <2>1. Len(r) \in Nat /\ DOMAIN r = 1..Len(r)
    BY LenProperties
  <2>2. T \subseteq DOMAIN r /\ IsFiniteSet(DOMAIN r)
    BY <2>1, FS_Interval
  <2> QED BY <2>2, FS_Subset
<1>2. ~Below(Cardinality(S), Cardinality(T), 100)
  BY DEF RateBelow
<1>3. S \in SUBSET T
  OBVIOUS
<1>4. (\E i \in T : TRUE) /\ S = T
  <2> HIDE DEF S, T
  <2>1. IsFiniteSet(S)
    BY <1>1, <1>3, FS_Subset
  <2>2. Cardinality(T) # 0 /\ Cardinality(S) >= Cardinality(T)
    <3>1. Cardinality(S) \in Nat /\ Cardinality(T) \in Nat
      BY <1>1, <2>1, FS_CardinalityType
    <3> QED BY <1>2, <3>1, KeptFloor
  <2>3. T # {}
    BY <2>2, FS_EmptySet
  <2> QED BY <1>1, <1>3, <2>2, <2>3, AllOfThem
<1>5. \A i \in T : r[i].passed
  BY <1>4
<1> QED BY <1>4, <1>5

(* The manager is the last arm when it was selected and mem0 was not.      *)
LEMMA ManagerIsLast ==
  ASSUME InputOK, "manager" \in selected, "mem0" \notin selected
  PROVE  LastReport(reports) = reports["manager"]
<1> DEFINE P == {i \in DOMAIN Arms : Arms[i] \in selected}
<1>1. /\ P \subseteq 1..4 /\ 3 \in P /\ 4 \notin P
      /\ Arms[3] = "manager"
  BY DEF Arms
<1>2. SelectedArms = [k \in 1..Cardinality(P) |-> Arms[Nth(P, k)]]
  BY DEF SelectedArms, Kept, Nth
<1> HIDE DEF P
<1>3. PICK k \in 1..Cardinality(P) : Nth(P, k) = 3
  <2>1. 4 \in Nat /\ P \subseteq 1..4 /\ 3 \in P
    BY <1>1
  <2> HIDE DEF Nth
  <2> QED BY <2>1, PlaceIsNth, Zenon
<1>4. Cardinality(UpTo(P, 3)) = k
  BY <1>1, <1>3, NthPlace
<1>5. UpTo(P, 3) = P
  <2>1. \A j \in P : j <= 3
    BY <1>1
  <2> QED BY <2>1 DEF UpTo
<1>6. Cardinality(P) = k /\ k \in 1..k
  BY <1>3, <1>4, <1>5
<1>7. Len(SelectedArms) = k
  <2>1. SelectedArms \in Seq(selected)
    BY SelectedArmsOK
  <2>2. DOMAIN SelectedArms = 1..k /\ k \in Nat
    BY <1>2, <1>6
  <2> QED BY <2>1, <2>2, LenProperties
<1>8. SelectedArms[k] = "manager"
  BY <1>1, <1>2, <1>3, <1>6
<1> QED BY <1>7, <1>8 DEF LastReport, Last

(* What a result counts is what it says of its reply and its store.        *)
Counted(r) ==
  /\ r = Result(r.case, r.prompt, r.reply, r.stored, r.records)
  /\ IsFiniteSet(r.stored) /\ IsFiniteSet(r.case.poison)

CountedOK == \A a \in selected : \A i \in DOMAIN reports[a] : Counted(reports[a][i])

(* Nothing is scored after the gate.                                       *)
PassedOK == phase = "passed" => ~Failed(LastReport(reports))

LEMMA CountedStep ==
  ASSUME InputOK, CasesOK, FreshOK, PositionOK, IsStore(memories), HeldOK, ReportsOK,
         CountedOK, [Next]_vars
  PROVE  CountedOK'
<1>1. selected' = selected
  BY NewResults
<1>2. CASE reports' = reports
  BY <1>1, <1>2 DEF CountedOK
<1>3. CASE reports' # reports
  <2>0. Reported
    BY <1>3, NewResults
  <2>1. PICK r : /\ Probed(r)
                 /\ \A a \in selected : \A i \in DOMAIN reports'[a] :
                      \/ reports'[a][i] = r
                      \/ \E j \in DOMAIN reports[a] : reports'[a][i] = reports[a][j]
    BY <2>0 DEF Reported, Adds
  <2>2. Probe
    BY <2>0 DEF Reported
  <2> DEFINE stored == IF HasMemory(Head(arms)) THEN Scored(Head(arms), Case, memories') ELSE {}
             records == Of(Case, memories')
  <2>3. IsFiniteSet(stored)
    <3>1. IsStore(memories')
      BY <2>2, StoreStep
    <3>2. stored \subseteq memories'
      BY DEF Scored, Live, Page, Of
    <3>3. IsFiniteSet(memories')
      BY <3>1 DEF IsStore
    <3> QED BY <3>2, <3>3, FS_Subset
  <2>4. IsFiniteSet(Case.poison)
    <3>1. Case \in Range(file)
      BY <2>2, CurrentCase DEF Probe
    <3> QED BY <3>1, BenchmarkAssumption DEF Range, InputOK
  <2> HIDE DEF stored, records
  <2>5. PICK prompt, reply : r = Result(Case, prompt, reply, stored, records)
    BY <2>1 DEF Probed, stored, records
  <2>6. r = Result(r.case, r.prompt, r.reply, r.stored, r.records) /\ r.case = Case /\ r.stored = stored
    BY <2>5 DEF Result
  <2>7. Counted(r)
    BY <2>3, <2>4, <2>6 DEF Counted
  <2> QED BY <1>1, <2>1, <2>7 DEF CountedOK
<1> QED BY <1>2, <1>3

LEMMA PassedStep ==
  ASSUME PassedOK, [Next]_vars
  PROVE  PassedOK'
<1>1. CASE Gate
  <2>1. /\ phase' = IF Failed(LastReport(reports)) THEN "failed" ELSE "passed"
        /\ reports' = reports /\ selected' = selected /\ floors' = floors
    BY <1>1 DEF Gate, input
  <2> QED BY <2>1 DEF PassedOK, Failed, LastReport, SelectedArms
<1>2. CASE Load \/ ReplayTurn \/ Probe \/ Mem0Raises \/ NextArm
  <2>1. phase' # "passed"
    BY <1>2 DEF Load, ReplayTurn, Probe, Mem0Raises, NextArm, Running
  <2> QED BY <2>1 DEF PassedOK
<1>3. CASE UNCHANGED vars
  <2>1. phase' = phase /\ reports' = reports /\ selected' = selected /\ floors' = floors
    BY <1>3 DEF vars, input
  <2> QED BY <2>1 DEF PassedOK, Failed, LastReport, SelectedArms
<1> QED BY <1>1, <1>2, <1>3 DEF Next

(* The marked texts a store keeps out, and the records it is right to have. *)
BlockedIn(r) == PoisonBlocked(r.case, r.stored)
UsefulIn(r) == {m \in r.stored : m.claims \cap r.case.gold # {}}

LEMMA WhatIsCounted ==
  ASSUME NEW r, Counted(r)
  PROVE  /\ r.passed = Passes(r.case, r.reply)
         /\ r.useful = Cardinality(UsefulIn(r)) /\ r.total = Cardinality(r.stored)
         /\ r.blocked = Cardinality(BlockedIn(r)) /\ r.poison = Cardinality(r.case.poison)
         /\ IsFiniteSet(r.stored) /\ UsefulIn(r) \in SUBSET r.stored
         /\ IsFiniteSet(r.case.poison) /\ BlockedIn(r) \in SUBSET r.case.poison
         /\ r.useful \in Nat /\ r.total \in Nat /\ r.useful <= r.total
         /\ r.blocked \in Nat /\ r.poison \in Nat /\ r.blocked <= r.poison
<1>1. /\ r = Result(r.case, r.prompt, r.reply, r.stored, r.records)
      /\ IsFiniteSet(r.stored) /\ IsFiniteSet(r.case.poison)
  BY DEF Counted
<1>2. PICK c, q, p, s, u : c = r.case /\ q = r.prompt /\ p = r.reply /\ s = r.stored /\ u = r.records
  OBVIOUS
<1>3. r = Result(c, q, p, s, u)
  BY <1>1, <1>2
<1>4. /\ r.passed = Passes(c, p) /\ r.total = Cardinality(s)
      /\ r.useful = Cardinality({m \in s : m.claims \cap c.gold # {}})
      /\ r.blocked = Cardinality(PoisonBlocked(c, s)) /\ r.poison = Cardinality(c.poison)
  BY <1>3 DEF Result
<1>5. /\ r.passed = Passes(r.case, r.reply)
      /\ r.useful = Cardinality(UsefulIn(r)) /\ r.total = Cardinality(r.stored)
      /\ r.blocked = Cardinality(BlockedIn(r)) /\ r.poison = Cardinality(r.case.poison)
  BY <1>2, <1>4 DEF UsefulIn, BlockedIn
<1>6. UsefulIn(r) \subseteq r.stored /\ BlockedIn(r) \subseteq r.case.poison
  BY DEF UsefulIn, BlockedIn, PoisonBlocked
<1>7. r.useful \in Nat /\ r.total \in Nat /\ r.useful <= r.total
  BY <1>1, <1>5, <1>6, FS_Subset, FS_CardinalityType
<1>8. r.blocked \in Nat /\ r.poison \in Nat /\ r.blocked <= r.poison
  BY <1>1, <1>5, <1>6, FS_Subset, FS_CardinalityType
<1> QED BY <1>1, <1>5, <1>6, <1>7, <1>8

(* There are cases of the kind, and no reply to one holds a rejected claim. *)
NothingRejected(r, kind) ==
  /\ \E i \in DOMAIN r : r[i].case.kind = kind
  /\ \A i \in DOMAIN r : r[i].case.kind = kind => r[i].reply \cap r[i].case.reject_any = {}

(* What the four floors say of a report when they are 100 percent.         *)
LEMMA WhatFloorsMean ==
  ASSUME NEW r, r \in Seq(Range(r)), \A i \in DOMAIN r : Counted(r[i]), ~Failed(r)
  PROVE  /\ floors.injection = 100 =>
              /\ \E i \in DOMAIN r : r[i].case.poison # {}
              /\ \A i \in DOMAIN r : r[i].case.poison \cap ClaimsOf(r[i].stored) = {}
         /\ floors.conflict = 100 => NothingRejected(r, "conflict")
         /\ floors.decision = 100 => NothingRejected(r, "decision_relevant")
         /\ floors.precision = 100 =>
              \A i \in DOMAIN r : \A m \in r[i].stored : m.claims \cap r[i].case.gold # {}
<1> DEFINE n == Len(r)
<1>1. n \in Nat /\ DOMAIN r = 1..n
  BY LenProperties
<1> HIDE DEF n
<1>2. \A i \in 1..n : Counted(r[i])
  BY <1>1
<1>3. ASSUME NEW i \in 1..n
      PROVE  /\ r[i].useful \in Nat /\ r[i].total \in Nat /\ r[i].useful <= r[i].total
             /\ r[i].blocked \in Nat /\ r[i].poison \in Nat /\ r[i].blocked <= r[i].poison
  BY <1>2, WhatIsCounted
<1>4. ASSUME floors.injection = 100
      PROVE  /\ \E i \in 1..n : r[i].case.poison # {}
             /\ \A i \in 1..n : r[i].case.poison \cap ClaimsOf(r[i].stored) = {}
  <2> DEFINE f == [i \in 1..n |-> r[i].blocked]
             g == [i \in 1..n |-> r[i].poison]
  <2>1. ~Below(Total(f), Total(g), 100)
    BY <1>1, <1>4 DEF Failed
  <2>2. f \in [1..n -> Nat] /\ g \in [1..n -> Nat] /\ \A i \in 1..n : f[i] <= g[i]
    BY <1>3
  <2>3. \A i \in 1..n : f[i] = r[i].blocked /\ g[i] = r[i].poison
    OBVIOUS
  <2> HIDE DEF f, g
  <2>4. (\A i \in 1..n : f[i] = g[i]) /\ \E i \in 1..n : g[i] # 0
    BY <1>1, <2>1, <2>2, KeptTotals
  <2>5. \E i \in 1..n : r[i].case.poison # {}
    <3>1. PICK i \in 1..n : g[i] # 0
      BY <2>4
    <3>2. Cardinality(r[i].case.poison) # 0
      BY <1>2, <2>3, <3>1, WhatIsCounted
    <3> QED BY <3>2, FS_EmptySet
  <2>6. ASSUME NEW i \in 1..n PROVE r[i].case.poison \cap ClaimsOf(r[i].stored) = {}
    <3>1. /\ Cardinality(BlockedIn(r[i])) = Cardinality(r[i].case.poison)
          /\ Cardinality(r[i].case.poison) \in Nat
          /\ IsFiniteSet(r[i].case.poison) /\ BlockedIn(r[i]) \in SUBSET r[i].case.poison
      BY <1>2, <2>3, <2>4, WhatIsCounted
    <3>2. BlockedIn(r[i]) = r[i].case.poison
      BY <3>1, AllOfThem
    <3> QED BY <3>2 DEF BlockedIn, PoisonBlocked
  <2> QED BY <2>5, <2>6
<1>5. ASSUME NEW kind, ~RateBelow(r, kind, 100) PROVE NothingRejected(r, kind)
  <2>1. /\ \E i \in DOMAIN r : r[i].case.kind = kind
        /\ \A i \in DOMAIN r : r[i].case.kind = kind => r[i].passed
    BY <1>5, KeptRate
  <2>2. \A i \in DOMAIN r : r[i].passed = Passes(r[i].case, r[i].reply)
    BY WhatIsCounted
  <2>3. \A i \in DOMAIN r : r[i].passed => r[i].reply \cap r[i].case.reject_any = {}
    BY <2>2 DEF Passes
  <2> QED BY <2>1, <2>3 DEF NothingRejected
<1>6. ASSUME floors.precision = 100
      PROVE  \A i \in 1..n : \A m \in r[i].stored : m.claims \cap r[i].case.gold # {}
  <2> DEFINE f == [i \in 1..n |-> r[i].useful]
             g == [i \in 1..n |-> r[i].total]
  <2>1. ~Below(Total(f), Total(g), 100)
    BY <1>1, <1>6 DEF Failed
  <2>2. f \in [1..n -> Nat] /\ g \in [1..n -> Nat] /\ \A i \in 1..n : f[i] <= g[i]
    BY <1>3
  <2>3. \A i \in 1..n : f[i] = r[i].useful /\ g[i] = r[i].total
    OBVIOUS
  <2> HIDE DEF f, g
  <2>4. \A i \in 1..n : f[i] = g[i]
    BY <1>1, <2>1, <2>2, KeptTotals
  <2>5. ASSUME NEW i \in 1..n PROVE UsefulIn(r[i]) = r[i].stored
    <3>1. /\ Cardinality(UsefulIn(r[i])) = Cardinality(r[i].stored)
          /\ Cardinality(r[i].stored) \in Nat
          /\ IsFiniteSet(r[i].stored) /\ UsefulIn(r[i]) \in SUBSET r[i].stored
      BY <1>2, <2>3, <2>4, WhatIsCounted
    <3> QED BY <3>1, AllOfThem
  <2> QED BY <2>5 DEF UsefulIn
<1>7. /\ floors.conflict = 100 => ~RateBelow(r, "conflict", 100)
      /\ floors.decision = 100 => ~RateBelow(r, "decision_relevant", 100)
  BY DEF Failed
<1> QED BY <1>1, <1>4, <1>5, <1>6, <1>7

(* Under floors of 100 percent exit code 0 means what it says, for any     *)
(* case file: no marker in any store of the manager, no rejected claim in  *)
(* its replies, and nothing met by having nothing to measure (main).       *)
THEOREM GateKeepsItsWord == Spec => []GateIsSound
<1>1. Init => CountedOK /\ PassedOK
  <2> SUFFICES ASSUME Init PROVE CountedOK /\ PassedOK
    OBVIOUS
  <2>1. \A a \in selected : DOMAIN reports[a] = {}
    BY DEF Init
  <2>2. phase = "load"
    BY DEF Init
  <2> QED BY <2>1, <2>2 DEF CountedOK, PassedOK
<1>2. BenchInv /\ CountedOK /\ PassedOK /\ [Next]_vars => CountedOK' /\ PassedOK'
  BY CountedStep, PassedStep DEF BenchInv
<1>3. BenchInv /\ CountedOK /\ PassedOK => GateIsSound
  <2> SUFFICES ASSUME BenchInv, CountedOK, PassedOK,
                      phase = "passed", "manager" \in selected, "mem0" \notin selected
               PROVE  GateIsSound
    BY DEF GateIsSound
  <2> DEFINE r == reports["manager"]
  <2>1. LastReport(reports) = r
    BY ManagerIsLast DEF BenchInv
  <2>2. ~Failed(r)
    BY <2>1 DEF PassedOK
  <2>3. r \in Seq(Range(r)) /\ \A i \in DOMAIN r : Counted(r[i])
    BY DEF BenchInv, ReportsOK, CountedOK
  <2>4. Results("manager") = {r[i] : i \in DOMAIN r}
    BY DEF Results
  <2> HIDE DEF r
  <2>5. /\ floors.injection = 100 =>
             /\ \E i \in DOMAIN r : r[i].case.poison # {}
             /\ \A i \in DOMAIN r : r[i].case.poison \cap ClaimsOf(r[i].stored) = {}
        /\ floors.conflict = 100 => NothingRejected(r, "conflict")
        /\ floors.decision = 100 => NothingRejected(r, "decision_relevant")
        /\ floors.precision = 100 =>
             \A i \in DOMAIN r : \A m \in r[i].stored : m.claims \cap r[i].case.gold # {}
    BY <2>2, <2>3, WhatFloorsMean
  <2> QED BY <2>4, <2>5 DEF GateIsSound, NothingRejected
<1> QED BY <1>1, <1>2, <1>3, BenchInvHolds, PTL DEF Spec
==============================================================================
