----------------------------- MODULE LocomoProofs -----------------------------
(***************************************************************************)
(* What the LoCoMo driver measures, for any datasets, caps and limits, and *)
(* whatever a model replies: proofs about module Locomo.                   *)
(***************************************************************************)
EXTENDS Locomo, BenchmarkProofs

(* One sequence put after another.                                         *)
Joins(u, s, t) ==
  /\ Len(s) \in Nat /\ Len(t) \in Nat /\ Len(u) = Len(s) + Len(t)
  /\ \A p \in 1..Len(s) : p \in 1..Len(u) /\ u[p] = s[p]
  /\ \A p \in 1..Len(t) : Len(s) + p \in 1..Len(u) /\ u[Len(s) + p] = t[p]

LEMMA Joining ==
  ASSUME NEW S, NEW s \in Seq(S), NEW t \in Seq(S)
  PROVE  Joins(s \o t, s, t)
<1> DEFINE u == s \o t
<1>1. PICK a \in Nat, b \in Nat : a = Len(s) /\ b = Len(t)
  BY LenProperties
<1>2. /\ Len(u) = a + b
      /\ \A p \in 1..(a + b) : u[p] = IF p <= a THEN s[p] ELSE t[p - a]
  BY <1>1, ConcatProperties
<1>3. \A p \in 1..a : p \in 1..(a + b) /\ p <= a
  BY <1>1
<1>4. \A p \in 1..b : a + p \in 1..(a + b) /\ ~(a + p <= a) /\ (a + p) - a = p
  BY <1>1
<1> HIDE DEF u
<1>5. Joins(u, s, t)
  <2>1. \A p \in 1..a : p \in 1..Len(u) /\ u[p] = s[p]
    BY ONLY <1>2, <1>3
  <2>2. \A p \in 1..b : a + p \in 1..Len(u) /\ u[a + p] = t[p]
    BY ONLY <1>2, <1>4
  <2> QED BY ONLY <1>1, <1>2, <2>1, <2>2 DEF Joins
<1> QED BY <1>5 DEF u

(* Sequences put one after another end where the lengths so far add up to. *)
Ends(off, q) ==
  /\ off \in [0..Len(q) -> Nat] /\ off[0] = 0
  /\ \A i \in 1..Len(q) : off[i] = off[i - 1] + Len(q[i])

LEMMA FlattenPlaces ==
  ASSUME NEW S, NEW q \in Seq(Seq(S))
  PROVE  \E off : /\ Ends(off, q) /\ off[Len(q)] = Len(FlattenSeq(q))
                  /\ \A i \in 1..Len(q) : \A j \in 1..Len(q[i]) :
                       FlattenSeq(q)[off[i - 1] + j] = q[i][j]
<1> DEFINE n == Len(q)
           g == Joined(q)
<1>1. FlattenSeq(q) = IF n = 0 THEN q ELSE g[n]
  BY JoinedSoFar
<1>2. n \in Nat /\ \A i \in 1..n : q[i] \in Seq(S) /\ Len(q[i]) \in Nat
  BY LenProperties, ElementOfSeq
<1>3. \A i \in 1..n : g[i] = IF i = 1 THEN q[i] ELSE g[i - 1] \o q[i]
  BY JoinedSoFar
<1> HIDE DEF g
<1>4. \A i \in 1..n : g[i] \in Seq(S) /\ Len(g[i]) \in Nat
  BY JoinedSoFar, LenProperties DEF g
<1> DEFINE off == [i \in 0..n |-> IF i = 0 THEN 0 ELSE Len(g[i])]
<1>5. Ends(off, q)
  <2>1. ASSUME NEW i \in 1..n PROVE off[i] = off[i - 1] + Len(q[i])
    <3>1. CASE i = 1
      <4>1. g[i] = q[i] /\ i \in 0..n /\ i - 1 = 0 /\ 0 \in 0..n /\ i # 0 /\ Len(q[i]) \in Nat
        BY <1>2, <1>3, <3>1
      <4>2. off[i] = Len(q[i]) /\ off[i - 1] = 0
        BY <4>1
      <4> QED BY <4>1, <4>2
    <3>2. CASE i # 1
      <4>1. i - 1 \in 1..n /\ i - 1 # 0 /\ i # 0 /\ i \in 0..n /\ i - 1 \in 0..n
        BY <1>2, <3>2
      <4>2. g[i] = g[i - 1] \o q[i] /\ g[i - 1] \in Seq(S) /\ q[i] \in Seq(S)
        BY <1>2, <1>3, <1>4, <3>2, <4>1
      <4>3. Joins(g[i], g[i - 1], q[i])
        BY <4>2, Joining
      <4> QED BY <4>1, <4>3 DEF Joins
    <3> QED BY <3>1, <3>2
  <2>2. off \in [0..n -> Nat] /\ off[0] = 0
    BY <1>2, <1>4
  <2> HIDE DEF off
  <2> QED BY <2>1, <2>2 DEF Ends
<1>6. ASSUME NEW k \in 1..n, NEW i \in 1..k
      PROVE  Len(g[i]) <= Len(g[k]) /\ \A p \in 1..Len(g[i]) : g[k][p] = g[i][p]
  <2> DEFINE Good(l) == Len(g[i]) <= Len(g[l]) /\ \A p \in 1..Len(g[i]) : g[l][p] = g[i][p]
             Bad == {l \in i..n : ~Good(l)}
  <2>1. SUFFICES ASSUME k \in Bad PROVE FALSE
    BY <1>2
  <2>2. PICK l \in Bad : \A m \in Bad : l <= m
    <3>1. i..n \in SUBSET Nat
      BY <1>2
    <3>2. Bad \in SUBSET Nat /\ Bad # {}
      BY <2>1, <3>1
    <3> HIDE DEF Bad
    <3> QED BY <3>2, LeastOf
  <2>3. i \in 1..n /\ l \in 1..n
    BY <1>2, <2>2
  <2>4. l # i
    <3>1. Good(i)
      BY <1>4, <2>3
    <3> QED BY <2>2, <3>1
  <2>5. l - 1 \in i..n /\ l - 1 \in 1..n /\ l # 1 /\ ~(l <= l - 1)
    BY <1>2, <2>2, <2>3, <2>4
  <2>6. Good(l - 1)
    BY <2>2, <2>5
  <2>7. g[l] = g[l - 1] \o q[l] /\ g[l - 1] \in Seq(S) /\ q[l] \in Seq(S)
    BY <1>2, <1>3, <1>4, <2>3, <2>5
  <2>8. Joins(g[l], g[l - 1], q[l])
    BY <2>7, Joining
  <2>9. PICK u, w : u = g[l - 1] /\ w = g[l]
    OBVIOUS
  <2>10. PICK d \in Nat : d = Len(g[i])
    BY <1>4, <2>3
  <2>11. d <= Len(u) /\ \A p \in 1..d : u[p] = g[i][p]
    BY <2>6, <2>9, <2>10
  <2>12. Len(u) \in Nat /\ Len(u) <= Len(w) /\ \A p \in 1..Len(u) : w[p] = u[p]
    <3>1. /\ Len(u) \in Nat /\ Len(q[l]) \in Nat /\ Len(w) = Len(u) + Len(q[l])
          /\ \A p \in 1..Len(u) : w[p] = u[p]
      BY <2>8, <2>9 DEF Joins
    <3>2. PICK x \in Nat, y \in Nat : x = Len(u) /\ y = Len(q[l]) /\ Len(w) = x + y
      BY <3>1
    <3>3. x <= x + y
      OBVIOUS
    <3> QED BY <3>1, <3>2, <3>3
  <2>13. d <= Len(w) /\ \A p \in 1..d : p \in 1..Len(u)
    <3>1. Len(w) \in Int
      BY <2>8, <2>9 DEF Joins
    <3> QED BY <2>10, <2>11, <2>12, <3>1
  <2>14. Good(l)
    BY <2>9, <2>10, <2>11, <2>12, <2>13
  <2> QED BY <2>2, <2>14
<1>7. ASSUME NEW i \in 1..n, NEW j \in 1..Len(q[i])
      PROVE  FlattenSeq(q)[off[i - 1] + j] = q[i][j]
  <2>1. n # 0 /\ n \in 1..n /\ i \in 0..n /\ i - 1 \in 0..n /\ FlattenSeq(q) = g[n] /\ j \in Nat
    BY <1>1, <1>2
  <2>2. off[i - 1] + j \in 1..Len(g[i]) /\ g[i][off[i - 1] + j] = q[i][j]
    <3>1. CASE i = 1
      BY <1>3, <2>1, <3>1
    <3>2. CASE i # 1
      <4>1. i - 1 \in 1..n /\ i - 1 # 0
        BY <1>2, <3>2
      <4>2. g[i] = g[i - 1] \o q[i] /\ g[i - 1] \in Seq(S) /\ q[i] \in Seq(S)
        BY <1>2, <1>3, <1>4, <3>2, <4>1
      <4>3. Joins(g[i], g[i - 1], q[i])
        BY <4>2, Joining
      <4>4. off[i - 1] = Len(g[i - 1])
        BY <2>1, <4>1
      <4> HIDE DEF off
      <4> QED BY <4>3, <4>4 DEF Joins
    <3> QED BY <3>1, <3>2
  <2>3. g[n][off[i - 1] + j] = g[i][off[i - 1] + j]
    BY <1>6, <2>1, <2>2
  <2> QED BY <2>1, <2>2, <2>3
<1>8. off[n] = Len(FlattenSeq(q))
  <2>1. CASE n = 0
    BY <1>1, <2>1
  <2>2. CASE n # 0
    BY <1>1, <1>2, <2>2
  <2> QED BY <2>1, <2>2
<1> HIDE DEF off
<1> QED BY <1>5, <1>7, <1>8

LEMMA EndsGrow ==
  ASSUME NEW q, Len(q) \in Nat, \A i \in 1..Len(q) : Len(q[i]) \in Nat, NEW off, Ends(off, q),
         NEW b \in 0..Len(q), NEW a \in 0..b
  PROVE  off[a] \in Nat /\ off[b] \in Nat /\ off[a] <= off[b]
<1> DEFINE Bad == {m \in a..Len(q) : ~(off[a] <= off[m])}
<1>1. \A m \in 0..Len(q) : off[m] \in Nat
  BY DEF Ends
<1>2. a \in 0..Len(q) /\ b \in a..Len(q) /\ a..Len(q) \in SUBSET Nat
  OBVIOUS
<1>3. SUFFICES ASSUME b \in Bad PROVE FALSE
  BY <1>1, <1>2
<1>4. PICK m \in Bad : \A l \in Bad : m <= l
  <2>1. Bad \in SUBSET Nat /\ Bad # {}
    BY <1>2, <1>3
  <2> HIDE DEF Bad
  <2> QED BY <2>1, LeastOf
<1>5. m # a
  <2>1. off[a] <= off[a]
    BY <1>1, <1>2
  <2> QED BY <1>4, <2>1
<1>6. m \in 1..Len(q) /\ m - 1 \in a..Len(q) /\ m - 1 \in 0..Len(q) /\ ~(m <= m - 1)
  BY <1>2, <1>4, <1>5
<1>7. off[a] <= off[m - 1]
  BY <1>4, <1>6
<1>8. off[m] = off[m - 1] + Len(q[m]) /\ Len(q[m]) \in Nat
  BY <1>6 DEF Ends
<1>9. off[a] \in Nat /\ off[m - 1] \in Nat
  BY <1>1, <1>2, <1>6
<1>10. off[a] <= off[m]
  BY <1>7, <1>8, <1>9
<1> QED BY <1>4, <1>10

(* Every place of the whole is one of a part.                              *)
IsInPart(q, off, p) == \E i \in 1..Len(q) : \E j \in 1..Len(q[i]) : p = off[i - 1] + j

LEMMA PlaceSplits ==
  ASSUME NEW q, Len(q) \in Nat, \A i \in 1..Len(q) : Len(q[i]) \in Nat, NEW off, Ends(off, q),
         NEW p \in 1..off[Len(q)]
  PROVE  IsInPart(q, off, p)
<1> DEFINE T == {m \in 0..Len(q) : p <= off[m]}
<1>1. \A m \in 0..Len(q) : off[m] \in Nat
  BY DEF Ends
<1>2. Len(q) \in T
  <2>1. Len(q) \in 0..Len(q) /\ off[Len(q)] \in Nat
    BY <1>1
  <2> QED BY <2>1
<1>3. PICK i \in T : \A m \in T : i <= m
  <2>1. T \in SUBSET Nat /\ T # {}
    BY <1>2
  <2> HIDE DEF T
  <2> QED BY <2>1, LeastOf
<1>4. i # 0
  <2>1. off[0] = 0 /\ p <= off[i] /\ p \in Nat /\ p > 0
    BY <1>1, <1>3 DEF Ends
  <2> QED BY <2>1
<1>5. i \in 1..Len(q) /\ i - 1 \in 0..Len(q) /\ ~(i <= i - 1) /\ p \in Nat /\ p > 0
  BY <1>1, <1>3, <1>4
<1>6. ~(p <= off[i - 1]) /\ p <= off[i]
  BY <1>3, <1>5
<1>7. off[i] = off[i - 1] + Len(q[i]) /\ Len(q[i]) \in Nat /\ off[i - 1] \in Nat
  BY <1>1, <1>5 DEF Ends
<1>8. p - off[i - 1] \in 1..Len(q[i]) /\ p = off[i - 1] + (p - off[i - 1])
  BY <1>5, <1>6, <1>7
<1> QED BY <1>5, <1>8 DEF IsInPart
------------------------------------------------------------------------------
(* The sort of the sessions: each has its place, and none comes before one *)
(* with a lower number.                                                    *)
Before(c, i, j) ==
  \/ c.sessions[i].number < c.sessions[j].number
  \/ c.sessions[i].number = c.sessions[j].number /\ i < j

SortedUpTo(c, i) ==
  {j \in DOMAIN c.sessions :
     \/ c.sessions[j].number < c.sessions[i].number
     \/ c.sessions[j].number = c.sessions[i].number /\ j <= i}

LEMMA SessionsAre ==
  ASSUME NEW c \in LocomoConversation
  PROVE  /\ Len(c.sessions) \in Nat /\ DOMAIN c.sessions = 1..Len(c.sessions)
         /\ \A i \in DOMAIN c.sessions :
              /\ c.sessions[i].number \in Nat /\ c.sessions[i].turns \in Seq(Utterance)
              /\ Len(c.sessions[i].turns) \in Nat
              /\ DOMAIN c.sessions[i].turns = 1..Len(c.sessions[i].turns)
<1>1. c.sessions \in Seq([number : Nat, turns : Seq(Utterance)])
  BY DEF LocomoConversation
<1>2. Len(c.sessions) \in Nat /\ DOMAIN c.sessions = 1..Len(c.sessions)
  BY <1>1, LenProperties
<1>3. ASSUME NEW i \in DOMAIN c.sessions
      PROVE  /\ c.sessions[i].number \in Nat /\ c.sessions[i].turns \in Seq(Utterance)
             /\ Len(c.sessions[i].turns) \in Nat
             /\ DOMAIN c.sessions[i].turns = 1..Len(c.sessions[i].turns)
  <2>1. c.sessions[i] \in [number : Nat, turns : Seq(Utterance)]
    BY <1>1, <1>2, ElementOfSeq
  <2>2. c.sessions[i].number \in Nat /\ c.sessions[i].turns \in Seq(Utterance)
    BY <2>1
  <2> QED BY <2>2, LenProperties
<1> QED BY <1>2, <1>3

LEMMA RanksAgree ==
  ASSUME NEW c \in LocomoConversation, NEW i \in DOMAIN c.sessions, NEW j \in DOMAIN c.sessions
  PROVE  /\ IsFiniteSet(SortedUpTo(c, i)) /\ Cardinality(SortedUpTo(c, i)) \in 1..Len(c.sessions)
         /\ i = j \/ Before(c, i, j) \/ Before(c, j, i)
         /\ Before(c, i, j) => Cardinality(SortedUpTo(c, i)) < Cardinality(SortedUpTo(c, j))
<1> DEFINE num(k) == c.sessions[k].number
<1>1. /\ Len(c.sessions) \in Nat /\ DOMAIN c.sessions = 1..Len(c.sessions)
      /\ \A k \in DOMAIN c.sessions : num(k) \in Nat /\ k \in Nat
  BY SessionsAre
<1>2. ASSUME NEW k \in DOMAIN c.sessions
      PROVE  /\ IsFiniteSet(SortedUpTo(c, k)) /\ k \in SortedUpTo(c, k)
             /\ Cardinality(SortedUpTo(c, k)) \in 1..Len(c.sessions)
  <2>1. SortedUpTo(c, k) \subseteq 1..Len(c.sessions)
    BY <1>1 DEF SortedUpTo
  <2>2. IsFiniteSet(1..Len(c.sessions)) /\ Cardinality(1..Len(c.sessions)) = Len(c.sessions)
    BY <1>1, FS_Interval
  <2>3. /\ IsFiniteSet(SortedUpTo(c, k)) /\ Cardinality(SortedUpTo(c, k)) \in Nat
        /\ Cardinality(SortedUpTo(c, k)) <= Len(c.sessions)
    BY <2>1, <2>2, FS_Subset, FS_CardinalityType
  <2>4. k \in SortedUpTo(c, k)
    <3>1. k <= k
      BY <1>1
    <3> QED BY <3>1 DEF SortedUpTo
  <2>5. Cardinality(SortedUpTo(c, k)) # 0
    BY <2>3, <2>4, FS_EmptySet
  <2> QED BY <1>1, <2>3, <2>4, <2>5
<1>3. i = j \/ Before(c, i, j) \/ Before(c, j, i)
  BY <1>1 DEF Before
<1>4. ASSUME Before(c, i, j)
      PROVE  Cardinality(SortedUpTo(c, i)) < Cardinality(SortedUpTo(c, j))
  <2>1. SortedUpTo(c, i) \subseteq SortedUpTo(c, j)
    BY <1>1, <1>4 DEF SortedUpTo, Before
  <2>2. j \notin SortedUpTo(c, i)
    BY <1>1, <1>4 DEF SortedUpTo, Before
  <2>3. SortedUpTo(c, i) # SortedUpTo(c, j)
    BY <1>2, <2>2
  <2>4. Cardinality(SortedUpTo(c, i)) <= Cardinality(SortedUpTo(c, j))
        /\ Cardinality(SortedUpTo(c, i)) # Cardinality(SortedUpTo(c, j))
    BY <1>2, <2>1, <2>3, FS_Subset
  <2>5. Cardinality(SortedUpTo(c, i)) \in Nat /\ Cardinality(SortedUpTo(c, j)) \in Nat
    BY <1>1, <1>2
  <2> QED BY <2>4, <2>5
<1> QED BY <1>2, <1>3, <1>4

LEMMA SessionsSorted ==
  ASSUME NEW c \in LocomoConversation
  PROVE  /\ \A k \in DOMAIN c.sessions : InOrder(c, k) \in DOMAIN c.sessions
         /\ \A k, l \in DOMAIN c.sessions : k < l =>
              Before(c, InOrder(c, k), InOrder(c, l))
         /\ \A i \in DOMAIN c.sessions : \E k \in DOMAIN c.sessions : InOrder(c, k) = i
<1> DEFINE D == DOMAIN c.sessions
           rank == [i \in D |-> Cardinality(SortedUpTo(c, i))]
<1>1. D = 1..Len(c.sessions) /\ Len(c.sessions) \in Nat
  BY SessionsAre
<1>2. \A i \in D : rank[i] \in D
  BY <1>1, RanksAgree
<1>3. \A i, j \in D : Before(c, i, j) => rank[i] < rank[j]
  BY RanksAgree
<1>4. \A i, j \in D : i = j \/ Before(c, i, j) \/ Before(c, j, i)
  BY RanksAgree
<1>5. rank \in [D -> D]
  BY <1>2
<1>6. \A i, j \in D : rank[i] = rank[j] => i = j
  <2>1. \A m \in D : ~(m < m)
    BY <1>1
  <2>2. \A i, j \in D : rank[i] = rank[j] => ~(rank[i] < rank[j]) /\ ~(rank[j] < rank[i])
    BY <1>2, <2>1
  <2> QED BY <1>3, <1>4, <2>2
<1>7. \A k \in D : InOrder(c, k) = CHOOSE i \in D : rank[i] = k
  BY DEF InOrder, SortedUpTo
<1> HIDE DEF rank
<1>8. \A k \in D : \E i \in D : rank[i] = k
  <2>1. rank \in Injection(D, D)
    BY <1>5, <1>6, Fun_IsInj
  <2>2. IsFiniteSet(D)
    <3>1. PICK m \in Nat : D = 1..m
      BY <1>1
    <3>2. IsFiniteSet(1..m)
      BY FS_Interval
    <3> QED BY <3>1, <3>2
  <2>3. rank \in Surjection(D, D)
    BY <2>1, <2>2, FS_Injection
  <2> QED BY <2>3 DEF Surjection
<1> HIDE DEF D
<1>9. \A k \in D : InOrder(c, k) \in D /\ rank[InOrder(c, k)] = k
  BY <1>7, <1>8
<1>10. ASSUME NEW k \in D, NEW l \in D, k < l
       PROVE  Before(c, InOrder(c, k), InOrder(c, l))
  <2>1. PICK i \in D, j \in D : /\ i = InOrder(c, k) /\ j = InOrder(c, l)
                                /\ rank[i] = k /\ rank[j] = l
    BY <1>9
  <2>2. k \in Nat /\ l \in Nat /\ k # l /\ ~(l < k)
    BY <1>1, <1>10
  <2>3. i # j /\ ~Before(c, j, i)
    BY <1>3, <2>1, <2>2
  <2> QED BY <1>4, <2>1, <2>3
<1>11. \A i \in D : \E k \in D : InOrder(c, k) = i
  BY <1>2, <1>6, <1>9
<1> QED BY <1>9, <1>10, <1>11 DEF D

------------------------------------------------------------------------------
(* Where in a conversation the turns to replay come from.                  *)
Nonblank(session) == {j \in DOMAIN session.turns : ~session.turns[j].blank}

Spot(c, i, j) == [session |-> i, nth |-> j, turn |-> c.sessions[i].turns[j]]

LEMMA SpotsAreTold ==
  ASSUME NEW c \in LocomoConversation
  PROVE  /\ \A i \in DOMAIN c.sessions : \A j \in Nonblank(c.sessions[i]) :
              Spot(c, i, j) \in Told(c, 1)
         /\ \A x \in Told(c, 1) : \E i \in DOMAIN c.sessions :
              \E j \in Nonblank(c.sessions[i]) : x = Spot(c, i, j)
<1> DEFINE Of1(i) == {[session |-> i, nth |-> j, turn |-> c.sessions[i].turns[j]] :
                        j \in {k \in DOMAIN c.sessions[i].turns : ~c.sessions[i].turns[k].blank}}
           NoQuestion == {[session |-> 0, nth |-> k, turn |-> c.questions[k].turn] : k \in 1..(1 - 1)}
<1>1. Told(c, 1) = (UNION {Of1(i) : i \in DOMAIN c.sessions}) \cup NoQuestion
  BY DEF Told
<1>2. NoQuestion = {}
  OBVIOUS
<1> HIDE DEF NoQuestion
<1>3. Told(c, 1) = UNION {Of1(i) : i \in DOMAIN c.sessions}
  BY <1>1, <1>2
<1>4. ASSUME NEW i \in DOMAIN c.sessions, NEW j \in Nonblank(c.sessions[i])
      PROVE  Spot(c, i, j) \in Told(c, 1)
  <2>1. Spot(c, i, j) \in Of1(i)
    BY DEF Spot, Nonblank
  <2> HIDE DEF Of1
  <2> QED BY <1>3, <2>1
<1>5. ASSUME NEW x \in Told(c, 1)
      PROVE  \E i \in DOMAIN c.sessions : \E j \in Nonblank(c.sessions[i]) : x = Spot(c, i, j)
  <2>1. PICK i \in DOMAIN c.sessions : x \in Of1(i)
    <3> HIDE DEF Of1
    <3> QED BY <1>3
  <2>2. PICK j \in Nonblank(c.sessions[i]) : x = Spot(c, i, j)
    BY <2>1 DEF Spot, Nonblank
  <2> QED BY <2>2
<1> QED BY <1>4, <1>5

(* What is spoken of a session: its texts that are not blank, in order.    *)
LEMMA SpokenAre ==
  ASSUME NEW c \in LocomoConversation, NEW i \in DOMAIN c.sessions
  PROVE  LET P == Nonblank(c.sessions[i])
             s == Spoken(c.sessions[i])
         IN /\ s \in Seq(Utterance) /\ Len(s) = Cardinality(P)
            /\ P \subseteq 1..Len(c.sessions[i].turns)
            /\ \A k \in 1..Len(s) : Nth(P, k) \in P /\ s[k] = c.sessions[i].turns[Nth(P, k)]
            /\ \A k, l \in 1..Len(s) : k < l => Nth(P, k) < Nth(P, l)
            /\ \A j \in P : \E k \in 1..Len(s) : Nth(P, k) = j
<1> DEFINE P == Nonblank(c.sessions[i])
           t == c.sessions[i].turns
           s == Spoken(c.sessions[i])
<1>1. t \in Seq(Utterance) /\ Len(t) \in Nat /\ DOMAIN t = 1..Len(t)
  BY SessionsAre
<1>2. P \subseteq 1..Len(t) /\ s = Kept(t, P)
  BY <1>1 DEF Nonblank, Spoken
<1> HIDE DEF P, s, t
<1>3. s \in Seq(Utterance) /\ Len(s) = Cardinality(P)
  BY <1>1, <1>2, KeptIsThat
<1>4. \A k \in 1..Cardinality(P) : Nth(P, k) \in P /\ Cardinality(UpTo(P, Nth(P, k))) = k
  BY <1>1, <1>2, NthPlace
<1>5. \A k \in 1..Cardinality(P) : s[k] = t[Nth(P, k)]
  BY <1>2 DEF Kept, Nth
<1>6. ASSUME NEW k \in 1..Cardinality(P), NEW l \in 1..Cardinality(P), k < l
      PROVE  Nth(P, k) < Nth(P, l)
  <2>1. PICK a \in P, b \in P : /\ a = Nth(P, k) /\ b = Nth(P, l)
                                /\ Cardinality(UpTo(P, a)) = k /\ Cardinality(UpTo(P, b)) = l
    BY <1>4
  <2>2. b < a => Cardinality(UpTo(P, b)) < Cardinality(UpTo(P, a))
    BY <1>1, <1>2, PlacesCountUp
  <2>3. a \in Int /\ b \in Int /\ k \in Int /\ l \in Int /\ k < l
    BY <1>2, <1>6
  <2> QED BY <2>1, <2>2, <2>3
<1>7. \A j \in P : \E k \in 1..Cardinality(P) : Nth(P, k) = j
  BY <1>1, <1>2, PlaceIsNth
<1> QED BY <1>2, <1>3, <1>4, <1>5, <1>6, <1>7 DEF P, s, t


(* Places in a later part are later.                                       *)
LEMMA PlacesApart ==
  ASSUME NEW q, Len(q) \in Nat, \A i \in 1..Len(q) : Len(q[i]) \in Nat, NEW off, Ends(off, q),
         NEW i \in 1..Len(q), NEW j \in 1..Len(q[i]), NEW k \in 1..Len(q), NEW l \in 1..Len(q[k])
  PROVE  /\ off[i - 1] + j \in 1..off[Len(q)]
         /\ i < k => off[i - 1] + j < off[k - 1] + l
<1>1. off[i] = off[i - 1] + Len(q[i]) /\ off[i - 1] \in Nat /\ Len(q[i]) \in Nat /\ j \in Nat /\ l > 0
  <2>1. i - 1 \in 0..Len(q) /\ off \in [0..Len(q) -> Nat]
    BY DEF Ends
  <2>2. off[i] = off[i - 1] + Len(q[i])
    BY DEF Ends
  <2>3. Len(q[i]) \in Nat /\ Len(q[k]) \in Nat
    OBVIOUS
  <2>4. j \in Nat /\ l > 0
    BY <2>3
  <2> QED BY <2>1, <2>2, <2>3, <2>4
<1>2. off[i] \in Nat /\ off[Len(q)] \in Nat /\ off[i] <= off[Len(q)]
  <2>1. Len(q) \in 0..Len(q) /\ i \in 0..Len(q)
    OBVIOUS
  <2> QED BY <2>1, EndsGrow
<1>3. ASSUME i < k PROVE off[i - 1] + j < off[k - 1] + l
  <2>1. k - 1 \in 0..Len(q) /\ i \in 0..(k - 1)
    BY <1>3
  <2>2. off[i] <= off[k - 1] /\ off[k - 1] \in Nat
    BY <2>1, EndsGrow
  <2>3. off[i - 1] + j <= off[i] /\ l \in Nat
    BY <1>1
  <2>4. PICK w \in Nat, x \in Nat, y \in Nat : w = off[i - 1] /\ x = off[i] /\ y = off[k - 1]
    BY <1>1, <1>2, <2>2
  <2>5. PICK d \in Nat, e \in Nat : d = j /\ e = l /\ e > 0 /\ w + d <= x /\ x <= y
    BY <1>1, <2>2, <2>3, <2>4
  <2>6. /\ w \in Nat /\ x \in Nat /\ y \in Nat /\ d \in Nat /\ e \in Nat
        /\ e > 0 /\ w + d <= x /\ x <= y
    BY <2>4, <2>5
  <2>7. w + d < y + e
    BY ONLY <2>6
  <2> QED BY <2>4, <2>5, <2>7
<1> QED BY <1>1, <1>2, <1>3

(* Whether what was said at x was said after y, as far as sessions and     *)
(* their texts go.                                                         *)
Later(c, x, y) ==
  \/ x.session = y.session /\ x.nth > y.nth
  \/ x.session = 0 /\ y.session # 0
  \/ /\ x.session # 0 /\ y.session # 0
     /\ c.sessions[x.session].number > c.sessions[y.session].number

(* Which turn stands where.                                                *)
Places(c, at) ==
  /\ \A p \in 1..Len(Turns(c)) : at[p] \in Told(c, 1) /\ at[p].turn = Turns(c)[p]
  /\ \A x \in Told(c, 1) : \E p \in 1..Len(Turns(c)) : at[p] = x
  /\ \A p, r \in 1..Len(Turns(c)) : p < r => ~Later(c, at[p], at[r])

(* Replay goes through all that was said, and to nothing said later before *)
(* what was said earlier.                                                  *)
LEMMA TurnsAreTold ==
  ASSUME NEW c \in LocomoConversation
  PROVE  Turns(c) \in Seq(Utterance) /\ \E at : Places(c, at)
<1> DEFINE n == Len(c.sessions)
           q == [k \in DOMAIN c.sessions |-> Spoken(c.sessions[InOrder(c, k)])]
           P(k) == Nonblank(c.sessions[InOrder(c, k)])
           spot(k, l) == Spot(c, InOrder(c, k), Nth(P(k), l))
<1>1. n \in Nat /\ DOMAIN c.sessions = 1..n
  BY SessionsAre
<1>2. \A k \in 1..n : InOrder(c, k) \in DOMAIN c.sessions
  BY <1>1, SessionsSorted
<1>3. \A k \in 1..n : q[k] \in Seq(Utterance)
  BY <1>1, <1>2, SpokenAre
<1>4. Turns(c) = FlattenSeq(q)
  BY DEF Turns
<1>5. q \in Seq(Seq(Utterance)) /\ Len(q) = n
  <2>1. q = [k \in 1..n |-> q[k]]
    BY <1>1
  <2> HIDE DEF q
  <2>2. q \in [1..n -> Seq(Utterance)] /\ DOMAIN q = 1..n
    BY <1>3, <2>1
  <2>3. q \in Seq(Seq(Utterance))
    BY <1>1, <2>2, FunIsSeq
  <2> QED BY <1>1, <2>2, <2>3, LenProperties
<1>6. Turns(c) \in Seq(Utterance)
  <2> HIDE DEF q
  <2> QED BY <1>4, <1>5, FlattenIsSeq
<1>7. PICK off : /\ Ends(off, q) /\ off[n] = Len(Turns(c))
                 /\ \A k \in 1..n : \A l \in 1..Len(q[k]) : Turns(c)[off[k - 1] + l] = q[k][l]
  <2> HIDE DEF q, n
  <2>1. \E off : /\ Ends(off, q) /\ off[Len(q)] = Len(FlattenSeq(q))
                 /\ \A k \in 1..Len(q) : \A l \in 1..Len(q[k]) :
                      FlattenSeq(q)[off[k - 1] + l] = q[k][l]
    BY <1>5, FlattenPlaces
  <2> QED BY <1>4, <1>5, <2>1
<1>8. ASSUME NEW k \in 1..n
      PROVE  /\ Len(q[k]) \in Nat
             /\ \A l \in 1..Len(q[k]) : /\ spot(k, l) \in Told(c, 1) /\ spot(k, l).turn = q[k][l]
                                        /\ Nth(P(k), l) \in Nat
             /\ \A l, m \in 1..Len(q[k]) : l < m => Nth(P(k), l) < Nth(P(k), m)
             /\ \A j \in P(k) : \E l \in 1..Len(q[k]) : Nth(P(k), l) = j
  <2>1. PICK i \in DOMAIN c.sessions : i = InOrder(c, k)
    BY <1>2
  <2>2. PICK s : s = Spoken(c.sessions[i]) /\ s = q[k]
    BY <1>1, <2>1
  <2>3. /\ s \in Seq(Utterance)
        /\ Nonblank(c.sessions[i]) \subseteq Nat
        /\ \A l \in 1..Len(s) : /\ Nth(Nonblank(c.sessions[i]), l) \in Nonblank(c.sessions[i])
                                /\ s[l] = c.sessions[i].turns[Nth(Nonblank(c.sessions[i]), l)]
        /\ \A l, m \in 1..Len(s) : l < m =>
             Nth(Nonblank(c.sessions[i]), l) < Nth(Nonblank(c.sessions[i]), m)
        /\ \A j \in Nonblank(c.sessions[i]) :
             \E l \in 1..Len(s) : Nth(Nonblank(c.sessions[i]), l) = j
    <3> DEFINE B == Nonblank(c.sessions[i])
               u == Spoken(c.sessions[i])
    <3>1. /\ u \in Seq(Utterance) /\ B \subseteq 1..Len(c.sessions[i].turns)
          /\ \A l \in 1..Len(u) : Nth(B, l) \in B /\ u[l] = c.sessions[i].turns[Nth(B, l)]
          /\ \A l, m \in 1..Len(u) : l < m => Nth(B, l) < Nth(B, m)
          /\ \A j \in B : \E l \in 1..Len(u) : Nth(B, l) = j
      BY SpokenAre
    <3>2. s = u /\ B \subseteq Nat
      BY <2>2, <3>1
    <3> HIDE DEF B, u
    <3> QED BY <3>1, <3>2 DEF B
  <2>4. Len(s) \in Nat
    BY <2>3, LenProperties
  <2>5. ASSUME NEW l \in 1..Len(s)
        PROVE  /\ Spot(c, i, Nth(Nonblank(c.sessions[i]), l)) \in Told(c, 1)
               /\ Spot(c, i, Nth(Nonblank(c.sessions[i]), l)).turn = s[l]
    <3>1. Nth(Nonblank(c.sessions[i]), l) \in Nonblank(c.sessions[i])
      BY <2>3
    <3>2. Spot(c, i, Nth(Nonblank(c.sessions[i]), l)) \in Told(c, 1)
      BY <3>1, SpotsAreTold
    <3> QED BY <2>3, <3>2 DEF Spot
  <2> HIDE DEF q
  <2> QED BY <2>1, <2>2, <2>3, <2>4, <2>5
<1> HIDE DEF q
<1> DEFINE is(p, x) == \E k \in 1..n : \E l \in 1..Len(q[k]) : p = off[k - 1] + l /\ x = spot(k, l)
           at == [p \in 1..Len(Turns(c)) |-> CHOOSE x : is(p, x)]
<1>9. \A i \in 1..Len(q) : Len(q[i]) \in Nat
  BY <1>5, <1>8
<1>10. ASSUME NEW k \in 1..n, NEW l \in 1..Len(q[k])
       PROVE  off[k - 1] + l \in 1..Len(Turns(c)) /\ is(off[k - 1] + l, spot(k, l))
  <2>1. off[k - 1] + l \in 1..off[Len(q)]
    BY <1>1, <1>5, <1>7, <1>9, PlacesApart
  <2> QED BY <1>5, <1>7, <2>1
<1>11. ASSUME NEW k \in 1..n, NEW l \in 1..Len(q[k]), NEW i \in 1..n, NEW j \in 1..Len(q[i])
       PROVE  /\ off[k - 1] + l < off[i - 1] + j => k < i \/ (k = i /\ l < j)
              /\ off[k - 1] + l = off[i - 1] + j => k = i /\ l = j
  <2>1. /\ i < k => off[i - 1] + j < off[k - 1] + l
        /\ k < i => off[k - 1] + l < off[i - 1] + j
    BY <1>1, <1>5, <1>7, <1>9, PlacesApart
  <2>2. PICK a \in Nat, b \in Nat : a = off[k - 1] /\ b = off[i - 1]
    <3>1. k - 1 \in 0..n /\ i - 1 \in 0..n /\ off \in [0..n -> Nat]
      BY <1>1, <1>5, <1>7 DEF Ends
    <3> QED BY <3>1
  <2>3. k \in Nat /\ i \in Nat /\ l \in Nat /\ j \in Nat
    BY <1>1
  <2>4. k = i => a = b
    BY <2>2
  <2> QED BY <2>1, <2>2, <2>3, <2>4
<1>12. ASSUME NEW p \in 1..Len(Turns(c)) PROVE \E x : is(p, x)
  <2>1. \E k \in 1..n : \E l \in 1..Len(q[k]) : p = off[k - 1] + l
    <3>1. /\ Len(q) \in Nat /\ \A i \in 1..Len(q) : Len(q[i]) \in Nat
          /\ Ends(off, q) /\ p \in 1..off[Len(q)]
      BY <1>1, <1>5, <1>7, <1>9
    <3> HIDE DEF n, P, spot, is, at, q
    <3>2. IsInPart(q, off, p)
      BY ONLY <3>1, PlaceSplits
    <3> QED BY <1>5, <3>2 DEF IsInPart
  <2> QED BY <2>1
<1>13. \A p \in 1..Len(Turns(c)) : is(p, at[p])
  BY <1>12
<1>14. ASSUME NEW p, NEW x, NEW y, is(p, x), is(p, y) PROVE x = y
  BY <1>11, <1>14
<1> HIDE DEF at
<1>15. ASSUME NEW p \in 1..Len(Turns(c))
       PROVE  at[p] \in Told(c, 1) /\ at[p].turn = Turns(c)[p]
  <2>1. PICK k \in 1..n : \E l \in 1..Len(q[k]) : p = off[k - 1] + l /\ at[p] = spot(k, l)
    BY <1>13
  <2>2. PICK l \in 1..Len(q[k]) : p = off[k - 1] + l /\ at[p] = spot(k, l)
    BY <2>1
  <2> HIDE DEF spot
  <2> QED BY <1>7, <1>8, <2>2
<1>16. ASSUME NEW x \in Told(c, 1) PROVE \E p \in 1..Len(Turns(c)) : at[p] = x
  <2>0. PICK i \in DOMAIN c.sessions : \E j \in Nonblank(c.sessions[i]) : x = Spot(c, i, j)
    BY SpotsAreTold
  <2>1. PICK j \in Nonblank(c.sessions[i]) : x = Spot(c, i, j)
    BY <2>0
  <2>2. PICK k \in 1..n : InOrder(c, k) = i
    BY <1>1, SessionsSorted
  <2>3. PICK l \in 1..Len(q[k]) : Nth(P(k), l) = j
    BY <1>8, <2>2
  <2>4. x = spot(k, l)
    BY <2>1, <2>2, <2>3
  <2>5. off[k - 1] + l \in 1..Len(Turns(c)) /\ is(off[k - 1] + l, x)
    BY <1>10, <2>4
  <2> HIDE DEF is
  <2> QED BY <1>13, <1>14, <2>5
<1>17. ASSUME NEW p \in 1..Len(Turns(c)), NEW r \in 1..Len(Turns(c)), p < r
       PROVE  ~Later(c, at[p], at[r])
  <2>0. /\ \E k \in 1..n : \E l \in 1..Len(q[k]) : p = off[k - 1] + l /\ at[p] = spot(k, l)
        /\ \E i \in 1..n : \E j \in 1..Len(q[i]) : r = off[i - 1] + j /\ at[r] = spot(i, j)
    BY <1>13
  <2>1. PICK k \in 1..n : \E l \in 1..Len(q[k]) : p = off[k - 1] + l /\ at[p] = spot(k, l)
    BY <2>0
  <2>1a. PICK l \in 1..Len(q[k]) : p = off[k - 1] + l /\ at[p] = spot(k, l)
    BY <2>1
  <2>2. PICK i \in 1..n : \E j \in 1..Len(q[i]) : r = off[i - 1] + j /\ at[r] = spot(i, j)
    BY <2>0
  <2>2a. PICK j \in 1..Len(q[i]) : r = off[i - 1] + j /\ at[r] = spot(i, j)
    BY <2>2
  <2>3. k < i \/ (k = i /\ l < j)
    BY <1>11, <1>17, <2>1a, <2>2a
  <2>4. PICK a \in DOMAIN c.sessions, b \in DOMAIN c.sessions :
          a = InOrder(c, k) /\ b = InOrder(c, i)
    BY <1>2
  <2>5. /\ a \in Nat /\ a # 0 /\ b \in Nat /\ b # 0
        /\ c.sessions[a].number \in Nat /\ c.sessions[b].number \in Nat
    <3>1. a \in Nat /\ a # 0 /\ b \in Nat /\ b # 0
      BY <1>1, <2>4
    <3>2. c.sessions[a].number \in Nat /\ c.sessions[b].number \in Nat
      BY <2>4, SessionsAre
    <3> QED BY <3>1, <3>2
  <2>6. PICK x \in Nat, y \in Nat : x = Nth(P(k), l) /\ y = Nth(P(i), j)
    BY <1>8
  <2>7. k = i => a = b /\ x < y
    BY <1>8, <2>3, <2>4, <2>6
  <2>8. k < i => Before(c, a, b)
    BY <1>1, <2>4, SessionsSorted
  <2>9. at[p] = Spot(c, a, x) /\ at[r] = Spot(c, b, y)
    BY <2>1a, <2>2a, <2>4, <2>6
  <2>10. at[p].session = a /\ at[p].nth = x /\ at[r].session = b /\ at[r].nth = y
    BY <2>9 DEF Spot
  <2>11. Later(c, at[p], at[r]) <=>
           \/ a = b /\ x > y
           \/ a = 0 /\ b # 0
           \/ a # 0 /\ b # 0 /\ c.sessions[a].number > c.sessions[b].number
    BY <2>10 DEF Later
  <2>12. PICK f \in Nat, g \in Nat : f = c.sessions[a].number /\ g = c.sessions[b].number
    BY <2>5
  <2>13. k < i => f < g \/ (f = g /\ a < b)
    BY <2>8, <2>12 DEF Before
  <2>14. a = b => f = g
    BY <2>12
  <2>15. (a = b /\ x < y) \/ f < g \/ (f = g /\ a < b)
    BY <2>3, <2>7, <2>13
  <2>16. a \in Nat /\ b \in Nat /\ a # 0 /\ b # 0
    BY <2>5
  <2>17. ~(a = b /\ x > y)
    BY <2>12, <2>14, <2>15, <2>16
  <2>18. ~(f > g)
    BY <2>14, <2>15
  <2> QED BY <2>11, <2>12, <2>16, <2>17, <2>18
<1> QED BY <1>6, <1>15, <1>16, <1>17 DEF Places

------------------------------------------------------------------------------
(* The utterances of a conversation as the driver takes them: what is to   *)
(* replay, then the questions.                                             *)
Utt(c, k) ==
  IF k <= Len(Turns(c)) THEN Turns(c)[k] ELSE c.questions[k - Len(Turns(c))].turn

(* A fact that nothing up to the last utterance takes back.                *)
TakenBack(c, k, j, l, i) ==
  /\ ~Blocked(Utt(c, l)) /\ i \in 1..Len(Utt(c, l).facts) /\ (l > k \/ (l = k /\ i > j))
  /\ Utt(c, k).facts[j].slot # UNSLOTTED
  /\ Utt(c, l).facts[i].slot = Utt(c, k).facts[j].slot
  /\ Utt(c, l).facts[i].claims # Utt(c, k).facts[j].claims

Stands(c, k, j, last) ==
  /\ ~Blocked(Utt(c, k)) /\ j \in 1..Len(Utt(c, k).facts)
  /\ \A l \in 1..last : \A i \in Nat : ~TakenBack(c, k, j, l, i)

LEMMA QuestionsAre ==
  ASSUME NEW c \in LocomoConversation
  PROVE  /\ Len(c.questions) \in Nat /\ DOMAIN c.questions = 1..Len(c.questions)
         /\ \A i \in 1..Len(c.questions) : c.questions[i].turn \in Utterance
<1>1. c.questions \in Seq([turn : Utterance, answer : SUBSET STRING, category : Int])
  BY DEF LocomoConversation
<1>2. \A i \in 1..Len(c.questions) :
        c.questions[i] \in [turn : Utterance, answer : SUBSET STRING, category : Int]
  BY <1>1, ElementOfSeq
<1> QED BY <1>1, <1>2, LenProperties

LEMMA UttTypes ==
  ASSUME NEW c \in LocomoConversation
  PROVE  /\ Len(Turns(c)) \in Nat /\ Len(c.questions) \in Nat
         /\ \A k \in 1..(Len(Turns(c)) + Len(c.questions)) : Utt(c, k) \in Utterance
<1>1. Turns(c) \in Seq(Utterance)
  BY TurnsAreTold
<1>2. Len(Turns(c)) \in Nat /\ \A k \in 1..Len(Turns(c)) : Turns(c)[k] \in Utterance
  BY <1>1, LenProperties, ElementOfSeq
<1>3. Len(c.questions) \in Nat /\ \A i \in 1..Len(c.questions) : c.questions[i].turn \in Utterance
  BY QuestionsAre
<1>4. PICK N \in Nat, Q \in Nat : N = Len(Turns(c)) /\ Q = Len(c.questions)
  BY <1>2, <1>3
<1>5. ASSUME NEW k \in 1..(N + Q) PROVE Utt(c, k) \in Utterance
  <2>1. CASE k <= N
    BY <1>2, <1>4, <2>1 DEF Utt
  <2>2. CASE ~(k <= N)
    <3>1. k - N \in 1..Q
      BY <2>2
    <3>2. Utt(c, k) = c.questions[k - N].turn
      BY <1>4, <2>2 DEF Utt
    <3> QED BY <1>3, <1>4, <3>1, <3>2
  <2> QED BY <2>1, <2>2
<1> QED BY <1>2, <1>3, <1>4, <1>5

(* What a conversation told before a question.                             *)
LEMMA ToldBefore ==
  ASSUME NEW c, NEW n \in Nat
  PROVE  \A x : x \in Told(c, n) <=>
                  \/ x \in Told(c, 1)
                  \/ \E k \in 1..(n - 1) : x = [session |-> 0, nth |-> k, turn |-> c.questions[k].turn]
<1> DEFINE A == UNION {{[session |-> i, nth |-> j, turn |-> c.sessions[i].turns[j]] :
                          j \in {k \in DOMAIN c.sessions[i].turns : ~c.sessions[i].turns[k].blank}} :
                       i \in DOMAIN c.sessions}
           B(m) == {[session |-> 0, nth |-> k, turn |-> c.questions[k].turn] : k \in 1..(m - 1)}
<1>1. Told(c, n) = A \cup B(n) /\ Told(c, 1) = A \cup B(1)
  BY DEF Told
<1>2. B(1) = {}
  OBVIOUS
<1> HIDE DEF A
<1>3. \A x : x \in B(n) <=>
        \E k \in 1..(n - 1) : x = [session |-> 0, nth |-> k, turn |-> c.questions[k].turn]
  OBVIOUS
<1> HIDE DEF B
<1> QED BY <1>1, <1>2, <1>3

(* Where and when it was said tells what was said.                         *)
LEMMA SameSpot ==
  ASSUME NEW c \in LocomoConversation, NEW n \in Nat, NEW x \in Told(c, n), NEW y \in Told(c, n),
         x.session = y.session, x.nth = y.nth
  PROVE  x = y
<1> DEFINE asked(k) == [session |-> 0, nth |-> k, turn |-> c.questions[k].turn]
<1>1. ASSUME NEW z \in Told(c, n)
      PROVE  \/ z.session = 0 /\ z = asked(z.nth)
             \/ z.session # 0 /\ z = Spot(c, z.session, z.nth)
  <2>1. CASE z \in Told(c, 1)
    <3>1. PICK i \in DOMAIN c.sessions : \E j \in Nonblank(c.sessions[i]) : z = Spot(c, i, j)
      BY <2>1, SpotsAreTold
    <3>2. PICK j : z = Spot(c, i, j)
      BY <3>1
    <3>3. z.session = i /\ z.nth = j
      BY <3>2 DEF Spot
    <3>4. i # 0
      BY SessionsAre
    <3> QED BY <3>2, <3>3, <3>4
  <2>2. CASE \E k \in 1..(n - 1) : z = asked(k)
    <3>1. PICK k \in 1..(n - 1) : z = asked(k)
      BY <2>2
    <3>2. z.session = 0 /\ z.nth = k
      BY <3>1
    <3> QED BY <3>1, <3>2
  <2> QED BY <2>1, <2>2, ToldBefore
<1> HIDE DEF asked
<1> QED BY <1>1

(* What is made of what was told.                                          *)
LEMMA FactsAre ==
  ASSUME NEW c, NEW n
  PROVE  /\ \A x \in Told(c, n) : ~x.turn.blank /\ ~x.turn.marked =>
              \A i \in DOMAIN x.turn.facts :
                [session |-> x.session, nth |-> x.nth, place |-> i, fact |-> x.turn.facts[i]]
                  \in Facts(c, n)
         /\ \A f \in Facts(c, n) : \E x \in Told(c, n) :
              /\ ~x.turn.blank /\ ~x.turn.marked
              /\ \E i \in DOMAIN x.turn.facts :
                   f = [session |-> x.session, nth |-> x.nth, place |-> i, fact |-> x.turn.facts[i]]
<1> DEFINE T == {y \in Told(c, n) : ~y.turn.blank /\ ~y.turn.marked}
           Made(x) == {[session |-> x.session, nth |-> x.nth, place |-> i, fact |-> x.turn.facts[i]] :
                         i \in DOMAIN x.turn.facts}
<1>1. Facts(c, n) = UNION {Made(x) : x \in T}
  BY DEF Facts
<1>2. \A x, f : f \in Made(x) <=> \E i \in DOMAIN x.turn.facts :
        f = [session |-> x.session, nth |-> x.nth, place |-> i, fact |-> x.turn.facts[i]]
  OBVIOUS
<1> HIDE DEF Made
<1>3. \A f : f \in Facts(c, n) <=> \E x \in T : f \in Made(x)
  BY <1>1
<1> QED BY <1>2, <1>3

LEMMA ToldSoFar ==
  ASSUME NEW c \in LocomoConversation, NEW n \in 1..(Len(c.questions) + 1),
         NEW k \in 1..(Len(Turns(c)) + n - 1)
  PROVE  /\ \E x \in Told(c, n) : x.turn = Utt(c, k)
         /\ \A j : Stands(c, k, j, Len(Turns(c)) + n - 1) =>
                    Utt(c, k).facts[j].claims \subseteq Current(c, n)
<1>1. PICK N \in Nat, Q \in Nat : N = Len(Turns(c)) /\ Q = Len(c.questions)
  BY UttTypes
<1>2. PICK at : Places(c, at)
  BY TurnsAreTold
<1> DEFINE asked(i) == [session |-> 0, nth |-> i, turn |-> c.questions[i].turn]
           spot(l) == IF l <= N THEN at[l] ELSE asked(l - N)
<1>3. n \in Nat /\ n - 1 \in Nat /\ n - 1 <= Q /\ k \in 1..(N + (n - 1))
  BY <1>1
<1>4. \A l \in 1..(N + (n - 1)) : Utt(c, l) \in Utterance
  <2>1. \A l \in 1..(N + (n - 1)) : l \in 1..(N + Q)
    BY <1>3
  <2> QED BY <1>1, <2>1, UttTypes
<1>5. /\ \A l \in 1..N : at[l] \in Told(c, 1) /\ at[l].turn = Turns(c)[l] /\ at[l].session # 0
      /\ \A x \in Told(c, 1) : \E l \in 1..N : at[l] = x
      /\ \A l, m \in 1..N : l < m => ~Later(c, at[l], at[m])
  <2>1. \A x \in Told(c, 1) : x.session # 0
    <3>1. ASSUME NEW x \in Told(c, 1) PROVE x.session # 0
      <4>1. PICK i \in DOMAIN c.sessions : \E j \in Nonblank(c.sessions[i]) : x = Spot(c, i, j)
        BY SpotsAreTold
      <4>2. x.session = i /\ i # 0
        BY <4>1, SessionsAre DEF Spot
      <4> QED BY <4>2
    <3> QED BY <3>1
  <2> QED BY <1>1, <1>2, <2>1 DEF Places
<1>6. ASSUME NEW l \in 1..(N + (n - 1))
      PROVE  spot(l) \in Told(c, n) /\ spot(l).turn = Utt(c, l)
  <2>1. CASE l <= N
    <3>1. l \in 1..N /\ spot(l) = at[l] /\ Utt(c, l) = Turns(c)[l]
      BY <1>1, <2>1 DEF Utt
    <3> QED BY <1>3, <1>5, <3>1, ToldBefore
  <2>2. CASE ~(l <= N)
    <3>1. l - N \in 1..(n - 1) /\ spot(l) = asked(l - N)
      BY <2>2
    <3>2. Utt(c, l) = c.questions[l - N].turn
      BY <1>1, <2>2 DEF Utt
    <3>3. asked(l - N) \in Told(c, n)
      BY <1>3, <3>1, ToldBefore
    <3> QED BY <3>1, <3>2, <3>3
  <2> QED BY <2>1, <2>2
<1>7. ASSUME NEW x \in Told(c, n)
      PROVE  \E l \in 1..(N + (n - 1)) : spot(l) = x
  <2>1. CASE x \in Told(c, 1)
    <3>1. PICK l \in 1..N : at[l] = x
      BY <1>5, <2>1
    <3>2. l \in 1..(N + (n - 1)) /\ spot(l) = x
      BY <1>3, <3>1
    <3> QED BY <3>2
  <2>2. CASE \E i \in 1..(n - 1) : x = asked(i)
    <3>1. PICK i \in 1..(n - 1) : x = asked(i)
      BY <2>2
    <3>2. N + i \in 1..(N + (n - 1)) /\ ~(N + i <= N) /\ (N + i) - N = i
      BY <1>3
    <3>3. spot(N + i) = x
      BY <3>1, <3>2
    <3> QED BY <3>2, <3>3
  <2>3. x \in Told(c, 1) \/ \E i \in 1..(n - 1) : x = asked(i)
    BY <1>3, ToldBefore
  <2> QED BY <2>1, <2>2, <2>3
<1>8. ASSUME NEW l \in 1..(N + (n - 1)), NEW m \in 1..(N + (n - 1)), l < m
      PROVE  ~Later(c, spot(l), spot(m))
  <2>1. CASE m <= N
    <3>1. l \in 1..N /\ m \in 1..N /\ spot(l) = at[l] /\ spot(m) = at[m]
      BY <1>8, <2>1
    <3> QED BY <1>5, <1>8, <3>1
  <2>2. CASE l <= N /\ ~(m <= N)
    <3>1. l \in 1..N /\ spot(l) = at[l] /\ spot(m) = asked(m - N)
      BY <2>2
    <3>2. spot(l).session # 0 /\ spot(m).session = 0
      BY <1>5, <3>1
    <3> HIDE DEF spot
    <3> QED BY <3>2 DEF Later
  <2>3. CASE ~(l <= N) /\ ~(m <= N)
    <3>1. spot(l) = asked(l - N) /\ spot(m) = asked(m - N)
      BY <2>3
    <3>2. /\ spot(l).session = 0 /\ spot(m).session = 0
          /\ spot(l).nth = l - N /\ spot(m).nth = m - N /\ ~(l - N > m - N)
      BY <1>8, <3>1
    <3> HIDE DEF spot
    <3>3. ~(spot(l).nth > spot(m).nth)
      BY <3>2
    <3> QED BY <3>2, <3>3 DEF Later
  <2> QED BY <1>8, <2>1, <2>2, <2>3
<1> HIDE DEF spot
<1>9. \E x \in Told(c, n) : x.turn = Utt(c, k)
  BY <1>3, <1>6
<1>10. ASSUME NEW j, Stands(c, k, j, N + (n - 1)) PROVE Utt(c, k).facts[j].claims \subseteq Current(c, n)
  <2> DEFINE u == Utt(c, k)
             e == [session |-> spot(k).session, nth |-> spot(k).nth, place |-> j, fact |-> u.facts[j]]
             replaced(y) == \E x \in Facts(c, n) : /\ After(c, x, y) /\ x.fact.slot = y.fact.slot
                                                   /\ x.fact.slot # UNSLOTTED
                                                   /\ x.fact.claims # y.fact.claims
  <2>1. u \in Turn /\ ~Blocked(u) /\ j \in 1..Len(u.facts) /\ spot(k).turn = u /\ spot(k) \in Told(c, n)
    BY <1>3, <1>4, <1>6, <1>10 DEF Stands, Utterance
  <2>2. DOMAIN u.facts = 1..Len(u.facts) /\ Len(u.facts) \in Nat
    BY <2>1, FactsOfTurn, LenProperties
  <2>3. e \in Facts(c, n)
    <3>1. ~spot(k).turn.blank /\ ~spot(k).turn.marked /\ j \in DOMAIN spot(k).turn.facts
      BY <2>1, <2>2 DEF Blocked
    <3>2. PICK z \in Told(c, n) : z = spot(k)
      BY <2>1
    <3> HIDE DEF u
    <3>3. [session |-> z.session, nth |-> z.nth, place |-> j, fact |-> z.turn.facts[j]] \in Facts(c, n)
      BY <3>1, <3>2, FactsAre
    <3> QED BY <2>1, <3>2, <3>3
  <2>4. e.session = spot(k).session /\ e.nth = spot(k).nth /\ e.place = j /\ e.fact = u.facts[j]
    OBVIOUS
  <2> HIDE DEF e
  <2>5. ASSUME NEW x \in Facts(c, n), After(c, x, e), x.fact.slot = e.fact.slot,
               x.fact.slot # UNSLOTTED, x.fact.claims # e.fact.claims
        PROVE  FALSE
    <3>1. PICK y \in Told(c, n) :
            /\ ~y.turn.blank /\ ~y.turn.marked
            /\ \E i \in DOMAIN y.turn.facts :
                 x = [session |-> y.session, nth |-> y.nth, place |-> i, fact |-> y.turn.facts[i]]
      BY FactsAre
    <3>2. PICK i \in DOMAIN y.turn.facts :
            x = [session |-> y.session, nth |-> y.nth, place |-> i, fact |-> y.turn.facts[i]]
      BY <3>1
    <3>3. x.session = y.session /\ x.nth = y.nth /\ x.place = i /\ x.fact = y.turn.facts[i]
      BY <3>2
    <3>4. \/ y.session = spot(k).session /\ y.nth = spot(k).nth /\ i > j
          \/ Later(c, y, spot(k))
      BY <2>4, <2>5, <3>3 DEF After, Later
    <3>5. \E l \in 1..(N + (n - 1)) : spot(l) = y /\ (l > k \/ (l = k /\ i > j))
      <4>1. CASE y.session = spot(k).session /\ y.nth = spot(k).nth /\ i > j
        <5>1. y = spot(k)
          BY <1>3, <2>1, <4>1, SameSpot
        <5> QED BY <1>3, <4>1, <5>1
      <4>2. CASE Later(c, y, spot(k)) /\ y # spot(k)
        <5>1. PICK l \in 1..(N + (n - 1)) : spot(l) = y
          BY <1>7
        <5>2. l # k
          BY <4>2, <5>1
        <5>3. ~(l < k)
          BY <1>3, <1>8, <4>2, <5>1
        <5>4. l \in Nat /\ k \in Nat
          BY <1>3
        <5>5. l > k
          BY <5>2, <5>3, <5>4
        <5> QED BY <5>1, <5>5
      <4>3. ~Later(c, spot(k), spot(k))
        <5>1. PICK z : z = spot(k)
          OBVIOUS
        <5>2. z.session = 0 \/ (z.nth \in Nat /\ c.sessions[z.session].number \in Nat)
          <6>1. z \in Told(c, n)
            BY <2>1, <5>1
          <6>2. CASE z \in Told(c, 1)
            <7>1. PICK a \in DOMAIN c.sessions : \E b \in Nonblank(c.sessions[a]) : z = Spot(c, a, b)
              BY <6>2, SpotsAreTold
            <7>2. PICK b \in Nonblank(c.sessions[a]) : z = Spot(c, a, b)
              BY <7>1
            <7>3. b \in 1..Len(c.sessions[a].turns) /\ c.sessions[a].number \in Nat
              BY SessionsAre DEF Nonblank
            <7> QED BY <7>2, <7>3, SessionsAre DEF Spot
          <6>3. CASE z \notin Told(c, 1)
            <7>1. PICK b \in 1..(n - 1) : z = asked(b)
              BY <1>3, <6>1, <6>3, ToldBefore
            <7> QED BY <7>1
          <6> QED BY <6>2, <6>3
        <5>3. z.session = 0 => z.nth \in Nat
          <6>1. z \in Told(c, n)
            BY <2>1, <5>1
          <6>2. ASSUME z.session = 0 PROVE z.nth \in Nat
            <7>1. z \notin Told(c, 1)
              <8>1. \A x1 \in Told(c, 1) : x1.session # 0
                BY <1>5
              <8> QED BY <6>2, <8>1
            <7>2. PICK b \in 1..(n - 1) : z = asked(b)
              BY <1>3, <6>1, <7>1, ToldBefore
            <7> QED BY <1>3, <7>2
          <6> QED BY <6>2
        <5> QED BY <5>1, <5>2, <5>3 DEF Later
      <4> QED BY <3>4, <4>1, <4>2, <4>3
    <3>6. PICK l \in 1..(N + (n - 1)) : spot(l) = y /\ (l > k \/ (l = k /\ i > j))
      BY <3>5
    <3>7. Utt(c, l) = y.turn /\ ~Blocked(Utt(c, l)) /\ i \in 1..Len(Utt(c, l).facts) /\ i \in Nat
      <4>1. Utt(c, l) = y.turn /\ Utt(c, l) \in Turn /\ Utt(c, l).source = "user"
        BY <1>4, <1>6, <3>6 DEF Utterance
      <4>2. y.turn \in Turn
        BY <4>1
      <4>3. DOMAIN y.turn.facts = 1..Len(y.turn.facts) /\ Len(y.turn.facts) \in Nat
        BY <4>2, FactsOfTurn, LenProperties
      <4> QED BY <3>1, <4>1, <4>3 DEF Blocked
    <3>8. TakenBack(c, k, j, l, i)
      BY <2>4, <2>5, <3>3, <3>6, <3>7 DEF TakenBack
    <3> QED BY <1>10, <3>6, <3>7, <3>8 DEF Stands
  <2>6. ~replaced(e)
    BY <2>5
  <2>7. Current(c, n) = UNION {y.fact.claims : y \in {x \in Facts(c, n) : ~replaced(x)}}
    BY DEF Current
  <2> HIDE DEF replaced
  <2>8. e.fact.claims \in {y.fact.claims : y \in {x \in Facts(c, n) : ~replaced(x)}}
    BY <2>3, <2>6
  <2> QED BY <2>4, <2>7, <2>8
<1>11. Len(Turns(c)) + n - 1 = N + (n - 1)
  BY <1>1, <1>3
<1> QED BY <1>9, <1>10, <1>11

------------------------------------------------------------------------------
(* The inductive invariant.                                                *)

DriverOK ==
  /\ phase \in {"locomo", "reported"} /\ limit \in Int
  /\ cases \in Seq(LocomoConversation)
  /\ \E arm \in {"naive", "manager"} : selected = {arm} /\ arms = <<arm>>
  /\ PositionOK /\ (phase = "reported" => position.case > Len(cases))
  /\ IsStore(memories)

(* Whose records these are, and which of what was said they hold.          *)
StoredOK ==
  \A m \in memories : \E i \in DOMAIN cases :
    /\ i <= position.case /\ m.user = UserKey(User(cases[i]))
    /\ \E k \in 1..(Len(Turns(cases[i])) + Len(cases[i].questions)) :
         /\ m.claims \subseteq Claims(Utt(cases[i], k))
         /\ i = position.case => k <= position.replayed

(* The transcripts: threads of questions that were asked.                  *)
AskedOK ==
  \A m \in messages : \E i \in DOMAIN cases : \E n \in 1..Len(cases[i].questions) :
    /\ i <= position.case /\ m.thread = Thread(cases[i], n)
    /\ i = position.case => Len(Turns(cases[i])) + n <= position.replayed

(* With the manager, what is live of a conversation that fits into one     *)
(* listing is a fact that nothing said since takes back.                   *)
Fits(c, M) == Cardinality(Of(User(c), M)) <= MaxExisting

Standing(c, M, r) ==
  \A m \in Live(Of(User(c), M)) : \E k \in 1..r : \E j :
    Says(m, Utt(c, k).facts[j]) /\ Stands(c, k, j, r)

StandingOK ==
  arms = <<"manager">> =>
    /\ OnePerSlot(memories)
    /\ position.case \in DOMAIN cases /\ Unique(Case) /\ Fits(Case, memories) =>
         Standing(Case, memories, position.replayed)

(* The live records of the conversations before one.                       *)
LiveBefore(M, n) ==
  {m \in M : m.live /\ \E i \in DOMAIN cases : i < n /\ m.user = UserKey(User(cases[i]))}

(* One listing holds all records of each of them.                          *)
ListedBefore(M, n) ==
  \A i \in DOMAIN cases : i < n => Cardinality(Of(User(cases[i]), M)) <= MaxListed[arms[1]]

AllUnique == \A i \in DOMAIN cases : Unique(cases[i])

KeptOK ==
  AllUnique =>
    /\ kept \in Nat /\ kept <= Cardinality(LiveBefore(memories, position.case))
    /\ ListedBefore(memories, position.case) =>
         kept = Cardinality(LiveBefore(memories, position.case))

(* What an answer may be given, and what it may tell.                      *)
Within(g, X) == g.prompt \subseteq X /\ (provider = "stub" => g.reply \subseteq X)

SaidBefore(c, n) == (UNION {Claims(x.turn) : x \in Told(c, n)}) \cup c.questions[n].turn.claims

Honest(g) ==
  /\ g.case \in DOMAIN cases
  /\ Unique(cases[g.case]) =>
       LET c == cases[g.case]
       IN /\ selected = {"manager"} /\ Fits(c, memories) =>
               Within(g, Current(c, g.question) \cup c.questions[g.question].turn.claims)
          /\ Within(g, SaidBefore(c, g.question))

GradedOK == graded \in Seq(Range(graded)) /\ \A g \in Range(graded) : Honest(g)

LocomoInv ==
  DriverOK /\ StoredOK /\ AskedOK /\ StandingOK /\ KeptOK /\ GradedOK


LEMMA SliceIsPrefix ==
  ASSUME NEW S, NEW s \in Seq(S), NEW n \in Int
  PROVE  /\ Slice(s, n) \in Seq(S)
         /\ Len(s) \in Nat /\ Len(Slice(s, n)) \in Nat /\ Len(Slice(s, n)) <= Len(s)
         /\ \A i \in 1..Len(Slice(s, n)) : Slice(s, n)[i] = s[i]
<1>1. PICK l \in Nat : l = Len(s) /\ \A i \in 1..l : s[i] \in S
  BY LenProperties, ElementOfSeq
<1>2. PICK m \in Int : m <= l /\ Slice(s, n) = SubSeq(s, 1, m)
  <2> DEFINE m == IF n < 0 THEN l + n ELSE IF n < l THEN n ELSE l
  <2>1. m \in Int /\ m <= l
    BY <1>1
  <2>2. Slice(s, n) = SubSeq(s, 1, m)
    BY <1>1 DEF Slice
  <2> HIDE DEF m
  <2> QED BY <2>1, <2>2
<1>3. \A i \in 1..m : s[i] \in S
  BY <1>1, <1>2
<1>4. /\ SubSeq(s, 1, m) \in Seq(S)
      /\ Len(SubSeq(s, 1, m)) = IF 1 <= m THEN m - 1 + 1 ELSE 0
      /\ \A i \in 1..(m - 1 + 1) : SubSeq(s, 1, m)[i] = s[1 + i - 1]
  BY <1>3, SubSeqProperties
<1>5. PICK u : u = SubSeq(s, 1, m)
  OBVIOUS
<1>6. Len(u) \in Nat /\ Len(u) <= l /\ \A i \in 1..Len(u) : i \in 1..(m - 1 + 1) /\ 1 + i - 1 = i
  BY <1>1, <1>2, <1>4, <1>5
<1>7. \A i \in 1..Len(u) : u[i] = s[i]
  BY <1>4, <1>5, <1>6
<1> QED BY <1>1, <1>2, <1>4, <1>5, <1>6, <1>7

LEMMA QuestionsAsked ==
  ASSUME NEW c \in LocomoConversation, limit \in Int
  PROVE  /\ DOMAIN Questions(c) = 1..Len(Questions(c))
         /\ Len(Questions(c)) \in Nat /\ Len(c.questions) \in Nat
         /\ Len(Questions(c)) <= Len(c.questions)
         /\ \A i \in DOMAIN Questions(c) : i \in 1..Len(c.questions) /\ Questions(c)[i] = c.questions[i]
<1> DEFINE T == [turn : Utterance, answer : SUBSET STRING, category : Int]
<1>1. c.questions \in Seq(T)
  BY DEF LocomoConversation
<1> HIDE DEF T
<1>2. Len(c.questions) \in Nat
  BY <1>1, LenProperties
<1>3. CASE limit = 0
  <2>1. Questions(c) = c.questions
    BY <1>3 DEF Questions
  <2> QED BY <1>1, <1>2, <2>1, LenProperties
<1>4. CASE limit # 0
  <2>1. Questions(c) = Slice(c.questions, limit)
    BY <1>4 DEF Questions
  <2>2. /\ Questions(c) \in Seq(T) /\ Len(Questions(c)) \in Nat
        /\ Len(Questions(c)) <= Len(c.questions)
        /\ \A i \in 1..Len(Questions(c)) : Questions(c)[i] = c.questions[i]
    BY <1>1, <2>1, SliceIsPrefix
  <2>3. DOMAIN Questions(c) = 1..Len(Questions(c))
    BY <2>2, LenProperties
  <2> QED BY <1>2, <2>2, <2>3
<1> QED BY <1>3, <1>4

(* A conversation is its own user.                                         *)
LEMMA OwnKey ==
  ASSUME NEW c \in LocomoConversation
  PROVE  UserKey(User(c)) = <<c.sample_id>> /\ UserKey(User(c)) \in Seq(STRING)
<1>1. c.sample_id \in STRING
  BY DEF LocomoConversation
<1>2. <<c.sample_id>> \in Seq(STRING)
  BY <1>1
<1>3. <<>> \o <<c.sample_id>> = <<c.sample_id>>
  BY <1>2, ConcatEmptySeq
<1>4. UserKey(User(c)) = <<>> \o <<c.sample_id>>
  BY DEF UserKey, User
<1> QED BY <1>2, <1>3, <1>4

(* Where a sample id is its own, so is the user.                           *)
LEMMA UniqueKey ==
  ASSUME cases \in Seq(LocomoConversation), NEW i \in DOMAIN cases, NEW j \in DOMAIN cases,
         Unique(cases[i]),
         \/ cases[i].sample_id = cases[j].sample_id
         \/ UserKey(User(cases[i])) = UserKey(User(cases[j]))
  PROVE  i = j
<1> DEFINE U == {k \in DOMAIN cases : cases[k].sample_id = cases[i].sample_id}
<1>1. DOMAIN cases = 1..Len(cases) /\ Len(cases) \in Nat
  BY LenProperties
<1>2. cases[i] \in LocomoConversation /\ cases[j] \in LocomoConversation
  BY <1>1, ElementOfSeq
<1>3. cases[i].sample_id = cases[j].sample_id
  BY <1>2, OwnKey
<1>4. i \in U /\ j \in U /\ U \subseteq 1..Len(cases)
  BY <1>1, <1>3
<1>5. Cardinality(U) = 1
  BY DEF Unique
<1> HIDE DEF U
<1>6. IsFiniteSet(U)
  <2>1. IsFiniteSet(1..Len(cases))
    BY <1>1, FS_Interval
  <2> QED BY <1>4, <2>1, FS_Subset
<1> QED BY <1>4, <1>5, <1>6, FS_Singleton

LEMMA CurrentConversation ==
  ASSUME DriverOK
  PROVE  /\ DOMAIN cases = 1..Len(cases) /\ Len(cases) \in Nat
         /\ \A i \in DOMAIN cases : cases[i] \in LocomoConversation
         /\ position.case \in Nat /\ position.replayed \in Nat /\ limit \in Int
         /\ Conversing => /\ position.case \in DOMAIN cases
                          /\ Case = cases[position.case] /\ Case \in LocomoConversation
         /\ arms = <<"manager">> \/ arms = <<"naive">>
         /\ (selected = {"manager"} <=> arms = <<"manager">>)
<1>1. cases \in Seq(LocomoConversation) /\ limit \in Int
  BY DEF DriverOK
<1>2. DOMAIN cases = 1..Len(cases) /\ Len(cases) \in Nat
  BY <1>1, LenProperties
<1>3. \A i \in DOMAIN cases : cases[i] \in LocomoConversation
  BY <1>1, <1>2, ElementOfSeq
<1>4. position.case \in Nat /\ position.case # 0 /\ position.replayed \in Nat
  BY DEF DriverOK, PositionOK
<1>5. Conversing => position.case \in DOMAIN cases
  BY <1>2, <1>4 DEF Conversing
<1>6. PICK arm \in {"naive", "manager"} : selected = {arm} /\ arms = <<arm>>
  BY DEF DriverOK
<1>7. /\ arms = <<"manager">> \/ arms = <<"naive">>
      /\ (selected = {"manager"} <=> arms = <<"manager">>)
  BY <1>6
<1> QED BY <1>1, <1>2, <1>3, <1>4, <1>5, <1>7 DEF Case


(* What the manager has of the user after a text was there before and is   *)
(* not taken back by it, or is a fact of the text that no later one of it  *)
(* takes back.                                                             *)
LEMMA ManagerHolds ==
  ASSUME NEW c, UserKey(c) \in Seq(STRING), NEW t \in Turn,
         IsStore(memories), OnePerSlot(memories),
         Cardinality(Of(c, ManagerApply(c, t))) <= MaxExisting,
         NEW m \in Live(Of(c, ManagerApply(c, t)))
  PROVE  /\ Cardinality(Of(c, memories)) <= MaxExisting
         /\ \/ m \in Live(Of(c, memories)) /\ (Blocked(t) \/ Recent(m, t, 0, Len(t.facts)))
            \/ /\ ~Blocked(t)
               /\ \E j \in 1..Len(t.facts) :
                    Says(m, t.facts[j]) /\ Recent(m, t, j, Len(t.facts))
<1> DEFINE N == ManagerApply(c, t)
<1>1. Cardinality(Of(c, memories)) <= MaxExisting
  <2>1. Cardinality(Of(c, memories)) <= Cardinality(Of(c, N)) /\ IsStore(N)
    BY ManagerOutcome
  <2>2. Cardinality(Of(c, memories)) \in Nat /\ Cardinality(Of(c, N)) \in Nat /\ MaxExisting \in Nat
    BY <2>1, OwnIsFinite, BenchmarkAssumption
  <2> QED BY <2>1, <2>2
<1>2. m \in N /\ m.live /\ m.user = UserKey(c)
  BY DEF Live, Of
<1>3. m \in memories => m \in Live(Of(c, memories))
  BY <1>2 DEF Live, Of
<1>4. CASE Blocked(t)
  <2>1. N = memories
    BY <1>4, ManagerIsTurned
  <2> QED BY <1>1, <1>2, <1>3, <1>4, <2>1
<1>5. CASE ~Blocked(t)
  <2>1. PICK s : Turned(c, t, Len(t.facts), s) /\ N = s.store
    BY <1>5, ManagerIsTurned
  <2>2. OneEach(c, memories)
    BY <1>1, OneForEach
  <2>3. m \in Live(Of(c, s.store))
    BY <2>1
  <2>4. \/ m \in memories /\ Recent(m, t, 0, Len(t.facts))
        \/ \E j \in 1..Len(t.facts) : Says(m, t.facts[j]) /\ Recent(m, t, j, Len(t.facts))
    <3> HIDE DEF N
    <3> QED BY <1>1, <2>1, <2>2, <2>3 DEF Turned
  <2> QED BY <1>1, <1>3, <1>5, <2>4
<1> QED BY <1>4, <1>5

(* Replaying a turn and asking a question both give the writer the next    *)
(* utterance.                                                              *)
LEMMA NextUtterance ==
  ASSUME DriverOK, Ingest \/ Ask
  PROVE  /\ Conversing /\ Utt(Case, position.replayed + 1) \in Utterance
         /\ position.replayed + 1 \in 1..(Len(Turns(Case)) + Len(Case.questions))
         /\ memories' \in Outcomes(Head(arms), User(Case), Utt(Case, position.replayed + 1))
         /\ Head(arms) \in {"naive", "manager"} /\ (Head(arms) = "manager" <=> arms = <<"manager">>)
         /\ position'.case = position.case /\ position'.replayed = position.replayed + 1
         /\ PositionOK' /\ kept' = kept
<1>1. Conversing
  BY DEF Ingest, Ask
<1>2. /\ Case \in LocomoConversation /\ position.replayed \in Nat /\ limit \in Int
      /\ arms = <<"manager">> \/ arms = <<"naive">>
  BY <1>1, CurrentConversation
<1>3. Head(arms) \in {"naive", "manager"} /\ (Head(arms) = "manager" <=> arms = <<"manager">>)
  BY <1>2
<1>4. PICK N \in Nat, Q \in Nat : N = Len(Turns(Case)) /\ Q = Len(Case.questions)
  BY <1>2, UttTypes
<1>5. /\ position' = [position EXCEPT !.replayed = @ + 1] /\ kept' = kept
  BY DEF Ingest, Ask
<1>6. position'.case = position.case /\ position'.replayed = position.replayed + 1 /\ PositionOK'
  BY <1>2, <1>5 DEF DriverOK, PositionOK
<1>7. /\ position.replayed + 1 \in 1..(N + Q)
      /\ memories' \in Outcomes(Head(arms), User(Case), Utt(Case, position.replayed + 1))
  <2>1. CASE Ingest
    <3>1. /\ position.replayed < N
          /\ memories' \in Outcomes(Head(arms), User(Case), Turns(Case)[position.replayed + 1])
      BY <1>4, <2>1 DEF Ingest
    <3>2. position.replayed + 1 <= N /\ position.replayed + 1 \in 1..(N + Q)
      BY <1>2, <3>1
    <3>3. Utt(Case, position.replayed + 1) = Turns(Case)[position.replayed + 1]
      BY <1>4, <3>2 DEF Utt
    <3> QED BY <3>1, <3>2, <3>3
  <2>2. CASE Ask
    <3> DEFINE i == position.replayed - Len(Turns(Case)) + 1
    <3>1. /\ i \in DOMAIN Questions(Case)
          /\ memories' \in Outcomes(Head(arms), User(Case), Questions(Case)[i].turn)
      BY <2>2 DEF Ask
    <3>2. i \in 1..Q /\ Questions(Case)[i] = Case.questions[i]
      BY <1>2, <1>4, <3>1, QuestionsAsked
    <3>3. i = position.replayed - N + 1
      BY <1>4
    <3> HIDE DEF i
    <3>4. /\ ~(position.replayed + 1 <= N) /\ position.replayed + 1 \in 1..(N + Q)
          /\ (position.replayed + 1) - N = i
      BY <1>2, <3>2, <3>3
    <3>5. Utt(Case, position.replayed + 1) = Case.questions[i].turn
      <4>1. PICK k \in Nat : k = position.replayed + 1
        BY <1>2
      <4>2. ~(k <= Len(Turns(Case))) /\ k - Len(Turns(Case)) = i
        BY <1>4, <3>4, <4>1
      <4>3. Utt(Case, k) = Case.questions[k - Len(Turns(Case))].turn
        BY <4>2 DEF Utt
      <4> QED BY <4>1, <4>2, <4>3
    <3> QED BY <3>1, <3>2, <3>4, <3>5
  <2> QED BY <2>1, <2>2
<1>8. Utt(Case, position.replayed + 1) \in Utterance
  BY <1>2, <1>4, <1>7, UttTypes
<1> QED BY <1>1, <1>3, <1>4, <1>5, <1>6, <1>7, <1>8

(* What else a step may do.                                                *)
LEMMA LocomoSteps ==
  ASSUME DriverOK, [LocomoNext]_locomoVars
  PROVE  /\ cases' = cases /\ arms' = arms /\ selected' = selected /\ limit' = limit
         /\ provider' = provider
         /\ \/ /\ Ingest /\ phase' = phase /\ phase = "locomo"
               /\ messages' = messages /\ graded' = graded
            \/ Ask /\ phase' = phase /\ phase = "locomo"
            \/ /\ NextConversation /\ phase' = phase /\ phase = "locomo"
               /\ memories' = memories /\ messages' = messages /\ graded' = graded
            \/ /\ memories' = memories /\ messages' = messages /\ graded' = graded
               /\ position' = position /\ kept' = kept
               /\ phase' = phase \/ (phase' = "reported" /\ position.case > Len(cases))
<1>1. CASE Ingest
  BY <1>1 DEF Ingest, input, Conversing
<1>2. CASE Ask
  BY <1>2 DEF Ask, input, Conversing
<1>3. CASE NextConversation
  BY <1>3 DEF NextConversation, input, Conversing
<1>4. CASE Report
  BY <1>4 DEF Report, input
<1>5. CASE UNCHANGED locomoVars
  BY <1>5 DEF locomoVars, vars, input
<1> QED BY <1>1, <1>2, <1>3, <1>4, <1>5 DEF LocomoNext

------------------------------------------------------------------------------
(* Each part of the invariant against each action.                         *)

LEMMA WriterStep ==
  ASSUME DriverOK, Ingest \/ Ask
  PROVE  /\ IsStore(memories')
         /\ From(memories', memories, User(Case), Claims(Utt(Case, position.replayed + 1)))
         /\ arms = <<"manager">> /\ OnePerSlot(memories) => OnePerSlot(memories')
         /\ arms = <<"manager">> =>
              memories' = ManagerApply(User(Case), Utt(Case, position.replayed + 1))
         /\ OthersKept(memories', memories, User(Case))
<1>1. /\ Conversing /\ Head(arms) \in {"naive", "manager"}
      /\ Head(arms) = "manager" <=> arms = <<"manager">>
  BY NextUtterance
<1>2. PICK t \in Turn : /\ t = Utt(Case, position.replayed + 1)
                        /\ memories' \in Outcomes(Head(arms), User(Case), t)
  BY NextUtterance DEF Utterance
<1>3. IsStore(memories) /\ Case \in LocomoConversation
  BY <1>1, CurrentConversation DEF DriverOK
<1>4. UserKey(User(Case)) \in Seq(STRING)
  BY <1>3, OwnKey
<1>5. PICK M \in Outcomes(Head(arms), User(Case), t) : M = memories'
  BY <1>2
<1>6. IsStore(M) /\ From(M, memories, User(Case), Claims(t)) /\ OthersKept(M, memories, User(Case))
  BY <1>3, <1>4, OutcomesAreStores
<1>7. arms = <<"manager">> => M = ManagerApply(User(Case), t)
  BY <1>1, <1>5 DEF Outcomes
<1>8. arms = <<"manager">> /\ OnePerSlot(memories) => OnePerSlot(M)
  BY <1>3, <1>4, <1>7, ManagerKeepsOne
<1> QED BY <1>2, <1>5, <1>6, <1>7, <1>8

(* The manager's user never has fewer records than before.                 *)
LEMMA OwnGrows ==
  ASSUME DriverOK, arms = <<"manager">>, [LocomoNext]_locomoVars,
         NEW c \in LocomoConversation, Fits(c, memories')
  PROVE  Fits(c, memories)
<1>1. CASE Ingest \/ Ask
  <2> DEFINE t == Utt(Case, position.replayed + 1)
  <2>1. /\ IsStore(memories') /\ memories' = ManagerApply(User(Case), t)
        /\ OthersKept(memories', memories, User(Case))
    BY <1>1, WriterStep
  <2>2. Conversing /\ t \in Turn
    BY <1>1, NextUtterance DEF Utterance
  <2>3. IsStore(memories) /\ UserKey(User(Case)) \in Seq(STRING)
    BY <2>2, CurrentConversation, OwnKey DEF DriverOK
  <2> HIDE DEF t
  <2>4. CASE UserKey(User(c)) = UserKey(User(Case))
    <3>1. Of(User(c), memories) = Of(User(Case), memories) /\ Of(User(c), memories') = Of(User(Case), memories')
      BY <2>4 DEF Of
    <3>2. Cardinality(Of(User(Case), memories)) <= Cardinality(Of(User(Case), memories'))
      BY <2>1, <2>2, <2>3, ManagerOutcome
    <3>3. /\ Cardinality(Of(User(Case), memories)) \in Nat
          /\ Cardinality(Of(User(Case), memories')) \in Nat /\ MaxExisting \in Nat
      BY <2>1, <2>3, OwnIsFinite, BenchmarkAssumption
    <3>4. Cardinality(Of(User(Case), memories')) <= MaxExisting
      BY <3>1 DEF Fits
    <3>5. Cardinality(Of(User(Case), memories)) <= MaxExisting
      BY <3>2, <3>3, <3>4
    <3> QED BY <3>1, <3>5 DEF Fits
  <2>5. CASE UserKey(User(c)) # UserKey(User(Case))
    <3>1. \A m : m \in Of(User(c), memories) <=> m \in Of(User(c), memories')
      BY <2>1, <2>5 DEF Of, OthersKept
    <3>2. Of(User(c), memories) = Of(User(c), memories')
      BY <3>1
    <3> QED BY <3>2 DEF Fits
  <2> QED BY <2>4, <2>5
<1>2. CASE memories' = memories
  BY <1>2
<1> QED BY <1>1, <1>2, LocomoSteps

LEMMA DriverStep ==
  ASSUME DriverOK, [LocomoNext]_locomoVars
  PROVE  DriverOK'
<1>1. cases' = cases /\ arms' = arms /\ selected' = selected /\ limit' = limit
  BY LocomoSteps
<1>2. CASE Ingest \/ Ask
  <2>1. PositionOK' /\ IsStore(memories')
    BY <1>2, NextUtterance, WriterStep
  <2>2. phase' = "locomo"
    <3>1. phase = "locomo"
      BY <1>2 DEF Ingest, Ask, Conversing
    <3>2. phase' = phase
      BY <1>2 DEF Ingest, Ask
    <3> QED BY <3>1, <3>2
  <2> QED BY <1>1, <2>1, <2>2 DEF DriverOK
<1>3. CASE NextConversation
  <2>1. position' = [case |-> position.case + 1, replayed |-> 0] /\ phase' = "locomo"
        /\ memories' = memories
    BY <1>3 DEF NextConversation, Conversing
  <2>2. PositionOK'
    BY <2>1 DEF DriverOK, PositionOK
  <2> QED BY <1>1, <2>1, <2>2 DEF DriverOK
<1>4. CASE /\ memories' = memories /\ position' = position
           /\ phase' = phase \/ (phase' = "reported" /\ position.case > Len(cases))
  BY <1>1, <1>4 DEF DriverOK, PositionOK
<1> QED BY <1>2, <1>3, <1>4, LocomoSteps

LEMMA StoredStep ==
  ASSUME DriverOK, StoredOK, [LocomoNext]_locomoVars
  PROVE  StoredOK'
<1>1. cases' = cases
  BY LocomoSteps
<1>2. CASE Ingest \/ Ask
  <2>1. /\ position.case \in DOMAIN cases /\ Case = cases[position.case]
        /\ position.case \in Nat /\ position.replayed \in Nat
    BY <1>2, NextUtterance, CurrentConversation
  <2>2. /\ position'.case = position.case /\ position'.replayed = position.replayed + 1
        /\ position.replayed + 1 \in 1..(Len(Turns(Case)) + Len(Case.questions))
    BY <1>2, NextUtterance
  <2>3. From(memories', memories, User(Case), Claims(Utt(Case, position.replayed + 1)))
    BY <1>2, WriterStep
  <2>4. ASSUME NEW m \in memories'
        PROVE  \E i \in DOMAIN cases :
                 /\ i <= position.case /\ m.user = UserKey(User(cases[i]))
                 /\ \E k \in 1..(Len(Turns(cases[i])) + Len(cases[i].questions)) :
                      /\ m.claims \subseteq Claims(Utt(cases[i], k))
                      /\ i = position.case => k <= position.replayed + 1
    <3>1. CASE \E o \in memories : m.user = o.user /\ m.claims = o.claims
      <4>1. PICK o \in memories : m.user = o.user /\ m.claims = o.claims
        BY <3>1
      <4>2. PICK i \in DOMAIN cases :
              /\ i <= position.case /\ o.user = UserKey(User(cases[i]))
              /\ \E k \in 1..(Len(Turns(cases[i])) + Len(cases[i].questions)) :
                   /\ o.claims \subseteq Claims(Utt(cases[i], k))
                   /\ i = position.case => k <= position.replayed
        BY DEF StoredOK
      <4>3. PICK k \in 1..(Len(Turns(cases[i])) + Len(cases[i].questions)) :
              /\ o.claims \subseteq Claims(Utt(cases[i], k))
              /\ i = position.case => k <= position.replayed
        BY <4>2
      <4>4. i = position.case => k <= position.replayed + 1
        BY <2>1, <4>3
      <4> QED BY <4>1, <4>2, <4>3, <4>4
    <3>2. CASE /\ m.user = UserKey(User(Case))
               /\ m.claims \subseteq Claims(Utt(Case, position.replayed + 1))
      <4>1. position.case <= position.case /\ position.replayed + 1 <= position.replayed + 1
        BY <2>1
      <4> QED BY <2>1, <2>2, <3>2, <4>1
    <3> QED BY <2>3, <3>1, <3>2 DEF From
  <2> QED BY <1>1, <2>2, <2>4 DEF StoredOK
<1>3. CASE NextConversation
  <2>1. memories' = memories /\ position'.case = position.case + 1 /\ position.case \in Nat
    BY <1>3, CurrentConversation DEF NextConversation
  <2>2. DOMAIN cases \subseteq Nat
    BY CurrentConversation
  <2>3. \A i \in DOMAIN cases : i <= position.case => i <= position.case + 1 /\ i # position.case + 1
    BY <2>1, <2>2
  <2> QED BY <1>1, <2>1, <2>3 DEF StoredOK
<1>4. CASE memories' = memories /\ position' = position
  BY <1>1, <1>4 DEF StoredOK
<1> QED BY <1>2, <1>3, <1>4, LocomoSteps

LEMMA AskedStep ==
  ASSUME DriverOK, AskedOK, [LocomoNext]_locomoVars
  PROVE  AskedOK'
<1>1. cases' = cases
  BY LocomoSteps
<1>2. CASE (Ingest /\ messages' = messages) \/ Ask
  <2>1. /\ position.case \in DOMAIN cases /\ Case = cases[position.case]
        /\ Case \in LocomoConversation /\ limit \in Int
        /\ position.case \in Nat /\ position.replayed \in Nat
    BY <1>2, NextUtterance, CurrentConversation
  <2>2. position'.case = position.case /\ position'.replayed = position.replayed + 1
    BY <1>2, NextUtterance
  <2> DEFINE n == position.replayed - Len(Turns(Case)) + 1
  <2>3. \A m \in messages' : m \in messages \/ (m.thread = Thread(Case, n) /\ n \in DOMAIN Questions(Case))
    <3>1. CASE messages' = messages
      BY <3>1
    <3>2. CASE Ask
      <4>1. PICK asked, reply :
              /\ n \in DOMAIN Questions(Case)
              /\ asked = [user |-> <<Case.sample_id>>, thread |-> Thread(Case, n),
                          claims |-> Questions(Case)[n].turn.claims]
              /\ messages' = messages \cup {asked, [asked EXCEPT !.claims = reply]}
        BY <3>2 DEF Ask
      <4>2. asked.thread = Thread(Case, n) /\ [asked EXCEPT !.claims = reply].thread = Thread(Case, n)
        BY <4>1
      <4> HIDE DEF n
      <4> QED BY <4>1, <4>2
    <3> QED BY <1>2, <3>1, <3>2
  <2>4. Len(Turns(Case)) \in Nat
    BY <2>1, UttTypes
  <2>5. n \in DOMAIN Questions(Case) =>
          n \in 1..Len(Case.questions) /\ Len(Turns(Case)) + n <= position.replayed + 1
    BY <2>1, <2>4, QuestionsAsked
  <2> HIDE DEF n
  <2>6. ASSUME NEW m \in messages'
        PROVE  \E i \in DOMAIN cases : \E k \in 1..Len(cases[i].questions) :
                 /\ i <= position.case /\ m.thread = Thread(cases[i], k)
                 /\ i = position.case => Len(Turns(cases[i])) + k <= position.replayed + 1
    <3>1. CASE m \in messages
      <4>1. PICK i \in DOMAIN cases : \E k \in 1..Len(cases[i].questions) :
              /\ i <= position.case /\ m.thread = Thread(cases[i], k)
              /\ i = position.case => Len(Turns(cases[i])) + k <= position.replayed
        BY <3>1 DEF AskedOK
      <4>2. PICK k \in 1..Len(cases[i].questions) :
              /\ i <= position.case /\ m.thread = Thread(cases[i], k)
              /\ i = position.case => Len(Turns(cases[i])) + k <= position.replayed
        BY <4>1
      <4>3. i = position.case => Len(Turns(cases[i])) + k <= position.replayed + 1
        BY <2>1, <2>4, <4>2
      <4> QED BY <4>2, <4>3
    <3>2. CASE m.thread = Thread(Case, n) /\ n \in DOMAIN Questions(Case)
      <4>1. position.case <= position.case
        BY <2>1
      <4> QED BY <2>1, <2>5, <3>2, <4>1
    <3> QED BY <2>3, <3>1, <3>2
  <2> QED BY <1>1, <2>2, <2>6 DEF AskedOK
<1>3. CASE NextConversation
  <2>1. messages' = messages /\ position'.case = position.case + 1 /\ position.case \in Nat
    BY <1>3, CurrentConversation DEF NextConversation
  <2>2. DOMAIN cases \subseteq Nat
    BY CurrentConversation
  <2>3. \A i \in DOMAIN cases : i <= position.case => i <= position.case + 1 /\ i # position.case + 1
    BY <2>1, <2>2
  <2> QED BY <1>1, <2>1, <2>3 DEF AskedOK
<1>4. CASE messages' = messages /\ position' = position
  BY <1>1, <1>4 DEF AskedOK
<1> QED BY <1>2, <1>3, <1>4, LocomoSteps


LEMMA StandingStep ==
  ASSUME DriverOK, StoredOK, StandingOK, [LocomoNext]_locomoVars
  PROVE  StandingOK'
<1>0. cases' = cases /\ arms' = arms
  BY LocomoSteps
<1>1. \A i \in DOMAIN cases : Unique(cases[i])' => Unique(cases[i])
  BY <1>0 DEF Unique
<1> SUFFICES ASSUME arms = <<"manager">>
             PROVE  /\ OnePerSlot(memories')
                    /\ /\ position'.case \in DOMAIN cases /\ Unique(cases[position'.case])
                       /\ Fits(cases[position'.case], memories')
                       => Standing(cases[position'.case], memories', position'.replayed)
  BY <1>0, <1>1 DEF StandingOK, Case
<1>2. /\ OnePerSlot(memories) /\ IsStore(memories)
      /\ position.case \in Nat /\ position.replayed \in Nat
  BY CurrentConversation DEF StandingOK, DriverOK
<1>3. CASE Ingest \/ Ask
  <2> DEFINE c == Case
             r == position.replayed
             t == Utt(c, r + 1)
  <2>1. /\ position.case \in DOMAIN cases /\ c = cases[position.case] /\ c \in LocomoConversation
    BY <1>3, NextUtterance, CurrentConversation
  <2>2. position'.case = position.case /\ position'.replayed = r + 1 /\ t \in Turn
    BY <1>3, NextUtterance DEF Utterance
  <2>3. OnePerSlot(memories') /\ memories' = ManagerApply(User(c), t)
    BY <1>2, <1>3, WriterStep
  <2>4. UserKey(User(c)) \in Seq(STRING)
    BY <2>1, OwnKey
  <2>5. r \in Nat
    BY <1>2
  <2>6. Unique(c) /\ Fits(c, memories) => Standing(c, memories, r)
    BY <2>1 DEF StandingOK
  <2> DEFINE n == Len(t.facts)
  <2>7. n \in Nat
    BY <2>2, FactsOfTurn
  <2> HIDE DEF c, r, t
  <2>8. ASSUME Unique(c), Fits(c, memories'), NEW m \in Live(Of(User(c), memories'))
        PROVE  \E k \in 1..(r + 1) : \E j : Says(m, Utt(c, k).facts[j]) /\ Stands(c, k, j, r + 1)
    <3>1. /\ Cardinality(Of(User(c), memories)) <= MaxExisting
          /\ \/ m \in Live(Of(User(c), memories)) /\ (Blocked(t) \/ Recent(m, t, 0, n))
             \/ ~Blocked(t) /\ \E j \in 1..n : Says(m, t.facts[j]) /\ Recent(m, t, j, n)
      <4>1. /\ Cardinality(Of(User(c), ManagerApply(User(c), t))) <= MaxExisting
            /\ m \in Live(Of(User(c), ManagerApply(User(c), t)))
        BY <2>3, <2>8 DEF Fits
      <4>2. PICK d : d = User(c)
        OBVIOUS
      <4> QED BY <1>2, <2>2, <2>4, <4>1, <4>2, ManagerHolds
    <3>2. CASE m \in Live(Of(User(c), memories)) /\ (Blocked(t) \/ Recent(m, t, 0, n))
      <4>1. Standing(c, memories, r)
        BY <2>6, <2>8, <3>1 DEF Fits
      <4>2. PICK k \in 1..r : \E j : Says(m, Utt(c, k).facts[j]) /\ Stands(c, k, j, r)
        BY <3>2, <4>1 DEF Standing
      <4>3. PICK j : Says(m, Utt(c, k).facts[j]) /\ Stands(c, k, j, r)
        BY <4>2
      <4>4. k \in 1..(r + 1) /\ \A l \in 1..(r + 1) : l \in 1..r \/ l = r + 1
        BY <2>5
      <4>5. ASSUME NEW i \in Nat, TakenBack(c, k, j, r + 1, i)
            PROVE  FALSE
        <5>1. /\ ~Blocked(t) /\ i \in 1..n /\ Utt(c, k).facts[j].slot # UNSLOTTED
              /\ t.facts[i].slot = Utt(c, k).facts[j].slot
              /\ t.facts[i].claims # Utt(c, k).facts[j].claims
          BY <4>5 DEF TakenBack, t
        <5>2. Recent(m, t, 0, n) /\ i \in (0 + 1)..n
          BY <2>7, <3>2, <5>1
        <5>3. m.slot = Utt(c, k).facts[j].slot /\ m.claims = Utt(c, k).facts[j].claims
          BY <4>3 DEF Says
        <5> QED BY <5>1, <5>2, <5>3 DEF Recent
      <4>6. ASSUME NEW l \in 1..(r + 1), NEW i \in Nat PROVE ~TakenBack(c, k, j, l, i)
        <5>1. CASE l \in 1..r
          BY <4>3, <5>1 DEF Stands
        <5>2. CASE l = r + 1
          BY <4>5, <5>2
        <5> QED BY <4>4, <5>1, <5>2
      <4>7. Stands(c, k, j, r + 1)
        BY <4>3, <4>6 DEF Stands
      <4> QED BY <4>3, <4>4, <4>7
    <3>3. CASE ~Blocked(t) /\ \E j \in 1..n : Says(m, t.facts[j]) /\ Recent(m, t, j, n)
      <4>1. PICK j \in 1..n : Says(m, t.facts[j]) /\ Recent(m, t, j, n)
        BY <3>3
      <4>2. ASSUME NEW l \in 1..(r + 1), NEW i \in Nat, TakenBack(c, r + 1, j, l, i)
            PROVE  FALSE
        <5>1. l \in Nat /\ l <= r + 1 /\ (l > r + 1 \/ (l = r + 1 /\ i > j))
          BY <2>5, <4>2 DEF TakenBack
        <5>2. l = r + 1 /\ i > j
          BY <2>5, <5>1
        <5>3. /\ i \in 1..n /\ t.facts[j].slot # UNSLOTTED
              /\ t.facts[i].slot = t.facts[j].slot /\ t.facts[i].claims # t.facts[j].claims
          BY <4>2, <5>2 DEF TakenBack, t
        <5>4. i \in (j + 1)..n
          BY <2>7, <5>2, <5>3
        <5> QED BY <4>1, <5>3, <5>4 DEF Recent, Says
      <4>3. Stands(c, r + 1, j, r + 1)
        BY <3>3, <4>2 DEF Stands, t
      <4>4. r + 1 \in 1..(r + 1)
        BY <2>5
      <4> QED BY <4>1, <4>3, <4>4 DEF t
    <3> QED BY <3>1, <3>2, <3>3
  <2>9. Unique(c) /\ Fits(c, memories') => Standing(c, memories', r + 1)
    BY <2>8 DEF Standing
  <2> QED BY <2>1, <2>2, <2>3, <2>9
<1>4. CASE NextConversation
  <2>1. memories' = memories /\ position'.case = position.case + 1 /\ position'.replayed = 0
    BY <1>4 DEF NextConversation
  <2>2. ASSUME position.case + 1 \in DOMAIN cases, Unique(cases[position.case + 1]),
               NEW m \in Live(Of(User(cases[position.case + 1]), memories))
        PROVE  FALSE
    <3>1. m \in memories /\ m.user = UserKey(User(cases[position.case + 1]))
      BY <2>2 DEF Live, Of
    <3>2. PICK i \in DOMAIN cases : i <= position.case /\ m.user = UserKey(User(cases[i]))
      BY <3>1 DEF StoredOK
    <3>3. i = position.case + 1
      BY <2>2, <3>1, <3>2, UniqueKey DEF DriverOK
    <3>4. i \in Nat
      BY CurrentConversation
    <3> QED BY <1>2, <3>2, <3>3, <3>4
  <2> QED BY <1>2, <2>1, <2>2 DEF Standing
<1>5. CASE memories' = memories /\ position' = position
  BY <1>5 DEF StandingOK, Case
<1> QED BY <1>3, <1>4, <1>5, LocomoSteps

LEMMA LiveBeforeIsFinite ==
  ASSUME NEW M, IsStore(M), NEW n
  PROVE  IsFiniteSet(LiveBefore(M, n)) /\ Cardinality(LiveBefore(M, n)) \in Nat
<1>1. LiveBefore(M, n) \subseteq M
  BY DEF LiveBefore
<1> QED BY <1>1, FS_Subset, FS_CardinalityType DEF IsStore

(* A conversation that ends adds its live records to those before it.      *)
LEMMA OneConversationMore ==
  ASSUME DriverOK, AllUnique, Conversing
  PROVE  Cardinality(LiveBefore(memories, position.case + 1)) =
           Cardinality(LiveBefore(memories, position.case))
             + Cardinality(Live(Of(User(Case), memories)))
<1> DEFINE A == LiveBefore(memories, position.case)
           B == Live(Of(User(Case), memories))
           C == LiveBefore(memories, position.case + 1)
<1>1. /\ position.case \in DOMAIN cases /\ Case = cases[position.case] /\ position.case \in Nat
      /\ DOMAIN cases \subseteq Nat /\ cases \in Seq(LocomoConversation) /\ IsStore(memories)
  BY CurrentConversation DEF DriverOK
<1>2. \A m : m \in B <=> m \in memories /\ m.live /\ m.user = UserKey(User(cases[position.case]))
  BY <1>1 DEF Live, Of
<1>3. \A i \in DOMAIN cases : i < position.case + 1 <=> i < position.case \/ i = position.case
  BY <1>1
<1>4. position.case < position.case + 1
  BY <1>1
<1>5. \A m : m \in A <=>
        /\ m \in memories /\ m.live
        /\ \E i \in DOMAIN cases : i < position.case /\ m.user = UserKey(User(cases[i]))
  BY DEF LiveBefore
<1>6. \A m : m \in C <=>
        /\ m \in memories /\ m.live
        /\ \E i \in DOMAIN cases : i < position.case + 1 /\ m.user = UserKey(User(cases[i]))
  BY DEF LiveBefore
<1>7. IsFiniteSet(A) /\ Cardinality(A) \in Nat /\ IsFiniteSet(B) /\ Cardinality(B) \in Nat
  BY <1>1, LiveBeforeIsFinite, OwnIsFinite
<1> HIDE DEF A, B, C
<1>8. C = A \cup B
  BY <1>1, <1>2, <1>3, <1>4, <1>5, <1>6
<1>9. A \cap B = {}
  <2> SUFFICES ASSUME NEW m \in A, m \in B PROVE FALSE
    OBVIOUS
  <2>1. m.user = UserKey(User(cases[position.case]))
    BY <1>2
  <2>2. PICK i \in DOMAIN cases : i < position.case /\ m.user = UserKey(User(cases[i]))
    BY <1>5
  <2>3. Unique(cases[i])
    BY DEF AllUnique
  <2>4. i = position.case
    BY <1>1, <2>1, <2>2, <2>3, UniqueKey
  <2> QED BY <1>1, <2>2, <2>4
<1>10. Cardinality(C) = Cardinality(A) + Cardinality(B) - Cardinality(A \cap B)
  BY <1>7, <1>8, FS_Union
<1>11. Cardinality(A \cap B) = 0
  BY <1>9, FS_EmptySet
<1>12. Cardinality(C) = Cardinality(A) + Cardinality(B)
  BY <1>7, <1>10, <1>11
<1> QED BY <1>12 DEF A, B, C

(* What a listing of a conversation's records counts.                      *)
LEMMA WhatIsListed ==
  ASSUME DriverOK, Conversing
  PROVE  LET listed == Cardinality(Scored(Head(arms), User(Case), memories))
             live == Cardinality(Live(Of(User(Case), memories)))
         IN /\ listed \in Nat /\ listed <= live /\ live \in Nat
            /\ Cardinality(Of(User(Case), memories)) <= MaxListed[arms[1]] => listed = live
<1> DEFINE own == Of(User(Case), memories)
           n == MaxListed[Head(arms)]
<1>1. IsStore(memories) /\ Head(arms) = arms[1] /\ Head(arms) \in Range(Arms)
  <2>1. Head(arms) = arms[1] /\ Head(arms) \in {"naive", "manager"}
    BY CurrentConversation
  <2>2. "naive" \in Range(Arms) /\ "manager" \in Range(Arms)
    BY DEF Range, Arms
  <2> QED BY <2>1, <2>2 DEF DriverOK
<1>2. n \in Nat
  BY <1>1, BenchmarkAssumption
<1>3. /\ own \subseteq Memory /\ IsFiniteSet(own)
      /\ IsFiniteSet(Live(own)) /\ Cardinality(Live(own)) \in Nat
  BY <1>1, OwnIsFinite DEF IsStore
<1>4. Scored(Head(arms), User(Case), memories) = Live(Page(own, n))
  BY DEF Scored
<1> HIDE DEF own, n
<1>5. Live(Page(own, n)) \subseteq Live(own)
  BY DEF Live, Page
<1>6. /\ Cardinality(Live(Page(own, n))) \in Nat
      /\ Cardinality(Live(Page(own, n))) <= Cardinality(Live(own))
  BY <1>3, <1>5, FS_Subset, FS_CardinalityType
<1>7. Cardinality(own) <= n => Page(own, n) = own
  BY <1>2, <1>3, PageIsAll
<1> QED BY <1>1, <1>3, <1>4, <1>6, <1>7 DEF own, n

LEMMA KeptStep ==
  ASSUME DriverOK, KeptOK, [LocomoNext]_locomoVars
  PROVE  KeptOK'
<1>0. cases' = cases /\ arms' = arms
  BY LocomoSteps
<1>1. AllUnique' => AllUnique
  BY <1>0 DEF AllUnique, Unique
<1>2. /\ LiveBefore(memories, position.case)' = LiveBefore(memories', position'.case)
      /\ ListedBefore(memories, position.case)' => ListedBefore(memories', position'.case)
  BY <1>0 DEF LiveBefore, ListedBefore
<1> SUFFICES ASSUME AllUnique
             PROVE  /\ kept' \in Nat
                    /\ kept' <= Cardinality(LiveBefore(memories', position'.case))
                    /\ ListedBefore(memories', position'.case) =>
                         kept' = Cardinality(LiveBefore(memories', position'.case))
  BY <1>1, <1>2 DEF KeptOK
<1>3. /\ kept \in Nat /\ kept <= Cardinality(LiveBefore(memories, position.case))
      /\ ListedBefore(memories, position.case) =>
           kept = Cardinality(LiveBefore(memories, position.case))
  BY DEF KeptOK
<1>4. CASE Ingest \/ Ask
  <2>1. kept' = kept /\ position'.case = position.case /\ Conversing
    BY <1>4, NextUtterance
  <2>2. /\ position.case \in DOMAIN cases /\ Case = cases[position.case] /\ position.case \in Nat
        /\ DOMAIN cases \subseteq Nat /\ cases \in Seq(LocomoConversation)
    BY <2>1, CurrentConversation DEF DriverOK
  <2>3. \A m : m.user # UserKey(User(Case)) => (m \in memories' <=> m \in memories)
    BY <1>4, WriterStep DEF OthersKept
  <2>4. ASSUME NEW i \in DOMAIN cases, i < position.case
        PROVE  UserKey(User(cases[i])) # UserKey(User(Case))
    <3>1. Unique(cases[i]) /\ i # position.case
      BY <2>2, <2>4 DEF AllUnique
    <3> QED BY <2>2, <3>1, UniqueKey
  <2>5. \A m : m \in LiveBefore(memories', position.case) <=> m \in LiveBefore(memories, position.case)
    BY <2>3, <2>4 DEF LiveBefore
  <2>6. LiveBefore(memories', position.case) = LiveBefore(memories, position.case)
    BY <2>5
  <2>7. ASSUME NEW i \in DOMAIN cases, i < position.case
        PROVE  Of(User(cases[i]), memories') = Of(User(cases[i]), memories)
    <3>1. \A m : m \in Of(User(cases[i]), memories') <=> m \in Of(User(cases[i]), memories)
      BY <2>3, <2>4, <2>7 DEF Of
    <3> QED BY <3>1
  <2>8. ListedBefore(memories', position.case) => ListedBefore(memories, position.case)
    BY <2>7 DEF ListedBefore
  <2> QED BY <1>3, <2>1, <2>6, <2>8
<1>5. CASE NextConversation
  <2> DEFINE listed == Cardinality(Scored(Head(arms), User(Case), memories))
             live == Cardinality(Live(Of(User(Case), memories)))
             p == position.case
  <2>1. /\ memories' = memories /\ position'.case = p + 1 /\ Conversing
        /\ kept' = kept + listed
    BY <1>5 DEF NextConversation
  <2>2. /\ listed \in Nat /\ listed <= live /\ live \in Nat
        /\ Cardinality(Of(User(Case), memories)) <= MaxListed[arms[1]] => listed = live
    BY <2>1, WhatIsListed
  <2>3. Cardinality(LiveBefore(memories, p + 1)) = Cardinality(LiveBefore(memories, p)) + live
    BY <2>1, OneConversationMore
  <2>4. p \in DOMAIN cases /\ Case = cases[p] /\ p \in Nat /\ DOMAIN cases \subseteq Nat
    BY <2>1, CurrentConversation
  <2>5. ListedBefore(memories, p + 1) =>
          /\ ListedBefore(memories, p)
          /\ Cardinality(Of(User(Case), memories)) <= MaxListed[arms[1]]
    <3>1. p < p + 1 /\ \A i \in DOMAIN cases : i < p => i < p + 1
      BY <2>4
    <3> QED BY <2>4, <3>1 DEF ListedBefore
  <2>6. Cardinality(LiveBefore(memories, p)) \in Nat
    BY LiveBeforeIsFinite DEF DriverOK
  <2> HIDE DEF listed, live, p
  <2>7. kept' \in Nat /\ kept' <= Cardinality(LiveBefore(memories, p + 1))
    <3>1. kept <= Cardinality(LiveBefore(memories, p)) /\ kept \in Nat
      BY <1>3 DEF p
    <3> QED BY <2>1, <2>2, <2>3, <2>6, <3>1
  <2>8. ListedBefore(memories, p + 1) => kept' = Cardinality(LiveBefore(memories, p + 1))
    <3>1. ListedBefore(memories, p) => kept = Cardinality(LiveBefore(memories, p))
      BY <1>3 DEF p
    <3> QED BY <2>1, <2>2, <2>3, <2>5, <3>1
  <2> QED BY <2>1, <2>7, <2>8
<1>6. CASE memories' = memories /\ position' = position /\ kept' = kept
  BY <1>3, <1>6
<1> QED BY <1>4, <1>5, <1>6, LocomoSteps

(* In the thread of a question only the question is heard.                 *)
LEMMA QuestionIsAlone ==
  ASSUME DriverOK, AskedOK, Conversing, Unique(Case),
         NEW n \in Nat, n = position.replayed - Len(Turns(Case)) + 1,
         NEW m \in messages
  PROVE  m.thread # Thread(Case, n)
<1> SUFFICES ASSUME m.thread = Thread(Case, n) PROVE FALSE
  OBVIOUS
<1>1. /\ position.case \in DOMAIN cases /\ Case = cases[position.case]
      /\ Case \in LocomoConversation /\ position.replayed \in Nat
      /\ cases \in Seq(LocomoConversation)
  BY CurrentConversation DEF DriverOK
<1>2. PICK i \in DOMAIN cases : \E k \in 1..Len(cases[i].questions) :
        /\ i <= position.case /\ m.thread = Thread(cases[i], k)
        /\ i = position.case => Len(Turns(cases[i])) + k <= position.replayed
  BY DEF AskedOK
<1>3. PICK k \in 1..Len(cases[i].questions) :
        /\ m.thread = Thread(cases[i], k)
        /\ i = position.case => Len(Turns(cases[i])) + k <= position.replayed
  BY <1>2
<1>4. cases[i].sample_id = Case.sample_id /\ k = n
  BY <1>3 DEF Thread
<1>5. i = position.case
  BY <1>1, <1>4, UniqueKey
<1>6. Len(Turns(Case)) + n <= position.replayed /\ Len(Turns(Case)) \in Nat
  BY <1>1, <1>3, <1>4, <1>5, UttTypes
<1> QED BY <1>1, <1>6

(* What a model is given for a question: what is recalled and the question *)
(* itself; the stub repeats what is recalled.                              *)
Gives(R, n, h) ==
  /\ h.case = position.case /\ h.question = n
  /\ h.prompt \subseteq ClaimsOf(R) \cup Case.questions[n].turn.claims
  /\ provider = "stub" => h.reply = ClaimsOf(R)
  /\ graded' = Append(graded, h)

LEMMA AnswerIs ==
  ASSUME DriverOK, AskedOK, Unique(Case), Ask
  PROVE  \E n \in 1..Len(Case.questions) :
           /\ n = position.replayed - Len(Turns(Case)) + 1
           /\ \E R \in SUBSET Live(Of(User(Case), memories)) : \E h : Gives(R, n, h)
<1> DEFINE n == position.replayed - Len(Turns(Case)) + 1
           q == Questions(Case)[n]
           asked == [user |-> <<Case.sample_id>>, thread |-> Thread(Case, n), claims |-> q.turn.claims]
           given(R) == Prompt(Head(arms), R, asked, messages)
           answer(R, reply, correct) ==
             [case |-> position.case, question |-> n, prompt |-> given(R), reply |-> reply,
              correct |-> correct]
<1>1. /\ Conversing /\ n \in DOMAIN Questions(Case)
      /\ \E R \in Recalls(Head(arms), User(Case), q.turn) : \E reply \in Replies(R, given(R)) :
           \E correct \in Grades(q, reply) : graded' = Append(graded, answer(R, reply, correct))
  BY DEF Ask
<1>2. n \in 1..Len(Case.questions) /\ q = Case.questions[n]
  <2> HIDE DEF n
  <2> QED BY <1>1, CurrentConversation, QuestionsAsked
<1>3. n \in Nat /\ n = position.replayed - Len(Turns(Case)) + 1
  <2>1. Case \in LocomoConversation /\ position.replayed \in Nat
    BY <1>1, CurrentConversation
  <2>2. Len(Case.questions) \in Nat
    BY <2>1, UttTypes
  <2> QED BY <1>2, <2>2
<1>4. PICK R : /\ R \in Recalls(Head(arms), User(Case), q.turn)
               /\ \E reply \in Replies(R, given(R)) : \E correct :
                    graded' = Append(graded, answer(R, reply, correct))
  BY <1>1
<1>5. PICK reply, correct : /\ reply \in Replies(R, given(R))
                            /\ graded' = Append(graded, answer(R, reply, correct))
  BY <1>4
<1>6. R \subseteq Live(Of(User(Case), memories))
  BY <1>4, RecallsOwn
<1>7. {m \in messages : m.user = asked.user /\ m.thread = asked.thread} = {}
  <2>1. \A m \in messages : m.thread # Thread(Case, n)
    <3> HIDE DEF n
    <3> QED BY <1>1, <1>3, QuestionIsAlone DEF n
  <2>2. asked.thread = Thread(Case, n)
    OBVIOUS
  <2> HIDE DEF asked
  <2> QED BY <2>1, <2>2
<1>8. asked.claims = Case.questions[n].turn.claims
  BY <1>2
<1> HIDE DEF asked
<1>9. given(R) \subseteq ClaimsOf(R) \cup Case.questions[n].turn.claims
  <2>1. ClaimsOf({}) = {}
    BY DEF ClaimsOf
  <2> QED BY <1>7, <1>8, <2>1 DEF Prompt
<1>10. provider = "stub" => reply = ClaimsOf(R)
  BY <1>5 DEF Replies
<1> HIDE DEF given, q
<1>11. PICK h : h = answer(R, reply, correct)
  OBVIOUS
<1>12. h.case = position.case /\ h.question = n /\ h.prompt = given(R) /\ h.reply = reply
  BY <1>11
<1>13. graded' = Append(graded, h)
  BY <1>5, <1>11
<1> HIDE DEF n, answer
<1>14. Gives(R, n, h)
  BY <1>9, <1>10, <1>12, <1>13 DEF Gives
<1> QED BY <1>2, <1>3, <1>6, <1>14

LEMMA AnswerIsHonest ==
  ASSUME DriverOK, StoredOK, AskedOK, StandingOK, Unique(Case), Ask,
         NEW n \in 1..Len(Case.questions), n = position.replayed - Len(Turns(Case)) + 1,
         NEW R \in SUBSET Live(Of(User(Case), memories)), NEW h, Gives(R, n, h)
  PROVE  /\ selected = {"manager"} /\ Fits(Case, memories) =>
              Within(h, Current(Case, n) \cup Case.questions[n].turn.claims)
         /\ Within(h, SaidBefore(Case, n))
<1> DEFINE c == Case
           said == {Claims(x.turn) : x \in Told(c, n)}
<1>1. /\ Conversing /\ c \in LocomoConversation /\ position.replayed \in Nat
      /\ position.case \in DOMAIN cases /\ c = cases[position.case]
      /\ cases \in Seq(LocomoConversation)
      /\ selected = {"manager"} => arms = <<"manager">>
  <2>1. Conversing
    BY DEF Ask
  <2> QED BY <2>1, CurrentConversation DEF DriverOK
<1>0. /\ h.prompt \subseteq ClaimsOf(R) \cup c.questions[n].turn.claims
      /\ provider = "stub" => h.reply = ClaimsOf(R)
  BY DEF Gives
<1> HIDE DEF c
<1>2. PICK N \in Nat, Q \in Nat : N = Len(Turns(c)) /\ Q = Len(c.questions)
  BY <1>1, UttTypes
<1>3. n \in 1..(Q + 1) /\ position.replayed = N + n - 1 /\ n \in Nat
  <2>1. PICK r \in Nat : r = position.replayed /\ n = (r - N) + 1 /\ n \in 1..Q
    BY <1>1, <1>2 DEF c
  <2>2. n \in Nat /\ 1 <= n /\ n <= Q
    BY <1>2, <2>1
  <2>3. n \in 1..(Q + 1)
    BY ONLY <1>2, <2>2
  <2>4. r = N + n - 1
    BY ONLY <1>2, <2>1, <2>2
  <2> QED BY <2>1, <2>2, <2>3, <2>4
<1>4. \A k \in 1..position.replayed :
        /\ \E x \in Told(c, n) : x.turn = Utt(c, k)
        /\ \A j : Stands(c, k, j, position.replayed) => Utt(c, k).facts[j].claims \subseteq Current(c, n)
  <2>1. n \in 1..(Len(c.questions) + 1) /\ c \in LocomoConversation
    BY <1>1, <1>2, <1>3
  <2>2. \A k \in 1..(Len(Turns(c)) + n - 1) :
          /\ \E x \in Told(c, n) : x.turn = Utt(c, k)
          /\ \A j : Stands(c, k, j, Len(Turns(c)) + n - 1) =>
                     Utt(c, k).facts[j].claims \subseteq Current(c, n)
    BY ONLY <2>1, ToldSoFar
  <2>3. PICK r : r = Len(Turns(c)) + n - 1
    OBVIOUS
  <2>4. \A k \in 1..r :
          /\ \E x \in Told(c, n) : x.turn = Utt(c, k)
          /\ \A j : Stands(c, k, j, r) => Utt(c, k).facts[j].claims \subseteq Current(c, n)
    BY ONLY <2>2, <2>3
  <2>5. position.replayed = r
    BY <1>2, <1>3, <2>3
  <2> QED BY ONLY <2>4, <2>5
<1>5. ASSUME NEW m \in R PROVE m.claims \subseteq UNION said
  <2>1. m \in memories /\ m.user = UserKey(User(c))
    BY DEF Live, Of, c
  <2>2. PICK i \in DOMAIN cases :
          /\ m.user = UserKey(User(cases[i]))
          /\ \E k \in 1..(Len(Turns(cases[i])) + Len(cases[i].questions)) :
               /\ m.claims \subseteq Claims(Utt(cases[i], k))
               /\ i = position.case => k <= position.replayed
    BY <2>1 DEF StoredOK
  <2>3. i = position.case
    BY <1>1, <2>1, <2>2, UniqueKey DEF c
  <2>4. PICK k \in 1..(N + Q) : m.claims \subseteq Claims(Utt(c, k)) /\ k <= position.replayed
    BY <1>1, <1>2, <2>2, <2>3
  <2>5. k \in 1..position.replayed
    BY <1>1, <2>4
  <2>6. PICK x \in Told(c, n) : x.turn = Utt(c, k)
    BY <1>4, <2>5
  <2> QED BY <2>4, <2>6
<1>6. SaidBefore(c, n) = (UNION said) \cup c.questions[n].turn.claims
  BY DEF SaidBefore
<1> HIDE DEF said
<1>7. Within(h, SaidBefore(c, n))
  <2>1. ClaimsOf(R) \subseteq UNION said
    BY <1>5 DEF ClaimsOf
  <2> QED BY <1>0, <1>6, <2>1 DEF Within
<1>8. ASSUME selected = {"manager"}, Fits(c, memories)
      PROVE  Within(h, Current(c, n) \cup c.questions[n].turn.claims)
  <2>0. Standing(c, memories, position.replayed)
    BY <1>1, <1>8 DEF StandingOK, c
  <2>1. ASSUME NEW m \in R PROVE m.claims \subseteq Current(c, n)
    <3>1. m \in Live(Of(User(c), memories))
      BY DEF c
    <3>2. PICK k \in 1..position.replayed : \E j :
            Says(m, Utt(c, k).facts[j]) /\ Stands(c, k, j, position.replayed)
      BY <2>0, <3>1 DEF Standing
    <3>3. PICK j : Says(m, Utt(c, k).facts[j]) /\ Stands(c, k, j, position.replayed)
      BY <3>2
    <3>4. Utt(c, k).facts[j].claims \subseteq Current(c, n)
      BY <1>4, <3>3
    <3> QED BY <3>3, <3>4 DEF Says
  <2>2. ClaimsOf(R) \subseteq Current(c, n)
    BY <2>1 DEF ClaimsOf
  <2> QED BY <1>0, <2>2 DEF Within
<1> QED BY <1>7, <1>8 DEF c

LEMMA GradedStep ==
  ASSUME DriverOK, StoredOK, AskedOK, StandingOK, GradedOK, [LocomoNext]_locomoVars
  PROVE  GradedOK'
<1>0. cases' = cases /\ selected' = selected /\ provider' = provider
  BY LocomoSteps
<1>a. \A i \in DOMAIN cases : cases[i] \in LocomoConversation
  BY CurrentConversation
<1>b. ASSUME NEW c \in LocomoConversation, selected = {"manager"}, Fits(c, memories')
      PROVE  Fits(c, memories)
  <2>1. arms = <<"manager">>
    BY <1>b, CurrentConversation
  <2> QED BY <1>b, <2>1, OwnGrows
<1>1. ASSUME NEW g, Honest(g) PROVE Honest(g)'
  <2>1. g.case \in DOMAIN cases
    BY <1>1 DEF Honest
  <2>2. PICK c \in LocomoConversation : c = cases[g.case]
    BY <1>a, <2>1
  <2>3. Unique(c)' = Unique(c)
    BY <1>0 DEF Unique
  <2>4. Unique(c) => /\ selected = {"manager"} /\ Fits(c, memories) =>
                          Within(g, Current(c, g.question) \cup c.questions[g.question].turn.claims)
                     /\ Within(g, SaidBefore(c, g.question))
    BY <1>1, <2>2 DEF Honest
  <2>5. \A X : Within(g, X) => Within(g, X)'
    BY <1>0 DEF Within
  <2>6. selected' = {"manager"} /\ Fits(c, memories') => selected = {"manager"} /\ Fits(c, memories)
    BY <1>0, <1>b
  <2>7. cases'[g.case] = c /\ g.case \in DOMAIN cases'
    BY <1>0, <2>1, <2>2
  <2> QED BY <2>3, <2>4, <2>5, <2>6, <2>7 DEF Honest
<1>2. CASE graded' = graded
  BY <1>1, <1>2 DEF GradedOK
<1>3. CASE Ask
  <2>1. position.case \in DOMAIN cases /\ Case = cases[position.case]
    BY <1>3, CurrentConversation DEF Ask
  <2>2. \E g : graded' = Append(graded, g) /\ Honest(g)
    <3>1. CASE Unique(Case)
      <4>1. PICK n \in 1..Len(Case.questions) :
              /\ n = position.replayed - Len(Turns(Case)) + 1
              /\ \E R \in SUBSET Live(Of(User(Case), memories)) : \E h : Gives(R, n, h)
        BY <1>3, <3>1, AnswerIs
      <4>2. PICK R \in SUBSET Live(Of(User(Case), memories)) : \E h : Gives(R, n, h)
        BY <4>1
      <4>3. PICK h : Gives(R, n, h)
        BY <4>2
      <4>4. /\ selected = {"manager"} /\ Fits(Case, memories) =>
                 Within(h, Current(Case, n) \cup Case.questions[n].turn.claims)
            /\ Within(h, SaidBefore(Case, n))
        BY <1>3, <3>1, <4>1, <4>3, AnswerIsHonest
      <4>5. h.case = position.case /\ h.question = n /\ graded' = Append(graded, h)
        BY <4>3 DEF Gives
      <4>6. Honest(h)
        BY <2>1, <4>4, <4>5 DEF Honest
      <4> QED BY <4>5, <4>6
    <3>2. CASE ~Unique(Case)
      <4>1. PICK g : graded' = Append(graded, g) /\ g.case = position.case
        BY <1>3 DEF Ask
      <4>2. Honest(g)
        BY <2>1, <3>2, <4>1 DEF Honest
      <4> QED BY <4>1, <4>2
    <3> QED BY <3>1, <3>2
  <2>4. PICK h : graded' = Append(graded, h) /\ Honest(h)
    BY <2>2
  <2>5. PICK s : s = graded /\ s \in Seq(Range(s)) /\ \A x \in Range(s) : Honest(x)
    BY DEF GradedOK
  <2>6. /\ Append(s, h) \in Seq(Range(Append(s, h)))
        /\ \A i \in DOMAIN Append(s, h) :
             Append(s, h)[i] = h \/ \E j \in DOMAIN s : Append(s, h)[i] = s[j]
    BY <2>5, AppendedResult
  <2>7. \A x \in Range(Append(s, h)) : x = h \/ x \in Range(s)
    BY <2>6 DEF Range
  <2>8. graded' = Append(s, h)
    BY <2>4, <2>5
  <2>9. \A x \in Range(graded') : Honest(x)
    BY <2>4, <2>5, <2>7, <2>8
  <2>10. graded' \in Seq(Range(graded'))
    BY <2>6, <2>8
  <2> QED BY <1>1, <2>9, <2>10 DEF GradedOK
<1> QED BY <1>2, <1>3, LocomoSteps DEF NextConversation


LEMMA InitLocomo == LocomoInit => LocomoInv
<1> SUFFICES ASSUME LocomoInit PROVE LocomoInv
  OBVIOUS
<1>1. phase = "locomo" /\ limit \in Int /\ cases \in Seq(LocomoConversation)
  <2>1. PICK s \in Seq(LocomoConversation) : s = file
    BY LocomoAssumption DEF LocomoInit
  <2>2. PICK n \in 0..Len(s) : cases = Slice(s, n)
    BY <2>1 DEF LocomoInit
  <2>3. n \in Int
    BY <2>1, LenProperties
  <2>4. cases \in Seq(LocomoConversation)
    BY <2>2, <2>3, SliceIsPrefix
  <2> QED BY <2>4, BenchmarkAssumption DEF LocomoInit
<1>2. DriverOK
  <2>1. PositionOK
    BY DEF LocomoInit, PositionOK
  <2>2. IsStore(memories)
    BY FS_EmptySet DEF LocomoInit, IsStore
  <2> QED BY <1>1, <2>1, <2>2 DEF LocomoInit, DriverOK
<1>3. StoredOK /\ AskedOK
  BY DEF LocomoInit, StoredOK, AskedOK
<1>4. StandingOK
  <2>1. memories = {}
    BY DEF LocomoInit
  <2>2. OnePerSlot(memories)
    BY <2>1 DEF OnePerSlot, Live, Of
  <2>3. Standing(Case, memories, position.replayed)
    BY <2>1 DEF Standing, Live, Of
  <2> QED BY <2>2, <2>3 DEF StandingOK
<1>5. KeptOK
  <2>1. LiveBefore(memories, position.case) = {}
    BY DEF LocomoInit, LiveBefore
  <2>2. Cardinality(LiveBefore(memories, position.case)) = 0
    BY <2>1, FS_EmptySet
  <2>3. kept = 0
    BY DEF LocomoInit
  <2> QED BY ONLY <2>2, <2>3 DEF KeptOK
<1>6. GradedOK
  BY EmptySeq DEF LocomoInit, GradedOK, Range
<1> QED BY <1>2, <1>3, <1>4, <1>5, <1>6 DEF LocomoInv

LEMMA NextLocomo == LocomoInv /\ [LocomoNext]_locomoVars => LocomoInv'
<1> SUFFICES ASSUME LocomoInv, [LocomoNext]_locomoVars PROVE LocomoInv'
  OBVIOUS
<1>1. DriverOK' /\ StoredOK' /\ AskedOK' /\ StandingOK'
  BY DriverStep, StoredStep, AskedStep, StandingStep DEF LocomoInv
<1>2. KeptOK' /\ GradedOK'
  BY KeptStep, GradedStep DEF LocomoInv
<1> QED BY <1>1, <1>2 DEF LocomoInv

LEMMA LocomoInvHolds == LocomoSpec => []LocomoInv
BY InitLocomo, NextLocomo, PTL DEF LocomoSpec

(* With the manager, nothing is given to a model that a later session or   *)
(* question took back, nor anything said in another question's thread      *)
(* only, as long as one listing holds all records of the conversation: for *)
(* every dataset, whatever the order of the sessions in its file and       *)
(* whatever models reply (_session_sort_key, run_conversation).            *)
THEOREM AnswersStayCurrent == LocomoSpec => []AnswersAreCurrent
<1>1. LocomoInv => AnswersAreCurrent
  BY DEF LocomoInv, GradedOK, Honest, AnswersAreCurrent, Graded, Fits, Within
<1> QED BY <1>1, LocomoInvHolds, PTL

(* Conversations share a store and nothing else: a model is given only     *)
(* what its own conversation holds so far, and if all sample ids differ,   *)
(* the memories counted conversation by conversation are never more than   *)
(* those that are live when all have ended, and are all of them if one     *)
(* listing holds the records of every conversation (run_locomo).           *)
THEOREM ConversationsAreApart == LocomoSpec => []ConversationsStandAlone
<1>1. LocomoInv => ConversationsStandAlone
  <2> SUFFICES ASSUME LocomoInv PROVE ConversationsStandAlone
    OBVIOUS
  <2>1. \A g \in Graded :
          LET c == cases[g.case]
              said == (UNION {Claims(x.turn) : x \in Told(c, g.question)})
                        \cup c.questions[g.question].turn.claims
          IN /\ g.prompt \subseteq said
             /\ provider = "stub" => g.reply \subseteq said
    BY DEF LocomoInv, GradedOK, Honest, Graded, Within, SaidBefore
  <2>2. ASSUME phase = "reported", AllUnique
        PROVE  /\ kept <= Cardinality(Live(memories))
               /\ (\A i \in DOMAIN cases :
                     Cardinality(Of(User(cases[i]), memories)) <= MaxListed[arms[1]]) =>
                       kept = Cardinality(Live(memories))
    <3>1. PICK l \in Nat, p \in Nat : /\ l = Len(cases) /\ DOMAIN cases = 1..l
                                      /\ p = position.case /\ p > l
      BY <2>2, LenProperties DEF LocomoInv, DriverOK, PositionOK
    <3>2. \A i \in DOMAIN cases : i < p
      BY ONLY <3>1
    <3>3. LiveBefore(memories, p) = Live(memories)
      <4>1. \A m \in memories : \E i \in DOMAIN cases : m.user = UserKey(User(cases[i]))
        BY DEF LocomoInv, StoredOK
      <4> QED BY <3>2, <4>1 DEF LiveBefore, Live
    <3> QED BY <2>2, <3>1, <3>3 DEF LocomoInv, KeptOK, ListedBefore
  <2> QED BY <2>1, <2>2 DEF ConversationsStandAlone, AllUnique
<1> QED BY <1>1, LocomoInvHolds, PTL
==============================================================================
