------------------------------ MODULE PagingProofs ------------------------------
(***************************************************************************)
(* What a delete that lists page by page finds and removes, for any set of *)
(* keys, any page size and both orders of a listing: proofs about Paging's *)
(* Spec.                                                                   *)
(***************************************************************************)
EXTENDS Paging, SequenceTheorems, FiniteSetTheorems, TLAPS

Tasks ==
  [phase : {"idle", "list", "delete", "done"}, kind : {"user", "thread"},
   offset : Nat, found : Seq(Keys), todo : SUBSET Nat]

Histories ==
  [before : SUBSET Keys, put : SUBSET Keys, shrunk : BOOLEAN, calm : BOOLEAN,
   removed : SUBSET Keys]

(* The first part holds of the backend, the rest of what the delete found. *)
TypeInv ==
  /\ order \in Orders /\ order \in {"insertion", "recency"}
  /\ listing \in Seq(Keys) /\ IsInjective(listing)
  /\ task \in Tasks /\ seen \in Histories
  /\ task.offset = Len(task.found) /\ task.offset <= Cardinality(Keys)
  /\ task.phase \in {"idle", "list"} => task.todo = {} /\ seen.removed = {}
  /\ task.todo \subseteq Selected /\ seen.removed \subseteq Found

(* Keys that an update may have carried over the offset.                   *)
Jumped == IF order = "recency" THEN seen.put ELSE {}

(* A record there was at the beginning is found or still lies ahead; in    *)
(* order of insertion the keys found are the beginning of the listing.     *)
Ahead(k) == \E i \in DOMAIN listing : i > task.offset /\ listing[i] = k

Prefix ==
  /\ task.offset <= Len(listing)
  /\ \A i \in 1..task.offset : task.found[i] = listing[i]

Hidden ==
  ~seen.shrunk =>
    /\ Lists => /\ \A k \in seen.before \ Jumped : k \in Found \/ Ahead(k)
                /\ order = "insertion" => Prefix
    /\ HasListed => seen.before \ Found \subseteq Jumped
    /\ order = "insertion" => IsInjective(task.found)

(* Keys the delete's calls have come to.                                   *)
Dealt == {task.found[i] : i \in Selected \ task.todo}

Exact ==
  seen.calm =>
    /\ Lists => Prefix /\ Stored = seen.before
    /\ task.phase = "delete" =>
         /\ IsInjective(task.found) /\ Found = seen.before
         /\ Stored = seen.before \ Dealt /\ seen.removed = Dealt

IInv == TypeInv /\ Hidden /\ Exact
------------------------------------------------------------------------------
(* Sequences without repetition.                                           *)

LEMMA LengthBound ==
  ASSUME NEW s \in Seq(Keys), IsInjective(s)
  PROVE  Len(s) <= Cardinality(Keys) /\ Cardinality(Keys) \in Nat
<1>1. s \in Injection(1..Len(s), Keys) /\ Len(s) \in Nat
  BY LenProperties DEF Injection
<1>2. Cardinality(1..Len(s)) <= Cardinality(Keys)
  BY <1>1, FS_Injection, PagesAssumption
<1>3. Cardinality(1..Len(s)) = Len(s)
  <2>1. Cardinality(1..Len(s)) = IF 1 > Len(s) THEN 0 ELSE Len(s) - 1 + 1
    BY <1>1, FS_Interval
  <2> QED BY <1>1, <2>1
<1> QED BY <1>2, <1>3, FS_CardinalityType, PagesAssumption

(* The length of what comes after the first n of l elements.               *)
LEMMA RestLength ==
  ASSUME NEW l \in Nat, NEW n \in Nat, n <= l
  PROVE  (IF n + 1 <= l THEN l - (n + 1) + 1 ELSE 0) = l - n
OBVIOUS

(* What RemoveFirst does to a sequence without repetition.                 *)
LEMMA RemovedAt ==
  ASSUME NEW s \in Seq(Keys), IsInjective(s), NEW n \in 1..Len(s)
  PROVE  LET q == RemoveFirst(s, s[n])
         IN /\ q \in Seq(Keys) /\ Len(q) = Len(s) - 1
            /\ \A i \in 1..Len(q) : q[i] = IF i < n THEN s[i] ELSE s[i + 1]
<1> DEFINE k == s[n]
           I == {i \in 1..Len(s) : s[i] = k}
<1>1. Len(s) \in Nat /\ DOMAIN s = 1..Len(s) /\ \A i \in 1..Len(s) : s[i] \in Keys
  BY LenProperties, ElementOfSeq
<1>2. I = {n}
  BY <1>1 DEF IsInjective
<1>3. Min(I) = n
  BY <1>2 DEF Min
<1>4. SelectInSeq(s, LAMBDA v : v = k) = n
  BY <1>2, <1>3 DEF SelectInSeq
<1>5. RemoveFirst(s, k) = RemoveAt(s, n)
  BY <1>4 DEF RemoveFirst
<1> DEFINE a == SubSeq(s, 1, n - 1)
           b == SubSeq(s, n + 1, Len(s))
<1>6. /\ a \in Seq(Keys) /\ Len(a) = n - 1
      /\ \A i \in 1..(n - 1) : a[i] = s[i]
  <2>1. \A i \in 1..(n - 1) : s[i] \in Keys
    BY <1>1
  <2> QED BY <1>1, <2>1, SubSeqProperties
<1>7. /\ b \in Seq(Keys) /\ Len(b) = Len(s) - n
      /\ \A i \in 1..(Len(s) - n) : b[i] = s[n + i]
  <2>1. \A i \in (n + 1)..Len(s) : s[i] \in Keys
    BY <1>1
  <2>2. n + 1 \in Int /\ Len(s) \in Int
    BY <1>1
  <2>3. /\ b \in Seq(Keys) /\ Len(b) = IF n + 1 <= Len(s) THEN Len(s) - (n + 1) + 1 ELSE 0
        /\ \A i \in 1..(Len(s) - (n + 1) + 1) : b[i] = s[(n + 1) + i - 1]
    BY <2>1, <2>2, SubSeqProperties
  <2> HIDE DEF b
  <2>4. Len(s) - (n + 1) + 1 = Len(s) - n
    BY <1>1
  <2>5. Len(b) = Len(s) - n
    <3>1. Len(b) = IF n + 1 <= Len(s) THEN Len(s) - (n + 1) + 1 ELSE 0
      BY <2>3
    <3>2. n \in Nat /\ Len(s) \in Nat /\ n <= Len(s)
      BY <1>1
    <3> QED BY <3>1, <3>2, RestLength
  <2>6. ASSUME NEW i \in 1..(Len(s) - n) PROVE b[i] = s[n + i]
    <3>1. (n + 1) + i - 1 = n + i
      BY <1>1
    <3> QED BY <2>3, <2>4, <3>1
  <2> QED BY <2>3, <2>5, <2>6
<1> HIDE DEF a, b
<1> DEFINE c == a \o b
<1>8. /\ c \in Seq(Keys) /\ Len(c) = Len(a) + Len(b)
      /\ \A i \in 1..(Len(a) + Len(b)) : c[i] = IF i <= Len(a) THEN a[i] ELSE b[i - Len(a)]
  BY <1>6, <1>7, ConcatProperties
<1> HIDE DEF c
<1>9. Len(c) = Len(s) - 1
  BY <1>1, <1>6, <1>7, <1>8
<1>10. ASSUME NEW i \in 1..(Len(s) - 1)
       PROVE  c[i] = IF i < n THEN s[i] ELSE s[i + 1]
  <2>1. i \in 1..(Len(a) + Len(b)) /\ i \in Nat /\ n \in Nat
    BY <1>1, <1>6, <1>7
  <2>2. CASE i < n
    <3>1. i <= Len(a) /\ i \in 1..(n - 1)
      BY <1>6, <2>1, <2>2
    <3> QED BY <1>6, <1>8, <2>1, <2>2, <3>1
  <2>3. CASE i >= n
    <3>1. i - Len(a) \in 1..(Len(s) - n) /\ n + (i - Len(a)) = i + 1 /\ ~(i <= Len(a))
      BY <1>1, <1>6, <2>1, <2>3
    <3>2. c[i] = b[i - Len(a)]
      BY <1>8, <2>1, <3>1
    <3>3. b[i - Len(a)] = s[i + 1]
      BY <1>7, <3>1
    <3>4. ~(i < n)
      BY <2>1, <2>3
    <3> QED BY <3>2, <3>3, <3>4
  <2> QED BY <2>1, <2>2, <2>3
<1>11. RemoveFirst(s, k) = c
  BY <1>5 DEF RemoveAt, a, b, c
<1> QED BY <1>8, <1>9, <1>10, <1>11

LEMMA RemovedNothing ==
  ASSUME NEW s \in Seq(Keys), NEW k, k \notin Range(s)
  PROVE  RemoveFirst(s, k) = s
<1>1. DOMAIN s = 1..Len(s)
  BY LenProperties
<1> QED BY <1>1 DEF RemoveFirst, Range

(* Exactly k goes, and each other key stays or moves up by one place.      *)
LEMMA RemovedKey ==
  ASSUME NEW s \in Seq(Keys), IsInjective(s), NEW k
  PROVE  LET q == RemoveFirst(s, k)
         IN /\ q \in Seq(Keys) /\ IsInjective(q)
            /\ Range(q) = Range(s) \ {k}
<1>1. CASE k \notin Range(s)
  BY <1>1, RemovedNothing
<1>2. CASE k \in Range(s)
  <2> DEFINE q == RemoveFirst(s, k)
  <2>1. Len(s) \in Nat /\ DOMAIN s = 1..Len(s)
    BY LenProperties
  <2>2. PICK n \in 1..Len(s) : s[n] = k
    BY <1>2, <2>1 DEF Range
  <2>3. /\ q \in Seq(Keys) /\ Len(q) = Len(s) - 1
        /\ \A i \in 1..Len(q) : q[i] = IF i < n THEN s[i] ELSE s[i + 1]
    BY <2>2, RemovedAt
  <2>4. DOMAIN q = 1..(Len(s) - 1)
    BY <2>3, LenProperties
  <2>5. IsInjective(q)
    <3> SUFFICES ASSUME NEW i \in 1..(Len(s) - 1), NEW j \in 1..(Len(s) - 1), q[i] = q[j]
                 PROVE  i = j
      BY <2>4 DEF IsInjective
    <3> DEFINE f(m) == IF m < n THEN m ELSE m + 1
    <3>1. f(i) \in 1..Len(s) /\ f(j) \in 1..Len(s) /\ s[f(i)] = s[f(j)]
      BY <2>1, <2>3
    <3>2. f(i) = f(j)
      BY <2>1, <3>1 DEF IsInjective
    <3> QED BY <2>1, <3>2
  <2>6. ASSUME NEW x \in Range(q) PROVE x \in Range(s) \ {k}
    <3>1. PICK i \in 1..(Len(s) - 1) : x = q[i]
      BY <2>4 DEF Range
    <3>2. PICK j \in 1..Len(s) : j # n /\ x = s[j]
      BY <2>1, <2>3, <3>1
    <3> QED BY <2>1, <2>2, <3>2 DEF Range, IsInjective
  <2>7. ASSUME NEW x \in Range(s) \ {k} PROVE x \in Range(q)
    <3>1. PICK j \in 1..Len(s) : x = s[j]
      BY <2>1 DEF Range
    <3>2. j # n
      BY <2>2, <3>1
    <3>3. CASE j < n
      <4>1. j \in 1..(Len(s) - 1) /\ q[j] = x
        BY <2>1, <2>3, <3>1, <3>3
      <4> QED BY <2>4, <4>1 DEF Range
    <3>4. CASE j > n
      <4>1. j - 1 \in 1..(Len(s) - 1) /\ ~(j - 1 < n) /\ (j - 1) + 1 = j
        BY <2>1, <3>4
      <4>2. q[j - 1] = x
        BY <2>3, <3>1, <4>1
      <4> QED BY <2>4, <4>1, <4>2 DEF Range
    <3> QED BY <2>1, <3>2, <3>3, <3>4
  <2> QED BY <2>3, <2>5, <2>6, <2>7
<1> QED BY <1>1, <1>2
------------------------------------------------------------------------------
(* The first of a set of places.                                           *)
LEMMA FirstOf ==
  ASSUME NEW T \in SUBSET Nat, T # {}
  PROVE  Min(T) \in T
<1> DEFINE R == OpToRel(<, Nat)
<1>1. \E x \in T : \A y \in T : ~ (<<y, x>> \in R)
  BY NatLessThanWellFounded, WFMin
<1>2. \E x \in T : \A y \in T : x =< y
  <2>1. \A x, y \in Nat : y < x => <<y, x>> \in R
    BY DEF OpToRel
  <2>2. PICK x \in T : \A y \in T : ~ (<<y, x>> \in R)
    BY <1>1
  <2>3. ASSUME NEW y \in T PROVE x =< y
    <3>1. ~ (y < x) /\ x \in Nat /\ y \in Nat
      BY <2>1, <2>2
    <3> QED BY <3>1
  <2> QED BY <2>3
<1> QED BY <1>2 DEF Min

(* No key falls back by more than the one place of the key that goes.      *)
LEMMA RemovedPlaces ==
  ASSUME NEW s \in Seq(Keys), IsInjective(s), NEW k, NEW i \in 1..Len(s), s[i] # k
  PROVE  LET q == RemoveFirst(s, k)
         IN \E j \in 1..Len(q) : j >= i - 1 /\ q[j] = s[i]
<1> DEFINE q == RemoveFirst(s, k)
<1>1. Len(s) \in Nat /\ DOMAIN s = 1..Len(s)
  BY LenProperties
<1>2. CASE k \notin Range(s)
  <2>1. q = s
    BY <1>2, RemovedNothing
  <2> QED BY <1>1, <2>1
<1>3. CASE k \in Range(s)
  <2>1. PICK n \in 1..Len(s) : s[n] = k
    BY <1>1, <1>3 DEF Range
  <2>2. /\ Len(q) = Len(s) - 1
        /\ \A j \in 1..Len(q) : q[j] = IF j < n THEN s[j] ELSE s[j + 1]
    BY <2>1, RemovedAt
  <2> HIDE DEF q
  <2>3. CASE i < n
    <3>1. i \in 1..Len(q) /\ q[i] = s[i]
      BY <1>1, <2>2, <2>3
    <3> QED BY <1>1, <3>1 DEF q
  <2>4. CASE i > n
    <3>1. i - 1 \in 1..Len(q) /\ ~ (i - 1 < n) /\ (i - 1) + 1 = i
      BY <1>1, <2>2, <2>4
    <3>2. q[i - 1] = s[i]
      BY <2>2, <3>1
    <3> QED BY <1>1, <3>1, <3>2 DEF q
  <2>5. i # n
    BY <2>1
  <2> QED BY <1>1, <2>3, <2>4, <2>5
<1> QED BY <1>2, <1>3

LEMMA Prepended ==
  ASSUME NEW q \in Seq(Keys), NEW k \in Keys
  PROVE  LET c == <<k>> \o q
         IN /\ c \in Seq(Keys) /\ Len(c) = Len(q) + 1 /\ c[1] = k
            /\ \A j \in 1..Len(q) : c[j + 1] = q[j]
<1> DEFINE c == <<k>> \o q
<1>1. <<k>> \in Seq(Keys) /\ Len(<<k>>) = 1 /\ <<k>>[1] = k /\ Len(q) \in Nat
  BY LenProperties
<1>2. /\ c \in Seq(Keys) /\ Len(c) = 1 + Len(q)
      /\ \A i \in 1..(1 + Len(q)) : c[i] = IF i <= 1 THEN <<k>>[i] ELSE q[i - 1]
  BY <1>1, ConcatProperties
<1> HIDE DEF c
<1>3. c[1] = k
  BY <1>1, <1>2
<1>4. ASSUME NEW j \in 1..Len(q) PROVE c[j + 1] = q[j]
  <2>1. j + 1 \in 1..(1 + Len(q)) /\ ~ (j + 1 <= 1) /\ (j + 1) - 1 = j
    BY <1>1
  <2> QED BY <1>2, <2>1
<1>5. Len(c) = Len(q) + 1
  BY <1>1, <1>2
<1> QED BY <1>2, <1>3, <1>4, <1>5 DEF c

LEMMA PrependedRange ==
  ASSUME NEW q \in Seq(Keys), IsInjective(q), NEW k \in Keys, k \notin Range(q)
  PROVE  IsInjective(<<k>> \o q) /\ Range(<<k>> \o q) = Range(q) \cup {k}
<1> DEFINE c == <<k>> \o q
<1>1. /\ c \in Seq(Keys) /\ Len(c) = Len(q) + 1 /\ c[1] = k
      /\ \A j \in 1..Len(q) : c[j + 1] = q[j]
  BY Prepended
<1> HIDE DEF c
<1>2. Len(q) \in Nat /\ DOMAIN q = 1..Len(q) /\ DOMAIN c = 1..(Len(q) + 1)
  BY <1>1, LenProperties
<1>3. \A i \in 1..(Len(q) + 1) : i # 1 => i - 1 \in 1..Len(q) /\ c[i] = q[i - 1]
  <2> SUFFICES ASSUME NEW i \in 1..(Len(q) + 1), i # 1
               PROVE  i - 1 \in 1..Len(q) /\ c[i] = q[i - 1]
    OBVIOUS
  <2>1. i - 1 \in 1..Len(q) /\ (i - 1) + 1 = i
    BY <1>2
  <2> QED BY <1>1, <2>1
<1>4. \A i \in 1..(Len(q) + 1) : i # 1 => c[i] \in Range(q)
  BY <1>2, <1>3 DEF Range
<1>5. IsInjective(c)
  <2> SUFFICES ASSUME NEW i \in 1..(Len(q) + 1), NEW j \in 1..(Len(q) + 1), c[i] = c[j]
               PROVE  i = j
    BY <1>2 DEF IsInjective
  <2>1. CASE i = 1 \/ j = 1
    BY <1>1, <1>4, <2>1
  <2>2. CASE i # 1 /\ j # 1
    <3>1. i - 1 = j - 1
      BY <1>2, <1>3, <2>2 DEF IsInjective
    <3> QED BY <1>2, <3>1
  <2> QED BY <2>1, <2>2
<1>6. ASSUME NEW x \in Range(c) PROVE x \in Range(q) \cup {k}
  <2>1. PICK i \in 1..(Len(q) + 1) : x = c[i]
    BY <1>2 DEF Range
  <2> QED BY <1>1, <1>4, <2>1
<1>7. ASSUME NEW x \in Range(q) PROVE x \in Range(c)
  <2>1. PICK j \in 1..Len(q) : x = q[j]
    BY <1>2 DEF Range
  <2>2. j + 1 \in DOMAIN c /\ c[j + 1] = x
    BY <1>1, <1>2, <2>1
  <2> QED BY <2>2 DEF Range
<1>8. k \in Range(c)
  <2>1. 1 \in DOMAIN c
    BY <1>2
  <2> QED BY <1>1, <2>1 DEF Range
<1>9. Range(c) = Range(q) \cup {k}
  BY <1>6, <1>7, <1>8
<1> QED BY <1>5, <1>9 DEF c

LEMMA Appended ==
  ASSUME NEW s \in Seq(Keys), IsInjective(s), NEW k \in Keys, k \notin Range(s)
  PROVE  IsInjective(Append(s, k)) /\ Range(Append(s, k)) = Range(s) \cup {k}
<1> DEFINE q == Append(s, k)
<1>1. /\ q \in Seq(Keys) /\ Len(q) = Len(s) + 1 /\ q[Len(s) + 1] = k
      /\ \A i \in 1..Len(s) : q[i] = s[i]
  BY AppendProperties
<1> HIDE DEF q
<1>2. Len(s) \in Nat /\ DOMAIN s = 1..Len(s) /\ DOMAIN q = 1..(Len(s) + 1)
  BY <1>1, LenProperties
<1>3. \A i \in 1..(Len(s) + 1) : i # Len(s) + 1 => i \in 1..Len(s) /\ q[i] = s[i]
  BY <1>1, <1>2
<1>4. \A i \in 1..(Len(s) + 1) : i # Len(s) + 1 => q[i] \in Range(s)
  BY <1>2, <1>3 DEF Range
<1>5. IsInjective(q)
  BY <1>1, <1>2, <1>3, <1>4 DEF IsInjective
<1>6. ASSUME NEW x \in Range(q) PROVE x \in Range(s) \cup {k}
  <2>1. PICK i \in 1..(Len(s) + 1) : x = q[i]
    BY <1>2 DEF Range
  <2> QED BY <1>1, <1>4, <2>1
<1>7. ASSUME NEW x \in Range(s) PROVE x \in Range(q)
  <2>1. PICK i \in 1..Len(s) : x = s[i]
    BY <1>2 DEF Range
  <2>2. i \in DOMAIN q /\ q[i] = x
    BY <1>1, <1>2, <2>1
  <2> QED BY <2>2 DEF Range
<1>8. k \in Range(q)
  <2>1. Len(s) + 1 \in DOMAIN q
    BY <1>2
  <2> QED BY <1>1, <2>1 DEF Range
<1>9. Range(q) = Range(s) \cup {k}
  BY <1>6, <1>7, <1>8
<1> QED BY <1>5, <1>9 DEF q
------------------------------------------------------------------------------
(* What a put does to the listing: no other key falls back, and in order   *)
(* of insertion no place changes.                                          *)
LEMMA PutListing ==
  ASSUME TypeInv, NEW k \in Keys
  PROVE  LET c == AfterPut(k)
         IN /\ c \in Seq(Keys) /\ IsInjective(c) /\ Range(c) = Stored \cup {k}
            /\ \A i \in 1..Len(listing) :
                 listing[i] # k => \E j \in 1..Len(c) : j >= i /\ c[j] = listing[i]
            /\ order = "insertion" =>
                 /\ Len(listing) <= Len(c)
                 /\ \A i \in 1..Len(listing) : c[i] = listing[i]
<1>1. /\ order \in {"insertion", "recency"} /\ listing \in Seq(Keys)
      /\ IsInjective(listing) /\ Len(listing) \in Nat
  BY LenProperties DEF TypeInv
<1>2. CASE order = "recency"
  <2> DEFINE q == RemoveFirst(listing, k)
             c == <<k>> \o q
  <2>1. q \in Seq(Keys) /\ IsInjective(q) /\ Range(q) = Stored \ {k}
    BY <1>1, RemovedKey DEF Stored
  <2>2. /\ c \in Seq(Keys) /\ Len(c) = Len(q) + 1
        /\ \A j \in 1..Len(q) : c[j + 1] = q[j]
    BY <2>1, Prepended
  <2>3. IsInjective(c) /\ Range(c) = Stored \cup {k}
    BY <2>1, PrependedRange
  <2>4. AfterPut(k) = c
    BY <1>2 DEF AfterPut
  <2>5. Len(q) \in Nat
    BY <2>1, LenProperties
  <2>6. \A i \in 1..Len(listing) :
           listing[i] # k => \E j \in 1..Len(q) : j >= i - 1 /\ q[j] = listing[i]
    BY <1>1, RemovedPlaces
  <2> HIDE DEF q, c
  <2>7. ASSUME NEW i \in 1..Len(listing), listing[i] # k
        PROVE  \E j \in 1..Len(c) : j >= i /\ c[j] = listing[i]
    <3>1. PICK j \in 1..Len(q) : j >= i - 1 /\ q[j] = listing[i]
      BY <2>6, <2>7
    <3>2. j + 1 \in 1..Len(c) /\ j + 1 >= i /\ c[j + 1] = listing[i]
      BY <1>1, <2>2, <2>5, <3>1
    <3> QED BY <3>2
  <2> QED BY <1>2, <2>2, <2>3, <2>4, <2>7
<1>3. CASE order = "insertion" /\ k \in Stored
  <2>1. AfterPut(k) = listing
    BY <1>3 DEF AfterPut
  <2> QED BY <1>1, <1>3, <2>1 DEF Stored
<1>4. CASE order = "insertion" /\ k \notin Stored
  <2>1. AfterPut(k) = Append(listing, k)
    BY <1>4 DEF AfterPut
  <2> DEFINE c == Append(listing, k)
  <2>2. /\ c \in Seq(Keys) /\ Len(c) = Len(listing) + 1
        /\ \A i \in 1..Len(listing) : c[i] = listing[i]
    BY <1>1, AppendProperties
  <2>3. IsInjective(c) /\ Range(c) = Stored \cup {k}
    BY <1>1, <1>4, Appended DEF Stored
  <2> HIDE DEF c
  <2>4. \A i \in 1..Len(listing) : i \in 1..Len(c) /\ i >= i
    BY <1>1, <2>2
  <2>5. Len(listing) <= Len(c)
    BY <1>1, <2>2
  <2> QED BY <2>1, <2>2, <2>3, <2>4, <2>5 DEF c
<1> QED BY <1>1, <1>2, <1>3, <1>4

(* A page holds what is listed right after the offset, and is empty only   *)
(* if nothing is.                                                          *)
LEMMA PageOf ==
  ASSUME TypeInv
  PROVE  LET page == Page(task.offset)
         IN /\ page \in Seq(Keys) /\ Len(page) \in Nat
            /\ page = <<>> => task.offset >= Len(listing)
            /\ page # <<>> => task.offset + Len(page) <= Len(listing)
            /\ \A i \in 1..Len(page) : page[i] = listing[task.offset + i]
<1> DEFINE o == task.offset
           end == IF o + PageSize < Len(listing) THEN o + PageSize ELSE Len(listing)
           page == SubSeq(listing, o + 1, end)
<1>1. o \in Nat /\ Len(listing) \in Nat /\ listing \in Seq(Keys) /\ PageSize \in Nat \ {0}
  BY LenProperties, PagesAssumption DEF TypeInv, Tasks
<1>2. page = Page(o)
  BY DEF Page
<1> HIDE DEF o
<1>3. end \in Int /\ o + 1 \in Int /\ end <= Len(listing)
      /\ (end >= o + 1 <=> o < Len(listing))
  BY <1>1
<1> HIDE DEF end
<1>4. \A i \in (o + 1)..end : listing[i] \in Keys
  <2>1. \A i \in 1..Len(listing) : listing[i] \in Keys
    BY <1>1, ElementOfSeq
  <2> QED BY <1>1, <1>3, <2>1
<1>5. /\ page \in Seq(Keys)
      /\ Len(page) = IF o + 1 <= end THEN end - (o + 1) + 1 ELSE 0
      /\ \A i \in 1..(end - (o + 1) + 1) : page[i] = listing[(o + 1) + i - 1]
  BY <1>3, <1>4, SubSeqProperties
<1> HIDE DEF page
<1>6. Len(page) = 0 <=> page = <<>>
  BY <1>5, EmptySeq
<1>7. Len(page) \in Nat /\ (Len(page) = 0 => o >= Len(listing))
      /\ (Len(page) # 0 => o + Len(page) <= Len(listing))
  BY <1>1, <1>3, <1>5
<1>8. ASSUME NEW i \in 1..Len(page) PROVE page[i] = listing[o + i]
  <2>1. i \in 1..(end - (o + 1) + 1) /\ (o + 1) + i - 1 = o + i
    BY <1>1, <1>3, <1>5
  <2> QED BY <1>5, <2>1
<1> QED BY <1>2, <1>5, <1>6, <1>7, <1>8 DEF o
------------------------------------------------------------------------------
(* Steps of others.                                                        *)

LEMMA NotedChange ==
  ASSUME TypeInv, NEW P \in SUBSET Keys, NEW deleted \in BOOLEAN, Noted(P, deleted)
  PROVE  /\ seen' \in Histories
         /\ seen'.before = seen.before /\ seen'.removed = seen.removed
         /\ seen.put \subseteq seen'.put
         /\ Lists => P \subseteq seen'.put
         /\ ~seen'.shrunk => ~seen.shrunk /\ ~(Lists /\ deleted)
         /\ seen'.calm => ~Lists /\ task.phase # "delete"
<1>1. seen \in Histories /\ task \in Tasks
  BY DEF TypeInv
<1>2. CASE task.phase \in {"idle", "done"}
  <2>1. seen' = seen
    BY <1>2 DEF Noted
  <2> QED BY <1>1, <1>2, <2>1 DEF Lists, Histories
<1>3. CASE task.phase \notin {"idle", "done"}
  <2>1. seen' = [seen EXCEPT !.calm = FALSE,
                    !.put = IF Lists THEN @ \cup P ELSE @,
                    !.shrunk = @ \/ (Lists /\ deleted)]
    BY <1>3 DEF Noted
  <2>2. /\ seen'.before = seen.before /\ seen'.removed = seen.removed
        /\ seen'.calm = FALSE
        /\ seen'.put = IF Lists THEN seen.put \cup P ELSE seen.put
    BY <1>1, <2>1 DEF Histories
  <2>3. seen'.shrunk = (seen.shrunk \/ (Lists /\ deleted))
    BY <1>1, <2>1 DEF Histories
  <2>4. seen' \in Histories
    <3>1. (seen.shrunk \/ (Lists /\ deleted)) \in BOOLEAN
      OBVIOUS
    <3>2. (IF Lists THEN seen.put \cup P ELSE seen.put) \in SUBSET Keys
      BY <1>1 DEF Histories
    <3> QED BY <1>1, <2>1, <3>1, <3>2 DEF Histories
  <2> QED BY <2>2, <2>3, <2>4
<1> QED BY <1>2, <1>3

LEMMA OthersType ==
  ASSUME TypeInv, listing' \in Seq(Keys), IsInjective(listing'), seen' \in Histories,
         seen'.removed = seen.removed, UNCHANGED <<order, task>>
  PROVE  TypeInv'
BY DEF TypeInv, Selected, Found

LEMMA PutInv ==
  ASSUME IInv, NEW k \in Keys, PutKey(k)
  PROVE  IInv'
<1> DEFINE c == AfterPut(k)
<1>1. TypeInv /\ Hidden /\ seen \in Histories
  BY DEF IInv, TypeInv
<1>2. UNCHANGED <<order, task>> /\ listing' = c
  BY DEF PutKey
<1>3. /\ c \in Seq(Keys) /\ IsInjective(c) /\ Range(c) = Stored \cup {k}
      /\ \A i \in 1..Len(listing) :
           listing[i] # k => \E j \in 1..Len(c) : j >= i /\ c[j] = listing[i]
      /\ order = "insertion" =>
           /\ Len(listing) <= Len(c)
           /\ \A i \in 1..Len(listing) : c[i] = listing[i]
  BY <1>1, PutListing
<1> HIDE DEF c
<1>4. /\ seen' \in Histories
      /\ seen'.before = seen.before /\ seen'.removed = seen.removed
      /\ seen.put \subseteq seen'.put
      /\ Lists => {k} \subseteq seen'.put
      /\ ~seen'.shrunk => ~seen.shrunk
      /\ seen'.calm => ~Lists /\ task.phase # "delete"
  BY <1>1, NotedChange DEF PutKey
<1>5. TypeInv'
  BY <1>1, <1>2, <1>3, <1>4, OthersType
<1>6. DOMAIN listing = 1..Len(listing) /\ DOMAIN c = 1..Len(c)
      /\ Len(listing) \in Nat /\ Len(c) \in Nat /\ task.offset \in Nat
  BY <1>1, <1>3, LenProperties DEF TypeInv, Tasks
<1>7. Hidden'
  <2> SUFFICES ASSUME ~seen'.shrunk
               PROVE  /\ Lists => /\ \A x \in seen.before \ Jumped' : x \in Found \/ Ahead(x)'
                                  /\ order = "insertion" => Prefix'
                      /\ HasListed => seen.before \ Found \subseteq Jumped'
                      /\ order = "insertion" => IsInjective(task.found)
    BY <1>2, <1>4 DEF Hidden, Lists, HasListed, Found
  <2>1. Jumped \subseteq Jumped'
    BY <1>2, <1>4 DEF Jumped
  <2>2. ASSUME Lists, order = "insertion" PROVE Prefix'
    <3>1. Prefix
      BY <1>1, <1>4, <2>2 DEF Hidden
    <3> QED BY <1>2, <1>3, <1>6, <2>2, <3>1 DEF Prefix
  <2>3. ASSUME Lists, NEW x \in seen.before \ Jumped', x \notin Found PROVE Ahead(x)'
    <3>1. PICK i \in 1..Len(listing) : i > task.offset /\ listing[i] = x
      BY <1>1, <1>4, <1>6, <2>1, <2>3 DEF Hidden, Ahead
    <3>2. CASE order = "recency"
      <4>1. x # k
        BY <1>2, <1>4, <2>3, <3>2 DEF Jumped
      <4>2. PICK j \in 1..Len(c) : j >= i /\ c[j] = x
        BY <1>3, <3>1, <4>1
      <4>3. j > task.offset /\ j \in DOMAIN c
        BY <1>6, <3>1, <4>2
      <4> QED BY <1>2, <4>2, <4>3 DEF Ahead
    <3>3. CASE order = "insertion"
      <4>1. i \in DOMAIN c /\ c[i] = x
        BY <1>3, <1>6, <3>1, <3>3
      <4> QED BY <1>2, <3>1, <4>1 DEF Ahead
    <3> QED BY <1>1, <3>2, <3>3 DEF TypeInv
  <2> QED BY <1>1, <1>4, <2>1, <2>2, <2>3 DEF Hidden
<1>8. Exact'
  BY <1>2, <1>4 DEF Exact, Lists
<1> QED BY <1>5, <1>7, <1>8 DEF IInv

LEMMA ForgetInv ==
  ASSUME IInv, NEW k \in Keys, ForgetMemory(k)
  PROVE  IInv'
<1>1. TypeInv /\ Hidden
  BY DEF IInv
<1>2. UNCHANGED <<order, task>> /\ listing' = RemoveFirst(listing, k)
  BY DEF ForgetMemory
<1>3. listing' \in Seq(Keys) /\ IsInjective(listing')
  BY <1>1, <1>2, RemovedKey DEF TypeInv
<1>4. /\ seen' \in Histories
      /\ seen'.before = seen.before /\ seen'.removed = seen.removed
      /\ seen.put \subseteq seen'.put
      /\ ~seen'.shrunk => ~seen.shrunk /\ ~Lists
      /\ seen'.calm => ~Lists /\ task.phase # "delete"
  <2>1. Noted({}, TRUE) /\ {} \in SUBSET Keys /\ TRUE \in BOOLEAN
    BY DEF ForgetMemory
  <2> QED BY <1>1, <2>1, NotedChange
<1>5. TypeInv'
  BY <1>1, <1>2, <1>3, <1>4, OthersType
<1>6. Hidden'
  BY <1>1, <1>2, <1>4 DEF Hidden, Lists, HasListed, Found, Jumped
<1>7. Exact'
  BY <1>2, <1>4 DEF Exact, Lists
<1> QED BY <1>5, <1>6, <1>7 DEF IInv
------------------------------------------------------------------------------
(* Steps of the delete.                                                    *)

LEMMA BeginInv ==
  ASSUME IInv, NEW kind \in {"user", "thread"}, Begin(kind)
  PROVE  IInv'
<1>1. TypeInv /\ seen \in Histories /\ task.phase = "idle"
  BY DEF IInv, TypeInv, Begin
<1>2. UNCHANGED <<order, listing>>
  BY DEF Begin
<1>3. /\ task'.phase = "list" /\ task'.kind = kind /\ task'.offset = 0
      /\ task'.found = <<>> /\ task'.todo = {} /\ task' \in Tasks
  BY EmptySeq DEF Begin, NoTask, Tasks
<1>4. /\ seen' \in Histories /\ seen'.before = Stored /\ seen'.removed = {}
      /\ seen'.shrunk = seen.shrunk /\ seen'.calm = seen.calm
  <2>1. Stored \in SUBSET Keys
    BY <1>1, RangeOfSeq DEF TypeInv, Stored
  <2>2. seen' = [seen EXCEPT !.before = Stored] /\ seen.removed = {}
    BY <1>1 DEF Begin, TypeInv
  <2> QED BY <1>1, <2>1, <2>2 DEF Histories
<1>5. DOMAIN listing = 1..Len(listing) /\ Len(listing) \in Nat /\ Cardinality(Keys) \in Nat
  BY <1>1, LenProperties, LengthBound DEF TypeInv
<1>6. Len(<<>>) = 0 /\ DOMAIN <<>> = {} /\ Range(<<>>) = {}
  BY DEF Range
<1>7. TypeInv'
  BY <1>1, <1>2, <1>3, <1>4, <1>5, <1>6 DEF TypeInv, Selected, Found
<1>8. Prefix' /\ \A x \in Stored : Ahead(x)'
  BY <1>2, <1>3, <1>5, <1>6 DEF Prefix, Ahead, Stored, Range
<1>9. Hidden'
  BY <1>2, <1>3, <1>4, <1>6, <1>8 DEF Hidden, Lists, HasListed, IsInjective
<1>10. Exact'
  BY <1>2, <1>3, <1>4, <1>8 DEF Exact, Lists, Stored
<1> QED BY <1>7, <1>9, <1>10 DEF IInv

(* A page that is not empty.                                               *)
LEMMA PageInv ==
  ASSUME IInv, NextPage, Page(task.offset) # <<>>
  PROVE  IInv'
<1> DEFINE page == Page(task.offset)
           o == task.offset
           found == task.found \o page
<1>1. /\ TypeInv /\ Hidden /\ Exact /\ Lists /\ task \in Tasks
      /\ task.found \in Seq(Keys) /\ o \in Nat /\ o = Len(task.found)
      /\ listing \in Seq(Keys)
  BY DEF IInv, TypeInv, NextPage, Tasks
<1>2. UNCHANGED <<order, listing, seen>>
  BY DEF NextPage
<1>3. /\ page \in Seq(Keys) /\ Len(page) \in Nat /\ o + Len(page) <= Len(listing)
      /\ \A i \in 1..Len(page) : page[i] = listing[o + i]
  BY <1>1, PageOf
<1>4. task' = [task EXCEPT !.offset = o + Len(page), !.found = found]
  BY DEF NextPage, IsLast, OffsetAfter
<1>5. /\ found \in Seq(Keys) /\ Len(found) = o + Len(page)
      /\ \A i \in 1..(o + Len(page)) : found[i] = IF i <= o THEN task.found[i] ELSE page[i - o]
      /\ Range(found) = Found \cup Range(page)
  <2>1. /\ found \in Seq(Keys) /\ Len(found) = Len(task.found) + Len(page)
        /\ \A i \in 1..(Len(task.found) + Len(page)) :
             found[i] = IF i <= Len(task.found) THEN task.found[i] ELSE page[i - Len(task.found)]
    BY <1>1, <1>3, ConcatProperties
  <2>2. Range(found) = Range(task.found) \cup Range(page)
    BY <1>1, <1>3, RangeConcatenation
  <2> QED BY <1>1, <2>1, <2>2 DEF Found
<1> HIDE DEF page, o, found
<1>6. /\ task' \in Tasks /\ task'.offset = o + Len(page) /\ task'.found = found
      /\ task'.phase = task.phase /\ task'.kind = task.kind /\ task'.todo = task.todo
  <2>1. o + Len(page) \in Nat
    BY <1>1, <1>3
  <2> QED BY <1>1, <1>4, <1>5, <2>1 DEF Tasks
<1>7. /\ Len(listing) \in Nat /\ DOMAIN listing = 1..Len(listing)
      /\ DOMAIN page = 1..Len(page) /\ DOMAIN found = 1..(o + Len(page))
      /\ Len(listing) <= Cardinality(Keys) /\ Cardinality(Keys) \in Nat
  BY <1>1, <1>3, <1>5, LenProperties, LengthBound DEF TypeInv
<1>8. TypeInv'
  <2>1. task.todo = {} /\ seen.removed = {}
    BY <1>1 DEF TypeInv, Lists
  <2> QED BY <1>1, <1>2, <1>3, <1>5, <1>6, <1>7, <2>1 DEF TypeInv
<1>9. Prefix => Prefix'
  <2> SUFFICES ASSUME Prefix, NEW i \in 1..(o + Len(page)) PROVE found[i] = listing[i]
    BY <1>2, <1>3, <1>6 DEF Prefix
  <2>1. CASE i <= o
    <3>1. i \in 1..o
      BY <1>1, <2>1
    <3> QED BY <1>5, <2>1, <3>1 DEF Prefix, o
  <2>2. CASE ~(i <= o)
    <3>1. i - o \in 1..Len(page) /\ o + (i - o) = i
      BY <1>1, <1>3, <2>2
    <3> QED BY <1>3, <1>5, <2>2, <3>1
  <2> QED BY <2>1, <2>2
<1>10. Prefix' => IsInjective(found)
  <2> SUFFICES ASSUME \A i \in 1..(o + Len(page)) : found[i] = listing[i]
               PROVE  IsInjective(found)
    BY <1>2, <1>6 DEF Prefix
  <2>1. \A i \in 1..(o + Len(page)) : i \in 1..Len(listing)
    BY <1>1, <1>3, <1>7
  <2>2. IsInjective(listing)
    BY <1>1 DEF TypeInv
  <2> QED BY <1>7, <2>1, <2>2 DEF IsInjective
<1>11. ASSUME NEW x, Ahead(x) PROVE x \in Range(found) \/ Ahead(x)'
  <2>1. PICK i \in 1..Len(listing) : i > o /\ listing[i] = x
    BY <1>7, <1>11 DEF Ahead, o
  <2>2. CASE i > o + Len(page)
    BY <1>2, <1>6, <1>7, <2>1, <2>2 DEF Ahead
  <2>3. CASE ~(i > o + Len(page))
    <3>1. i - o \in 1..Len(page) /\ o + (i - o) = i
      BY <1>1, <1>3, <1>7, <2>1, <2>3
    <3>2. page[i - o] = x
      BY <1>3, <2>1, <3>1
    <3>3. x \in Range(page)
      BY <1>7, <3>1, <3>2 DEF Range
    <3> QED BY <1>5, <3>3
  <2> QED BY <2>2, <2>3
<1>12. Hidden'
  <2>1. Lists' /\ ~HasListed' /\ Jumped' = Jumped /\ Found' = Range(found)
    BY <1>1, <1>2, <1>6 DEF Lists, HasListed, Jumped, Found
  <2>2. ~seen.shrunk => /\ \A x \in seen.before \ Jumped : x \in Found \/ Ahead(x)
                        /\ order = "insertion" => Prefix
    BY <1>1 DEF Hidden
  <2>3. Found \subseteq Range(found)
    BY <1>5
  <2>4. ~seen.shrunk => \A x \in seen.before \ Jumped : x \in Range(found) \/ Ahead(x)'
    BY <1>11, <2>2, <2>3
  <2>5. ~seen.shrunk /\ order = "insertion" => Prefix' /\ IsInjective(found)
    BY <1>9, <1>10, <2>2
  <2> QED BY <1>2, <1>6, <2>1, <2>4, <2>5 DEF Hidden
<1>13. Exact'
  BY <1>1, <1>2, <1>6, <1>9 DEF Exact, Lists, Stored
<1> QED BY <1>8, <1>12, <1>13 DEF IInv

(* The empty page: the listing has come to its end.                        *)
LEMMA LastPageInv ==
  ASSUME IInv, NextPage, Page(task.offset) = <<>>
  PROVE  IInv'
<1>1. /\ TypeInv /\ Hidden /\ Exact /\ Lists /\ task \in Tasks
      /\ task.found \in Seq(Keys) /\ task.offset = Len(task.found)
      /\ listing \in Seq(Keys) /\ IsInjective(listing) /\ task.offset \in Nat
  BY DEF IInv, TypeInv, NextPage, Tasks
<1>2. UNCHANGED <<order, listing, seen>>
  BY DEF NextPage
<1>3. task.offset >= Len(listing) /\ Len(listing) \in Nat
      /\ DOMAIN listing = 1..Len(listing) /\ DOMAIN task.found = 1..task.offset
  BY <1>1, PageOf, LenProperties
<1>4. Selected \in SUBSET Nat
  BY <1>3 DEF Selected
<1>5. /\ task' \in Tasks /\ task'.offset = task.offset /\ task'.found = task.found
      /\ task'.phase = "delete" /\ task'.kind = task.kind /\ task'.todo = Selected
  BY <1>1, <1>4 DEF NextPage, IsLast, Tasks
<1>6. Selected' = Selected /\ Found' = Found
  BY <1>5 DEF Selected, Found
<1>7. TypeInv'
  BY <1>1, <1>2, <1>5, <1>6 DEF TypeInv
<1>8. \A x : ~Ahead(x)
  BY <1>1, <1>3 DEF Ahead
<1>9. Hidden'
  BY <1>1, <1>2, <1>5, <1>6, <1>8 DEF Hidden, Lists, HasListed, Jumped
<1>10. ASSUME Prefix PROVE Found = Stored /\ IsInjective(task.found)
  <2>1. task.offset = Len(listing) /\ \A i \in 1..Len(listing) : task.found[i] = listing[i]
    BY <1>1, <1>3, <1>10 DEF Prefix
  <2> QED BY <1>1, <1>3, <2>1 DEF Found, Stored, Range, IsInjective
<1>11. Dealt' = {}
  BY <1>5, <1>6 DEF Dealt
<1>12. Exact'
  BY <1>1, <1>2, <1>5, <1>6, <1>10, <1>11 DEF Exact, Lists, TypeInv, Stored
<1> QED BY <1>7, <1>9, <1>12 DEF IInv

LEMMA DeleteKeyInv ==
  ASSUME IInv, DeleteKey
  PROVE  IInv'
<1> DEFINE i == Current
           k == task.found[i]
<1>1. /\ TypeInv /\ Hidden /\ Exact /\ task \in Tasks /\ seen \in Histories
      /\ task.phase = "delete" /\ task.todo # {} /\ task.todo \subseteq Selected
      /\ task.todo \in SUBSET Nat /\ task.found \in Seq(Keys)
      /\ listing \in Seq(Keys) /\ IsInjective(listing)
  BY DEF IInv, TypeInv, DeleteKey, Tasks
<1>2. i \in task.todo
  BY <1>1, FirstOf DEF Current
<1>3. i \in Selected /\ i \in DOMAIN task.found /\ k \in Found /\ k \in Keys
  BY <1>1, <1>2, RangeOfSeq DEF Selected, Found, Range
<1>4. /\ order' = order /\ listing' = RemoveFirst(listing, k)
      /\ task' = [task EXCEPT !.todo = task.todo \ {i}]
      /\ seen' = [seen EXCEPT !.removed = seen.removed \cup ({k} \cap Stored)]
  BY DEF DeleteKey, Remaining
<1> HIDE DEF i, k
<1>5. listing' \in Seq(Keys) /\ IsInjective(listing') /\ Stored' = Stored \ {k}
  BY <1>1, <1>4, RemovedKey DEF Stored
<1>6. /\ task' \in Tasks /\ task'.offset = task.offset /\ task'.found = task.found
      /\ task'.phase = "delete" /\ task'.kind = task.kind /\ task'.todo = task.todo \ {i}
  BY <1>1, <1>4 DEF Tasks
<1>7. /\ seen' \in Histories /\ seen'.before = seen.before /\ seen'.put = seen.put
      /\ seen'.shrunk = seen.shrunk /\ seen'.calm = seen.calm
      /\ seen'.removed = seen.removed \cup ({k} \cap Stored)
  BY <1>1, <1>3, <1>4 DEF Histories
<1>8. Selected' = Selected /\ Found' = Found
  BY <1>6 DEF Selected, Found
<1>9. TypeInv'
  BY <1>1, <1>3, <1>4, <1>5, <1>6, <1>7, <1>8 DEF TypeInv
<1>10. Hidden'
  BY <1>1, <1>4, <1>6, <1>7, <1>8 DEF Hidden, Lists, HasListed, Jumped
<1>11. Exact'
  <2> SUFFICES ASSUME seen.calm
               PROVE  /\ IsInjective(task.found) /\ Found = seen.before
                      /\ Stored' = seen.before \ Dealt'
                      /\ seen'.removed = Dealt'
    BY <1>6, <1>7, <1>8 DEF Exact, Lists
  <2>1. /\ IsInjective(task.found) /\ Found = seen.before
        /\ Stored = seen.before \ Dealt /\ seen.removed = Dealt
    BY <1>1 DEF Exact
  <2>2. Dealt' = Dealt \cup {k}
    <3>1. Selected \ (task.todo \ {i}) = (Selected \ task.todo) \cup {i}
      BY <1>3
    <3> QED BY <1>6, <1>8, <3>1 DEF Dealt, k
  <2>3. k \notin Dealt
    <3> SUFFICES ASSUME NEW j \in Selected \ task.todo, task.found[j] = k PROVE FALSE
      BY DEF Dealt
    <3>1. j = i
      BY <1>3, <2>1 DEF IsInjective, Selected, k
    <3> QED BY <1>2, <3>1
  <2>4. k \in Stored
    BY <1>3, <2>1, <2>3
  <2> QED BY <1>5, <1>7, <2>1, <2>2, <2>4
<1> QED BY <1>9, <1>10, <1>11 DEF IInv

LEMMA FinishInv ==
  ASSUME IInv, Finish
  PROVE  IInv'
<1>1. TypeInv /\ Hidden /\ task \in Tasks /\ task.phase = "delete"
  BY DEF IInv, TypeInv, Finish
<1>2. UNCHANGED <<order, listing, seen>>
  BY DEF Finish
<1>3. /\ task' \in Tasks /\ task'.offset = task.offset /\ task'.found = task.found
      /\ task'.phase = "done" /\ task'.kind = task.kind /\ task'.todo = task.todo
  BY <1>1 DEF Finish, Tasks
<1>4. TypeInv'
  BY <1>1, <1>2, <1>3 DEF TypeInv, Selected, Found
<1>5. Hidden'
  BY <1>1, <1>2, <1>3 DEF Hidden, Lists, HasListed, Jumped, Found
<1>6. Exact'
  BY <1>3 DEF Exact, Lists
<1> QED BY <1>4, <1>5, <1>6 DEF IInv
------------------------------------------------------------------------------
LEMMA InitInv == Init => IInv
<1> SUFFICES ASSUME Init PROVE IInv
  OBVIOUS
<1>1. <<>> \in Seq(Keys) /\ Len(<<>>) = 0 /\ DOMAIN <<>> = {}
  BY EmptySeq
<1>2. Cardinality(Keys) \in Nat /\ order \in {"insertion", "recency"}
  BY PagesAssumption, FS_CardinalityType DEF Init
<1>3. task \in Tasks /\ seen \in Histories /\ listing = <<>> /\ IsInjective(<<>>)
  BY <1>1 DEF Init, NoTask, Tasks, Unseen, Histories, IsInjective
<1>4. /\ task.phase = "idle" /\ task.offset = 0 /\ task.found = <<>> /\ task.todo = {}
      /\ seen.removed = {}
  BY DEF Init, NoTask, Unseen
<1>5. TypeInv
  BY <1>1, <1>2, <1>3, <1>4 DEF TypeInv, Init
<1>6. Hidden /\ Exact
  BY <1>3, <1>4 DEF Hidden, Exact, Lists, HasListed
<1> QED BY <1>5, <1>6 DEF IInv

(* Every call of the delete and every put or delete of others in between   *)
(* keeps the invariant.                                                    *)
THEOREM Invariance == Spec => []IInv
<1>1. IInv /\ [Next]_vars => IInv'
  <2> SUFFICES ASSUME IInv, [Next]_vars PROVE IInv'
    OBVIOUS
  <2>1. CASE UNCHANGED vars
    BY <2>1 DEF IInv, TypeInv, Hidden, Exact, Lists, HasListed, Prefix, Ahead, Jumped,
                Dealt, Selected, Found, Stored, vars
  <2> QED
    BY <2>1, PutInv, ForgetInv, BeginInv, PageInv, LastPageInv, DeleteKeyInv, FinishInv
    DEF Next, Delete
<1> QED BY <1>1, InitInv, PTL DEF Spec

(* No key is stored twice, and a listing's offset is the number of keys it *)
(* returned so far: never more than there are keys.                        *)
THEOREM TypeCorrect == Spec => []TypeOK
<1>1. IInv => TypeOK
  BY RangeOfSeq DEF IInv, TypeInv, TypeOK, Tasks, Found, Stored
<1> QED BY <1>1, Invariance, PTL

(* Only a delete under a listing hides records from it, but for updated    *)
(* ones that jumped over the offset, and in order of insertion no key is   *)
(* found twice.                                                            *)
THEOREM OnlyDeletesHide == Spec => []OnlyDeletesHideRecords
<1>1. IInv => OnlyDeletesHideRecords
  BY DEF IInv, Hidden, OnlyDeletesHideRecords, Jumped
<1> QED BY <1>1, Invariance, PTL

(* A delete nobody interferes with removes exactly the records there were  *)
(* to remove, however many pages they fill, and reports their number.      *)
THEOREM DeletesAreExact == Spec => []UndisturbedDeleteIsExact
<1>1. IInv => UndisturbedDeleteIsExact
  <2> DEFINE due == IF task.kind = "user" THEN seen.before ELSE seen.before \cap Stamped
  <2> SUFFICES ASSUME IInv, task.phase = "delete", task.todo = {}, seen.calm
               PROVE  /\ due \cap Stored = {} /\ due \subseteq Found
                      /\ Report = Cardinality(due) /\ seen.removed = due
    BY DEF UndisturbedDeleteIsExact
  <2>1. /\ IsInjective(task.found) /\ Found = seen.before
        /\ Stored = seen.before \ Dealt /\ seen.removed = Dealt
    BY DEF IInv, Exact
  <2>2. task.found \in Seq(Keys) /\ task.kind \in {"user", "thread"}
    BY DEF IInv, TypeInv, Tasks
  <2>3. Dealt = due
    <3>1. Dealt = {task.found[i] : i \in Selected}
      BY DEF Dealt
    <3>2. Found = {task.found[i] : i \in DOMAIN task.found}
      BY DEF Found, Range
    <3>3. CASE task.kind = "user"
      <4>1. Selected = DOMAIN task.found
        BY <3>3 DEF Selected
      <4> QED BY <2>1, <3>1, <3>2, <3>3, <4>1
    <3>4. CASE task.kind = "thread"
      <4>1. \A x : x \in Dealt <=> x \in Found /\ x \in Stamped
        BY <3>1, <3>2, <3>4 DEF Selected
      <4> QED BY <2>1, <3>4, <4>1
    <3> QED BY <2>2, <3>3, <3>4
  <2>4. IsFiniteSet(Selected) /\ Cardinality(due) = Cardinality(Selected)
    <3> DEFINE f == [i \in Selected |-> task.found[i]]
    <3>1. IsFiniteSet(Selected)
      <4>1. DOMAIN task.found = 1..Len(task.found) /\ Len(task.found) \in Nat
        BY <2>2, LenProperties
      <4>2. IsFiniteSet(1..Len(task.found)) /\ Selected \subseteq 1..Len(task.found)
        BY <4>1, FS_Interval DEF Selected
      <4> QED BY <4>2, FS_Subset
    <3>2. f \in Injection(Selected, due)
      BY <2>1, <2>3 DEF Injection, IsInjective, Selected, Dealt
    <3>3. f \in Surjection(Selected, due)
      BY <2>3, <3>2 DEF Surjection, Injection, Dealt
    <3>4. ExistsBijection(Selected, due)
      BY <3>2, <3>3 DEF ExistsBijection, Bijection
    <3> QED BY <3>1, <3>4, FS_Bijection
  <2> QED BY <2>1, <2>3, <2>4 DEF Report
<1> QED BY <1>1, Invariance, PTL
==============================================================================
