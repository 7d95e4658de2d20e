------------------------- MODULE WritePathCalmProofs -------------------------
(***************************************************************************)
(* What holds of the write path when the turns of a user run one after the *)
(* other, to their end, and the turn can read everything the store holds:  *)
(* proofs about WritePath's CalmSpec.                                      *)
(*                                                                         *)
(* The argument is that a turn then knows the store.  Its private copy is  *)
(* the set of live records before every decision, so what it decides of    *)
(* the copy is true of the store, and so is what it writes back.           *)
(***************************************************************************)
EXTENDS WritePathProofs

(* The turns of one user never overlap, and no search of the store leaves  *)
(* a record out.                                                           *)
OneWorker == \A v, w \in Workers : v = w

StoreFits == Cardinality(memories) <= MaxExisting

SearchFits == Cardinality(memories) <= DedupeCandidates

Live == {m \in memories : IsActive(m)}

BeingRetired(m) == \E w \in Workers : m \in stale[w]

(* An id names one record.                                                 *)
NoTwins == \A x, y \in memories : x.id = y.id => x = y

(* Before every decision a turn knows the live records; while it retires   *)
(* the old records of a slot, all but their replacement.                   *)
TurnKnows ==
  \A w \in Workers :
    /\ pc[w] = "idle" => existing[w] = {} /\ replacement[w] = NULL
    /\ pc[w] \in {"resolve", "nearest"} =>
         existing[w] = Live /\ replacement[w] = NULL
    /\ pc[w] = "supersede" =>
         /\ replacement[w] \in Live /\ replacement[w] \notin existing[w]
         /\ Live = existing[w] \cup {replacement[w]}
         /\ stale[w] = {m \in existing[w] : m.slot = replacement[w].slot}

(* A live record that is not the newest of its slot is being retired.      *)
NewestLives ==
  \A x, y \in memories :
    /\ x.slot # UNSLOTTED /\ x.slot = y.slot /\ x.id < y.id
    /\ IsActive(x) /\ y.superseded_by = NULL
    => BeingRetired(x)

(* A live record that is not being retired says what was said last.        *)
SaidLives ==
  \A m \in Live : m.slot # UNSLOTTED /\ ~BeingRetired(m)
    => said[m.slot] # NULL /\ said[m.slot].value = m.value

EndedOK ==
  \A id \in ended :
    id < nextId /\ \A m \in memories : m.id = id => m.superseded_by # NULL

(* The similarity search is made for notes without a slot.                 *)
SearchUnslotted ==
  \A w \in Workers : pc[w] = "nearest" =>
    \A i \in left[w] : IsDue(w, i) => Candidate(w, i).slot = UNSLOTTED

CalmInv ==
  /\ NoTwins /\ TurnKnows /\ NewestLives /\ SaidLives /\ EndedOK
  /\ SearchUnslotted

(* When the search found nothing there was nothing near.                   *)
SearchExact ==
  \A w \in Workers : pc[w] = "nearest" /\ match[w] = NULL =>
    \A i \in left[w] : IsDue(w, i) =>
      \A m \in existing[w] :
        Cosine[TextOf(Candidate(w, i))][TextOf(m)] < DedupeSimilarity
------------------------------------------------------------------------------
(* Sets of records in which an id names one record.                        *)

LEMMA WithoutOne ==
  ASSUME NoTwins, NEW S \in SUBSET memories, NEW m \in S
  PROVE  Without(S, m.id) = S \ {m}
BY DEF NoTwins, Without

LEMMA WithoutNone ==
  ASSUME IInv
  PROVE  Without(memories, nextId) = memories /\ \A m \in memories : m.id < nextId
<1>1. \A m \in memories : m.id < nextId /\ m.id \in Nat
  BY CopiesMembers DEF IInv, CopiesOK, TypeOK, Memory, Copies
<1>2. nextId \in Nat
  BY DEF IInv, TypeOK
<1> QED BY <1>1, <1>2 DEF Without

(* Two live records of a slot that nothing retires are one.                *)
LEMMA OneIsLeft ==
  ASSUME TypeOK, NoTwins, NewestLives, NEW x \in Live, NEW y \in Live,
         x.slot # UNSLOTTED, x.slot = y.slot, ~BeingRetired(x), ~BeingRetired(y)
  PROVE  x = y
<1>1. /\ x \in memories /\ y \in memories /\ IsActive(x) /\ IsActive(y)
      /\ x.superseded_by = NULL /\ y.superseded_by = NULL
  BY DEF Live, IsActive
<1>2. x.id \in Nat /\ y.id \in Nat
  BY <1>1 DEF TypeOK, Memory
<1>3. ~(x.id < y.id) /\ ~(y.id < x.id)
  BY <1>1 DEF NewestLives
<1> QED BY <1>1, <1>2, <1>3 DEF NoTwins

(* What a turn knows while it resolves a candidate.                        *)
LEMMA Resolving ==
  ASSUME IInv, CalmInv, OneWorker, NEW w \in Workers,
         pc[w] \in {"resolve", "nearest"}
  PROVE  /\ existing[w] = Live /\ replacement[w] = NULL
         /\ \A m : ~BeingRetired(m)
         /\ \A m \in Live : /\ m \in memories /\ m \in Memory /\ IsActive(m)
                            /\ m.superseded_by = NULL /\ m.id \notin ended
<1>1. existing[w] = Live /\ replacement[w] = NULL
  BY DEF CalmInv, TurnKnows
<1>2. stale[w] = {}
  BY DEF IInv, TurnOK
<1>3. \A m : ~BeingRetired(m)
  BY <1>2 DEF BeingRetired, OneWorker
<1>4. \A m \in Live : /\ m \in memories /\ m \in Memory /\ IsActive(m)
                      /\ m.superseded_by = NULL
  BY DEF Live, IsActive, IInv, TypeOK
<1>5. \A m \in Live : m.id \notin ended
  BY <1>4 DEF CalmInv, EndedOK
<1> QED BY <1>1, <1>3, <1>4, <1>5

(* The turn goes on, or is over.                                           *)
LEMMA ResolvedKnows ==
  ASSUME TypeOK, OneWorker, NEW w \in Workers, NEW i, NEW known,
         Resolved(w, i, known), known = Live', stale'[w] = {}
  PROVE  TurnKnows' /\ SearchUnslotted' /\ \A m : ~BeingRetired(m)'
<1>1. /\ pc'[w] \in {"idle", "resolve"} /\ replacement'[w] = NULL
      /\ pc'[w] = "idle" => existing'[w] = {}
      /\ pc'[w] = "resolve" => existing'[w] = known
  BY DEF Resolved, TypeOK
<1>2. \A v \in Workers : v = w
  BY DEF OneWorker
<1>3. TurnKnows'
  BY <1>1, <1>2 DEF TurnKnows
<1>4. SearchUnslotted'
  BY <1>1, <1>2 DEF SearchUnslotted
<1>5. \A m : ~BeingRetired(m)'
  BY <1>2 DEF BeingRetired
<1> QED BY <1>3, <1>4, <1>5

(* What is said of a slot is what the candidate says.                      *)
LEMMA StatedSlot ==
  ASSUME TypeOK, NEW t, NEW f \in Fact, Stated(t, f), f.slot # UNSLOTTED
  PROVE  /\ said'[f.slot] # NULL /\ said'[f.slot].value = f.value
         /\ \A s \in Slots \ {f.slot} : said'[s] = said[s]
<1> DEFINE new == [value |-> f.value, durable |-> TtlOf(t, f) = NULL]
<1>1. f.slot \in Slots /\ f.value \in Values
  BY DEF Fact
<1>2. (TtlOf(t, f) = NULL) \in BOOLEAN
  OBVIOUS
<1>3. new \in [value : Values, durable : BOOLEAN]
  BY <1>1, <1>2
<1>4. new # NULL /\ new.value = f.value
  BY <1>3, ConstantsAssumption
<1>5. said' = [said EXCEPT ![f.slot] = new]
  BY DEF Stated
<1> HIDE DEF new
<1> QED BY <1>1, <1>4, <1>5 DEF TypeOK

(* Restating what is live: the record stays what it was, more important.   *)
LEMMA ReinforceEffect ==
  ASSUME IInv, CalmInv, OneWorker, NEW w \in Workers, NEW i, IsDue(w, i),
         pc[w] \in {"resolve", "nearest"}, NEW m \in existing[w], Reinforce(w, i, m)
  PROVE  LET r == Reinforced(m)
         IN /\ m \in Live /\ m.id \notin ended
            /\ r \in Memory /\ Same(r, m) /\ r.superseded_by = NULL
            /\ m.importance <= r.importance
            /\ memories' = (memories \ {m}) \cup {r}
            /\ Live' = (Live \ {m}) \cup {r}
            /\ now' = now /\ nextId' = nextId /\ ended' = ended /\ stale' = stale
            /\ Stated(job[w], Candidate(w, i))
            /\ Resolved(w, i, Live') /\ stale'[w] = {}
<1> DEFINE r == Reinforced(m)
<1>1. /\ existing[w] = Live /\ m \in memories /\ m \in Memory /\ IsActive(m)
      /\ m.superseded_by = NULL /\ m.id \notin ended
  BY Resolving
<1>2. r \in Memory /\ Same(r, m) /\ r.superseded_by = NULL
  BY <1>1, ReinforcedIsMemory
<1>3. m.importance <= r.importance
  BY <1>1 DEF Reinforced, Memory, MaxImportance
<1>4. /\ now' = now /\ nextId' = nextId /\ ended' = ended /\ stale' = stale
      /\ Stated(job[w], Candidate(w, i))
      /\ memories' = Put(memories, r) /\ Resolved(w, i, Put(existing[w], r))
  BY DEF Reinforce, KnownAfterReinforcing
<1> HIDE DEF r
<1>5. Live \subseteq memories
  BY DEF Live
<1>6. Put(memories, r) = (memories \ {m}) \cup {r}
  BY <1>1, <1>2, WithoutOne DEF Put, Same, CalmInv
<1>7. Put(existing[w], r) = (Live \ {m}) \cup {r}
  BY <1>1, <1>2, <1>5, WithoutOne DEF Put, Same, CalmInv
<1>8. Live' = (Live \ {m}) \cup {r}
  BY <1>1, <1>2, <1>4, <1>6 DEF Live, IsActive, Same
<1>9. stale[w] = {}
  BY DEF IInv, TurnOK
<1> QED BY <1>1, <1>2, <1>3, <1>4, <1>6, <1>7, <1>8, <1>9 DEF r

LEMMA ReinforceCalm ==
  ASSUME IInv, CalmInv, OneWorker, NEW w \in Workers, NEW i, IsDue(w, i),
         pc[w] \in {"resolve", "nearest"}, NEW m \in existing[w], Reinforce(w, i, m),
         Candidate(w, i).slot # UNSLOTTED =>
           m.slot = Candidate(w, i).slot /\ m.value = Candidate(w, i).value
  PROVE  CalmInv'
<1> DEFINE r == Reinforced(m)
           f == Candidate(w, i)
<1>1. /\ m \in Live /\ m.id \notin ended
      /\ r \in Memory /\ Same(r, m) /\ r.superseded_by = NULL
      /\ memories' = (memories \ {m}) \cup {r}
      /\ Live' = (Live \ {m}) \cup {r}
      /\ now' = now /\ nextId' = nextId /\ ended' = ended
      /\ Stated(job[w], f)
      /\ Resolved(w, i, Live') /\ stale'[w] = {}
  BY ReinforceEffect
<1>2. \A x : ~BeingRetired(x)
  BY Resolving
<1>3. TypeOK /\ m \in memories /\ f \in Fact
  BY <1>1, BuiltRecord DEF IInv, Live
<1>4. TurnKnows' /\ SearchUnslotted' /\ \A x : ~BeingRetired(x)'
  BY <1>1, <1>3, ResolvedKnows
<1> HIDE DEF r, f
<1>5. NoTwins'
  BY <1>1, <1>3 DEF NoTwins, CalmInv, Same
<1>6. ASSUME NEW x \in memories'
      PROVE  \E y \in memories : /\ Same(x, y) /\ x.superseded_by = y.superseded_by
                                 /\ IsActive(x)' = IsActive(y)
  <2>1. CASE x = r
    <3>1. x.superseded_by = m.superseded_by
      BY <1>1, <2>1 DEF Live, IsActive
    <3>2. IsActive(x)' = IsActive(m)
      BY <1>1, <2>1, <3>1 DEF IsActive, Same
    <3> QED BY <1>1, <1>3, <2>1, <3>1, <3>2
  <2>2. CASE x \in memories
    BY <1>1, <2>2 DEF Same, IsActive
  <2> QED BY <1>1, <2>1, <2>2
<1>7. NewestLives'
  <2> SUFFICES ASSUME NEW x \in memories', NEW y \in memories',
                      x.slot # UNSLOTTED, x.slot = y.slot, x.id < y.id,
                      IsActive(x)', y.superseded_by = NULL
               PROVE  FALSE
    BY DEF NewestLives
  <2>1. PICK x0 \in memories : Same(x, x0) /\ IsActive(x)' = IsActive(x0)
    BY <1>6
  <2>2. PICK y0 \in memories : Same(y, y0) /\ y.superseded_by = y0.superseded_by
    BY <1>6
  <2> QED BY <1>2, <2>1, <2>2 DEF NewestLives, CalmInv, Same
<1>8. SaidLives'
  <2> SUFFICES ASSUME NEW x \in Live', x.slot # UNSLOTTED
               PROVE  said'[x.slot] # NULL /\ said'[x.slot].value = x.value
    BY DEF SaidLives
  <2>1. PICK y \in Live : Same(x, y)
    BY <1>1 DEF Same
  <2>2. said[y.slot] # NULL /\ said[y.slot].value = y.value
    BY <1>2, <2>1 DEF SaidLives, CalmInv, Same
  <2>3. y.slot \in Slots
    BY <1>3, <2>1 DEF Live, TypeOK, Memory, Same
  <2>4. CASE f.slot = UNSLOTTED \/ y.slot # f.slot
    <3>1. said'[y.slot] = said[y.slot]
      BY <1>1, <1>3, <2>3, <2>4 DEF Stated, TypeOK
    <3> QED BY <2>1, <2>2, <3>1 DEF Same
  <2>5. CASE f.slot # UNSLOTTED /\ y.slot = f.slot
    <3>1. m.slot = f.slot /\ m.value = f.value
      BY <2>5 DEF f
    <3>2. y = m
      BY <1>1, <1>2, <1>3, <2>5, <3>1, OneIsLeft DEF CalmInv
    <3>3. said'[f.slot] # NULL /\ said'[f.slot].value = f.value
      BY <1>1, <1>3, <2>3, <2>5, StatedSlot
    <3> QED BY <2>1, <2>5, <3>1, <3>2, <3>3 DEF Same
  <2> QED BY <2>4, <2>5
<1>9. EndedOK'
  BY <1>1 DEF EndedOK, CalmInv, Same
<1> QED BY <1>4, <1>5, <1>7, <1>8, <1>9 DEF CalmInv

(* A new record is live and the youngest there is.                         *)
LEMMA NewRecord ==
  ASSUME IInv, NEW w \in Workers, NEW i, IsDue(w, i),
         memories' = Put(memories, Build(job[w], Candidate(w, i))), now' = now
  PROVE  LET n == Build(job[w], Candidate(w, i))
         IN /\ n \in Memory /\ n.id = nextId /\ n.superseded_by = NULL
            /\ n.slot = Candidate(w, i).slot /\ n.value = Candidate(w, i).value
            /\ IsActive(n) /\ n \notin memories
            /\ memories' = memories \cup {n} /\ Live' = Live \cup {n}
            /\ \A m \in memories : m.id < n.id /\ m.id \in Nat /\ n.id \in Nat
<1> DEFINE f == Candidate(w, i)
           n == Build(job[w], f)
<1>1. /\ n \in Memory /\ n.id = nextId /\ n.superseded_by = NULL
      /\ n.slot = f.slot /\ n.value = f.value
      /\ TtlOf(job[w], f) \in Nat \cup {NULL} /\ f \in Fact
  BY BuiltRecord DEF IInv
<1>2. n.expires_at = NULL \/ n.expires_at > now
  <2>1. CASE TtlOf(job[w], f) = NULL
    BY <2>1 DEF Build
  <2>2. CASE TtlOf(job[w], f) # NULL
    <3>1. n.expires_at = now + TtlOf(job[w], f)
      BY <2>2 DEF Build
    <3>2. f.ttl # NULL /\ f.ttl > 0 /\ TtlOf(job[w], f) = f.ttl
      BY <2>2 DEF TtlOf
    <3>3. TtlOf(job[w], f) \in Nat /\ TtlOf(job[w], f) > 0 /\ now \in Nat
      BY <1>1, <2>2, <3>2 DEF IInv, TypeOK
    <3> QED BY <3>1, <3>3
  <2> QED BY <2>1, <2>2
<1>3. IsActive(n)
  BY <1>1, <1>2 DEF IsActive
<1>4. \A m \in memories : m.id < nextId /\ m.id \in Nat
  BY WithoutNone DEF IInv, TypeOK, Memory
<1>5. nextId \in Nat
  BY DEF IInv, TypeOK
<1> HIDE DEF n
<1>6. n \notin memories /\ \A m \in memories : m.id < n.id /\ m.id \in Nat /\ n.id \in Nat
  BY <1>1, <1>4, <1>5
<1>7. memories' = memories \cup {n}
  BY <1>1, WithoutNone DEF Put, n
<1>8. Live' = Live \cup {n}
  BY <1>3, <1>7 DEF Live, IsActive
<1> QED BY <1>1, <1>3, <1>6, <1>7, <1>8 DEF n

(* News of a slot: nothing the store holds as live is about it.            *)
LEMMA NewsIsNew ==
  ASSUME IInv, CalmInv, OneWorker, NEW w \in Workers, NEW i, IsDue(w, i),
         IsNews(w, Candidate(w, i))
  PROVE  /\ pc[w] \in {"resolve", "nearest"}
         /\ Candidate(w, i).slot # UNSLOTTED
              => \A m \in Live : m.slot # Candidate(w, i).slot
<1> DEFINE f == Candidate(w, i)
<1>1. pc[w] \in {"resolve", "nearest"}
  BY DEF IsNews
<1>2. existing[w] = Live
  BY <1>1, Resolving
<1>3. pc[w] = "nearest" => f.slot = UNSLOTTED
  BY DEF CalmInv, SearchUnslotted, IsDue
<1>4. f.slot # UNSLOTTED => SameSlot(w, f) = {} \/ existing[w] = {}
  BY <1>3 DEF IsNews
<1> QED BY <1>1, <1>2, <1>4 DEF SameSlot

LEMMA WriteCalm ==
  ASSUME IInv, CalmInv, OneWorker, NEW w \in Workers, NEW i, Write(w, i)
  PROVE  CalmInv'
<1> DEFINE f == Candidate(w, i)
           n == Build(job[w], f)
<1>1. /\ IsDue(w, i) /\ IsNews(w, f)
      /\ memories' = Put(memories, n) /\ nextId' = nextId + 1
      /\ Resolved(w, i, existing[w] \cup {n}) /\ Stated(job[w], f)
      /\ now' = now /\ stale' = stale /\ ended' = ended
  BY DEF Write, KnownAfterWriting
<1>2. /\ n \in Memory /\ n.id = nextId /\ n.superseded_by = NULL
      /\ n.slot = f.slot /\ n.value = f.value /\ IsActive(n) /\ n \notin memories
      /\ memories' = memories \cup {n} /\ Live' = Live \cup {n}
      /\ \A m \in memories : m.id < n.id /\ m.id \in Nat /\ n.id \in Nat
  BY <1>1, NewRecord
<1>3. f \in Fact /\ TypeOK /\ nextId \in Nat /\ n.id \in Nat
  BY <1>1, <1>2, BuiltRecord DEF IInv, TypeOK
<1>4. /\ pc[w] \in {"resolve", "nearest"}
      /\ f.slot # UNSLOTTED => \A m \in Live : m.slot # f.slot
  BY <1>1, NewsIsNew
<1>5. existing[w] = Live /\ \A m : ~BeingRetired(m)
  BY <1>4, Resolving
<1>6. stale'[w] = {}
  BY <1>1, <1>4 DEF IInv, TurnOK
<1> HIDE DEF n, f
<1>7. TurnKnows' /\ SearchUnslotted' /\ \A m : ~BeingRetired(m)'
  BY <1>1, <1>2, <1>3, <1>5, <1>6, ResolvedKnows
<1>8. NoTwins'
  BY <1>2 DEF NoTwins, CalmInv
<1>9. \A m \in memories : IsActive(m)' = IsActive(m)
  BY <1>1 DEF IsActive
<1>10. NewestLives'
  <2> SUFFICES ASSUME NEW x \in memories', NEW y \in memories',
                      x.slot # UNSLOTTED, x.slot = y.slot, x.id < y.id,
                      IsActive(x)', y.superseded_by = NULL
               PROVE  FALSE
    BY DEF NewestLives
  <2>1. x \in memories
    <3>1. ASSUME x = n PROVE FALSE
      <4>1. y = n \/ y \in memories
        BY <1>2
      <4> QED BY <1>2, <1>3, <3>1, <4>1
    <3> QED BY <1>2, <3>1
  <2>2. x \in Live
    BY <1>9, <2>1 DEF Live
  <2>3. CASE y = n
    BY <1>2, <1>4, <2>2, <2>3
  <2>4. CASE y \in memories
    BY <1>5, <1>9, <2>1, <2>4 DEF CalmInv, NewestLives
  <2> QED BY <1>2, <2>3, <2>4
<1>11. SaidLives'
  <2> SUFFICES ASSUME NEW x \in Live', x.slot # UNSLOTTED
               PROVE  said'[x.slot] # NULL /\ said'[x.slot].value = x.value
    BY DEF SaidLives
  <2>1. CASE x = n
    BY <1>1, <1>2, <1>3, <2>1, StatedSlot
  <2>2. CASE x \in Live
    <3>1. x.slot # f.slot /\ x.slot \in Slots
      BY <1>3, <1>4, <2>2 DEF Live, TypeOK, Memory
    <3>2. said[x.slot] # NULL /\ said[x.slot].value = x.value
      BY <1>5, <2>2 DEF SaidLives, CalmInv
    <3>3. said'[x.slot] = said[x.slot]
      BY <1>1, <1>3, <3>1, StatedSlot DEF Stated
    <3> QED BY <3>2, <3>3
  <2> QED BY <1>2, <2>1, <2>2
<1>12. EndedOK'
  BY <1>1, <1>2, <1>3 DEF EndedOK, CalmInv, TypeOK
<1> QED BY <1>7, <1>8, <1>10, <1>11, <1>12 DEF CalmInv

(* The replacement is put next to the live records it retires.             *)
LEMMA ContradictEffect ==
  ASSUME IInv, CalmInv, OneWorker, NEW w \in Workers, NEW i, Contradict(w, i)
  PROVE  LET f == Candidate(w, i)
             n == Build(job[w], f)
         IN /\ f \in Fact /\ f.slot # UNSLOTTED
            /\ n \in Memory /\ n.id = nextId /\ n.superseded_by = NULL
            /\ n.slot = f.slot /\ n.value = f.value /\ IsActive(n) /\ n \notin memories
            /\ memories' = memories \cup {n} /\ Live' = Live \cup {n}
            /\ \A m \in memories : m.id < n.id /\ m.id \in Nat /\ n.id \in Nat
            /\ existing[w] = Live /\ \A m : ~BeingRetired(m)
            /\ SameSlot(w, f) = {m \in Live : m.slot = f.slot}
            /\ \A m \in Live : m.slot = f.slot => m.value # f.value
            /\ Stated(job[w], f)
            /\ now' = now /\ nextId' = nextId + 1 /\ ended' = ended
            /\ existing' = existing /\ pc'[w] = "supersede"
            /\ replacement'[w] = n /\ stale'[w] = SameSlot(w, f)
<1> DEFINE f == Candidate(w, i)
           n == Build(job[w], f)
<1>1. /\ pc[w] = "resolve" /\ IsDue(w, i) /\ f.slot # UNSLOTTED
      /\ Duplicates(w, f) = {}
      /\ memories' = Put(memories, n) /\ nextId' = nextId + 1
      /\ pc' = [pc EXCEPT ![w] = "supersede"]
      /\ replacement' = [replacement EXCEPT ![w] = n]
      /\ stale' = [stale EXCEPT ![w] = SameSlot(w, f)]
      /\ Stated(job[w], f)
      /\ now' = now /\ existing' = existing /\ ended' = ended
  BY DEF Contradict
<1>2. /\ n \in Memory /\ n.id = nextId /\ n.superseded_by = NULL
      /\ n.slot = f.slot /\ n.value = f.value /\ IsActive(n) /\ n \notin memories
      /\ memories' = memories \cup {n} /\ Live' = Live \cup {n}
      /\ \A m \in memories : m.id < n.id /\ m.id \in Nat /\ n.id \in Nat
  BY <1>1, NewRecord
<1>3. f \in Fact
  BY <1>1, BuiltRecord DEF IInv
<1>4. existing[w] = Live /\ \A m : ~BeingRetired(m)
  BY <1>1, Resolving
<1>5. SameSlot(w, f) = {m \in Live : m.slot = f.slot}
  BY <1>4 DEF SameSlot
<1>6. \A m \in Live : m.slot = f.slot => m.value # f.value
  BY <1>1, <1>5 DEF Duplicates
<1> HIDE DEF n, f
<1>7. /\ pc'[w] = "supersede" /\ replacement'[w] = n
      /\ stale'[w] = SameSlot(w, f)
  BY <1>1 DEF IInv, TypeOK
<1> QED BY <1>1, <1>2, <1>3, <1>4, <1>5, <1>6, <1>7 DEF n, f

LEMMA ContradictCalm ==
  ASSUME IInv, CalmInv, OneWorker, NEW w \in Workers, NEW i, Contradict(w, i)
  PROVE  CalmInv'
<1> DEFINE f == Candidate(w, i)
           n == Build(job[w], f)
<1>1. /\ f \in Fact /\ f.slot # UNSLOTTED
      /\ n \in Memory /\ n.id = nextId /\ n.superseded_by = NULL
      /\ n.slot = f.slot /\ n.value = f.value /\ IsActive(n) /\ n \notin memories
      /\ memories' = memories \cup {n} /\ Live' = Live \cup {n}
      /\ \A m \in memories : m.id < n.id /\ m.id \in Nat /\ n.id \in Nat
      /\ existing[w] = Live /\ \A m : ~BeingRetired(m)
      /\ SameSlot(w, f) = {m \in Live : m.slot = f.slot}
      /\ Stated(job[w], f)
      /\ now' = now /\ nextId' = nextId + 1 /\ ended' = ended
      /\ existing' = existing /\ pc'[w] = "supersede"
      /\ replacement'[w] = n /\ stale'[w] = SameSlot(w, f)
  BY ContradictEffect
<1>2. /\ TypeOK /\ nextId \in Nat /\ n.id \in Nat
      /\ \A v \in Workers : v = w
  BY <1>1 DEF IInv, TypeOK, OneWorker
<1> HIDE DEF n, f
<1>3. \A m : BeingRetired(m)' <=> m \in Live /\ m.slot = f.slot
  BY <1>1, <1>2 DEF BeingRetired
<1>4. n \notin Live
  BY <1>1 DEF Live
<1>5. TurnKnows'
  <2>1. {m \in existing'[w] : m.slot = replacement'[w].slot} = SameSlot(w, f)
    BY <1>1
  <2> QED BY <1>1, <1>2, <1>4, <2>1 DEF TurnKnows
<1>6. SearchUnslotted'
  BY <1>1, <1>2 DEF SearchUnslotted
<1>7. NoTwins'
  BY <1>1 DEF NoTwins, CalmInv
<1>8. \A m \in memories : IsActive(m)' = IsActive(m)
  BY <1>1 DEF IsActive
<1>9. NewestLives'
  <2> SUFFICES ASSUME NEW x \in memories', NEW y \in memories',
                      x.slot # UNSLOTTED, x.slot = y.slot, x.id < y.id,
                      IsActive(x)', y.superseded_by = NULL
               PROVE  BeingRetired(x)'
    BY DEF NewestLives
  <2>1. x \in memories
    <3>1. ASSUME x = n PROVE FALSE
      <4>1. y = n \/ y \in memories
        BY <1>1
      <4> QED BY <1>1, <1>2, <3>1, <4>1
    <3> QED BY <1>1, <3>1
  <2>2. x \in Live
    BY <1>8, <2>1 DEF Live
  <2>3. CASE y = n
    BY <1>1, <1>3, <2>2, <2>3
  <2>4. CASE y \in memories
    BY <1>1, <1>8, <2>1, <2>4 DEF CalmInv, NewestLives
  <2> QED BY <1>1, <2>3, <2>4
<1>10. SaidLives'
  <2> SUFFICES ASSUME NEW x \in Live', x.slot # UNSLOTTED, ~BeingRetired(x)'
               PROVE  said'[x.slot] # NULL /\ said'[x.slot].value = x.value
    BY DEF SaidLives
  <2>1. CASE x = n
    BY <1>1, <1>2, <2>1, StatedSlot
  <2>2. CASE x \in Live
    <3>1. x.slot # f.slot /\ x.slot \in Slots
      BY <1>2, <1>3, <2>2 DEF Live, TypeOK, Memory
    <3>2. said[x.slot] # NULL /\ said[x.slot].value = x.value
      BY <1>1, <2>2 DEF SaidLives, CalmInv
    <3>3. said'[x.slot] = said[x.slot]
      BY <1>1, <1>2, <3>1, StatedSlot
    <3> QED BY <3>2, <3>3
  <2> QED BY <1>1, <2>1, <2>2
<1>11. EndedOK'
  BY <1>1, <1>2 DEF EndedOK, CalmInv, TypeOK
<1> QED BY <1>5, <1>6, <1>7, <1>9, <1>10, <1>11 DEF CalmInv

(* Retiring a record: it stays, no longer live, and its replacement is     *)
(* live and younger.                                                       *)
LEMMA SupersedeEffect ==
  ASSUME IInv, CalmInv, OneWorker, NEW w \in Workers, NEW i, NEW m \in stale[w],
         Supersede(w, i, m)
  PROVE  LET new == replacement[w]
             r == [m EXCEPT !.superseded_by = new.id]
         IN /\ m \in Live /\ new \in Live /\ m \in memories /\ new \in memories
            /\ m.id \in Nat /\ new.id \in Nat /\ m.id < new.id /\ m.slot = new.slot
            /\ r \in Memory /\ Same(r, m) /\ r.superseded_by = new.id
            /\ r.superseded_by # NULL /\ r.importance = m.importance
            /\ memories' = (memories \ {m}) \cup {r}
            /\ Live' = Live \ {m}
            /\ ended' = ended \cup {m.id} /\ now' = now /\ nextId' = nextId
            /\ said' = said
            /\ stale' = [stale EXCEPT ![w] = @ \ {m}]
            /\ \/ stale[w] = {m} /\ Resolved(w, i, Live')
               \/ /\ existing' = [existing EXCEPT ![w] = @ \ {m}]
                  /\ UNCHANGED <<pc, replacement>> /\ pc[w] = "supersede"
<1> DEFINE new == replacement[w]
           r == [m EXCEPT !.superseded_by = new.id]
           rest == KnownAfterRetiring(w, m)
<1>1. /\ pc[w] = "supersede"
      /\ memories' = Put(memories, r)
      /\ ended' = ended \cup {m.id} /\ now' = now /\ nextId' = nextId
      /\ said' = said
      /\ stale' = [stale EXCEPT ![w] = @ \ {m}]
      /\ \/ stale[w] = {m} /\ Resolved(w, i, rest \cup {new})
         \/ /\ existing' = [existing EXCEPT ![w] = rest]
            /\ UNCHANGED <<pc, replacement>>
  BY DEF Supersede
<1>2. /\ new \in Live /\ new \notin existing[w]
      /\ Live = existing[w] \cup {new}
      /\ stale[w] = {x \in existing[w] : x.slot = new.slot}
  BY <1>1 DEF CalmInv, TurnKnows
<1>3. Live \subseteq memories /\ \A x \in Live : IsActive(x)
  BY DEF Live
<1>4. m \in Live /\ m \in existing[w] /\ m # new /\ m.slot = new.slot
  BY <1>2
<1>5. m \in memories /\ new \in memories /\ m \in Memory /\ new \in Memory
  BY <1>2, <1>3, <1>4 DEF IInv, TypeOK
<1>6. m.id \in Nat /\ new.id \in Nat /\ m.id < new.id
  BY <1>5 DEF Memory, IInv, TurnOK
<1>7. r \in Memory /\ Same(r, m) /\ r.superseded_by = new.id
  BY <1>5, <1>6, RetiredIsMemory
<1>8. r.superseded_by # NULL /\ r.importance = m.importance
  BY <1>5, <1>6, <1>7, ConstantsAssumption DEF Memory
<1>9. rest = existing[w] \ {m}
  <2>1. existing[w] \subseteq memories
    BY <1>2, <1>3
  <2> QED BY <1>4, <2>1, WithoutOne DEF KnownAfterRetiring, CalmInv
<1> HIDE DEF new, r, rest
<1>10. memories' = (memories \ {m}) \cup {r}
  BY <1>1, <1>5, <1>7, WithoutOne DEF Put, Same, CalmInv
<1>11. Live' = Live \ {m}
  BY <1>1, <1>8, <1>10 DEF Live, IsActive
<1>12. rest \cup {new} = Live'
  BY <1>2, <1>4, <1>9, <1>11
<1>13. \/ stale[w] = {m} /\ Resolved(w, i, Live')
       \/ /\ existing' = [existing EXCEPT ![w] = @ \ {m}]
          /\ UNCHANGED <<pc, replacement>> /\ pc[w] = "supersede"
  BY <1>1, <1>9, <1>12
<1> QED
  BY <1>1, <1>2, <1>4, <1>5, <1>6, <1>7, <1>8, <1>10, <1>11, <1>13 DEF new, r

LEMMA SupersedeCalm ==
  ASSUME IInv, CalmInv, OneWorker, NEW w \in Workers, NEW i, NEW m \in stale[w],
         Supersede(w, i, m)
  PROVE  CalmInv'
<1> DEFINE new == replacement[w]
           r == [m EXCEPT !.superseded_by = new.id]
<1>1. /\ m \in Live /\ new \in Live /\ m \in memories /\ new \in memories
      /\ m.id \in Nat /\ new.id \in Nat /\ m.id < new.id /\ m.slot = new.slot
      /\ r \in Memory /\ Same(r, m) /\ r.superseded_by = new.id
      /\ r.superseded_by # NULL
      /\ memories' = (memories \ {m}) \cup {r}
      /\ Live' = Live \ {m}
      /\ ended' = ended \cup {m.id} /\ now' = now /\ nextId' = nextId
      /\ said' = said
      /\ stale' = [stale EXCEPT ![w] = @ \ {m}]
      /\ \/ stale[w] = {m} /\ Resolved(w, i, Live')
         \/ /\ existing' = [existing EXCEPT ![w] = @ \ {m}]
            /\ UNCHANGED <<pc, replacement>> /\ pc[w] = "supersede"
  BY SupersedeEffect
<1>2. TypeOK /\ \A v \in Workers : v = w
  BY DEF IInv, OneWorker
<1>3. /\ pc[w] = "supersede" /\ new \notin existing[w]
      /\ Live = existing[w] \cup {new}
      /\ stale[w] = {x \in existing[w] : x.slot = new.slot}
  BY DEF Supersede, CalmInv, TurnKnows
<1> HIDE DEF new, r
<1>4. stale'[w] = stale[w] \ {m}
  BY <1>1, <1>2 DEF TypeOK
<1>5. \A x : x # m /\ BeingRetired(x) => BeingRetired(x)'
  BY <1>2, <1>4 DEF BeingRetired
<1>6. \A x : BeingRetired(x)' => BeingRetired(x)
  BY <1>2, <1>4 DEF BeingRetired
<1>7. TurnKnows' /\ SearchUnslotted'
  <2>1. CASE stale[w] = {m} /\ Resolved(w, i, Live')
    BY <1>2, <1>4, <2>1, ResolvedKnows
  <2>2. CASE /\ existing' = [existing EXCEPT ![w] = @ \ {m}]
             /\ UNCHANGED <<pc, replacement>> /\ pc[w] = "supersede"
    <3>1. existing'[w] = existing[w] \ {m} /\ pc'[w] = "supersede" /\ replacement'[w] = new
      BY <1>2, <2>2 DEF TypeOK, new
    <3>2. m # new
      BY <1>1
    <3>3. Live' = existing'[w] \cup {new} /\ new \in Live' /\ new \notin existing'[w]
      BY <1>1, <1>3, <3>1, <3>2
    <3>4. stale'[w] = {x \in existing'[w] : x.slot = new.slot}
      BY <1>3, <1>4, <3>1
    <3> QED BY <1>2, <3>1, <3>3, <3>4 DEF TurnKnows, SearchUnslotted
  <2> QED BY <1>1, <2>1, <2>2
<1>8. NoTwins'
  BY <1>1 DEF NoTwins, CalmInv, Same
<1>9. NewestLives'
  <2> SUFFICES ASSUME NEW x \in memories', NEW y \in memories',
                      x.slot # UNSLOTTED, x.slot = y.slot, x.id < y.id,
                      IsActive(x)', y.superseded_by = NULL
               PROVE  BeingRetired(x)'
    BY DEF NewestLives
  <2>1. x \in memories /\ x # m /\ IsActive(x)
    BY <1>1 DEF IsActive
  <2>2. y \in memories
    BY <1>1
  <2>3. BeingRetired(x)
    BY <2>1, <2>2 DEF NewestLives, CalmInv
  <2> QED BY <1>5, <2>1, <2>3
<1>10. SaidLives'
  BY <1>1, <1>5 DEF SaidLives, CalmInv
<1>11. EndedOK'
  <2>1. m.id < nextId
    BY <1>1, WithoutNone
  <2>2. \A x \in memories' : x.id = m.id => x.superseded_by # NULL
    BY <1>1 DEF CalmInv, NoTwins
  <2> QED BY <1>1, <2>1, <2>2 DEF EndedOK, CalmInv, Same
<1> QED BY <1>7, <1>8, <1>9, <1>10, <1>11 DEF CalmInv

(* The page a turn reads is the store.                                     *)
LEMMA BeginTurnCalm ==
  ASSUME IInv, CalmInv, OneWorker, StoreFits, NEW w \in Workers, NEW t \in Turns,
         BeginTurn(w, t)
  PROVE  CalmInv'
<1>1. /\ pc[w] = "idle" /\ pc' = [pc EXCEPT ![w] = "resolve"]
      /\ existing' = [existing EXCEPT ![w] = Live]
      /\ memories' = memories /\ nextId' = nextId /\ now' = now /\ said' = said
      /\ ended' = ended /\ stale' = stale /\ replacement' = replacement
  BY DEF BeginTurn, StoreFits, Listed, ActiveMemories, Live, storeVars, history
<1>2. replacement[w] = NULL /\ TypeOK /\ \A v \in Workers : v = w
  BY <1>1 DEF CalmInv, TurnKnows, IInv, OneWorker
<1>3. Live' = Live /\ \A x : /\ BeingRetired(x)' = BeingRetired(x)
                             /\ IsActive(x)' = IsActive(x)
  BY <1>1 DEF Live, IsActive, BeingRetired
<1>4. pc'[w] = "resolve" /\ existing'[w] = Live' /\ replacement'[w] = NULL
  BY <1>1, <1>2, <1>3 DEF TypeOK
<1>5. TurnKnows' /\ SearchUnslotted'
  BY <1>2, <1>4 DEF TurnKnows, SearchUnslotted
<1>6. NoTwins' /\ NewestLives' /\ SaidLives' /\ EndedOK'
  BY <1>1, <1>3 DEF CalmInv, NoTwins, NewestLives, SaidLives, EndedOK
<1> QED BY <1>5, <1>6 DEF CalmInv

LEMMA NearestCalm ==
  ASSUME IInv, CalmInv, OneWorker, NEW w \in Workers, NEW i, Nearest(w, i)
  PROVE  CalmInv'
<1>1. /\ pc[w] = "resolve" /\ pc' = [pc EXCEPT ![w] = "nearest"]
      /\ IsDue(w, i) /\ Candidate(w, i).slot = UNSLOTTED
      /\ job' = job /\ left' = left /\ existing' = existing
      /\ memories' = memories /\ nextId' = nextId /\ now' = now /\ said' = said
      /\ ended' = ended /\ stale' = stale /\ replacement' = replacement
  BY DEF Nearest, storeVars, history
<1>2. TypeOK /\ \A v \in Workers : v = w
  BY DEF IInv, OneWorker
<1>3. Live' = Live /\ \A x : /\ BeingRetired(x)' = BeingRetired(x)
                             /\ IsActive(x)' = IsActive(x)
  BY <1>1 DEF Live, IsActive, BeingRetired
<1>4. pc'[w] = "nearest" /\ existing'[w] = Live' /\ replacement'[w] = NULL
  BY <1>1, <1>2, <1>3 DEF TypeOK, CalmInv, TurnKnows
<1>5. TurnKnows'
  BY <1>2, <1>4 DEF TurnKnows
<1>6. SearchUnslotted'
  <2> SUFFICES ASSUME NEW j \in left[w], IsDue(w, j)
               PROVE  Candidate(w, j).slot = UNSLOTTED
    BY <1>1, <1>2 DEF SearchUnslotted, IsDue, Candidate
  <2>1. i \in Nat /\ j \in Nat /\ i <= j /\ j <= i
    BY <1>1, <1>2 DEF IsDue, TypeOK
  <2> QED BY <1>1, <2>1
<1>7. NoTwins' /\ NewestLives' /\ SaidLives' /\ EndedOK'
  BY <1>1, <1>3 DEF CalmInv, NoTwins, NewestLives, SaidLives, EndedOK
<1> QED BY <1>5, <1>6, <1>7 DEF CalmInv
------------------------------------------------------------------------------
(* Between turns.                                                          *)

LEMMA QuietTurns ==
  ASSUME IInv, CalmInv, Quiet
  PROVE  /\ \A w \in Workers : /\ pc[w] = "idle" /\ existing[w] = {}
                               /\ replacement[w] = NULL /\ stale[w] = {}
         /\ \A m : ~BeingRetired(m)
<1>1. \A w \in Workers : /\ pc[w] = "idle" /\ existing[w] = {}
                         /\ replacement[w] = NULL /\ stale[w] = {}
  BY DEF Quiet, CalmInv, TurnKnows, IInv, TurnOK
<1> QED BY <1>1 DEF BeingRetired

(* Steps of neither a turn nor the store keep what turns know.             *)
LEMMA IdleKnows ==
  ASSUME IInv, CalmInv, Quiet, UNCHANGED turnVars
  PROVE  TurnKnows' /\ SearchUnslotted' /\ \A m : ~BeingRetired(m)'
<1>1. UNCHANGED <<pc, existing, replacement, stale>>
  BY DEF turnVars
<1> QED BY <1>1, QuietTurns DEF TurnKnows, SearchUnslotted, BeingRetired

LEMMA ForgetEffect ==
  ASSUME IInv, CalmInv, Quiet, NEW m \in memories, Forget(m)
  PROVE  /\ memories' = memories \ {m} /\ Live' = Live \ {m}
         /\ now' = now /\ nextId' = nextId /\ ended' = ended \cup {m.id}
         /\ said' = IF m.slot # UNSLOTTED /\ IsActive(m)
                      THEN [said EXCEPT ![m.slot] = NULL] ELSE said
         /\ UNCHANGED turnVars
<1>1. /\ memories' = Without(memories, m.id) /\ now' = now /\ nextId' = nextId
      /\ ended' = ended \cup {m.id}
      /\ said' = IF m.slot # UNSLOTTED /\ IsActive(m)
                   THEN [said EXCEPT ![m.slot] = NULL] ELSE said
      /\ UNCHANGED turnVars
  BY DEF Forget
<1>2. memories' = memories \ {m}
  BY <1>1, WithoutOne DEF CalmInv
<1>3. Live' = Live \ {m}
  BY <1>1, <1>2 DEF Live, IsActive
<1> QED BY <1>1, <1>2, <1>3

LEMMA ForgetCalm ==
  ASSUME IInv, CalmInv, Quiet, NEW m \in memories, Forget(m)
  PROVE  CalmInv'
<1>1. /\ memories' = memories \ {m} /\ Live' = Live \ {m}
      /\ now' = now /\ nextId' = nextId /\ ended' = ended \cup {m.id}
      /\ said' = IF m.slot # UNSLOTTED /\ IsActive(m)
                   THEN [said EXCEPT ![m.slot] = NULL] ELSE said
      /\ UNCHANGED turnVars
  BY ForgetEffect
<1>2. TurnKnows' /\ SearchUnslotted' /\ (\A x : ~BeingRetired(x)) /\ TypeOK
  BY <1>1, IdleKnows, QuietTurns DEF IInv
<1>3. NoTwins'
  BY <1>1 DEF NoTwins, CalmInv
<1>4. \A x : IsActive(x)' = IsActive(x)
  BY <1>1 DEF IsActive
<1>5. NewestLives'
  BY <1>1, <1>2, <1>4 DEF NewestLives, CalmInv
<1>6. SaidLives'
  <2> SUFFICES ASSUME NEW x \in Live', x.slot # UNSLOTTED
               PROVE  said'[x.slot] # NULL /\ said'[x.slot].value = x.value
    BY DEF SaidLives
  <2>1. x \in Live /\ x # m /\ x.slot \in Slots
    BY <1>1, <1>2 DEF Live, TypeOK, Memory
  <2>2. said[x.slot] # NULL /\ said[x.slot].value = x.value
    BY <1>2, <2>1 DEF SaidLives, CalmInv
  <2>3. ~(IsActive(m) /\ m.slot = x.slot)
    BY <1>2, <2>1, OneIsLeft DEF CalmInv, Live
  <2>4. said'[x.slot] = said[x.slot]
    BY <1>1, <1>2, <2>1, <2>3 DEF TypeOK
  <2> QED BY <2>2, <2>4
<1>7. EndedOK'
  <2>1. m.id < nextId
    BY WithoutNone
  <2> QED BY <1>1, <2>1 DEF EndedOK, CalmInv, NoTwins
<1> QED BY <1>2, <1>3, <1>5, <1>6, <1>7 DEF CalmInv

LEMMA TickCalm ==
  ASSUME IInv, CalmInv, Quiet, Tick
  PROVE  CalmInv'
<1>1. /\ now' = now + 1 /\ memories' = memories /\ nextId' = nextId
      /\ said' = said /\ ended' = ended /\ UNCHANGED turnVars
  BY DEF Tick, storeVars, history
<1>2. TurnKnows' /\ SearchUnslotted' /\ (\A x : ~BeingRetired(x)) /\ TypeOK
  BY <1>1, IdleKnows, QuietTurns DEF IInv
<1>3. \A x \in memories : IsActive(x)' => IsActive(x)
  BY <1>1, <1>2, ConstantsAssumption DEF IsActive, TypeOK, Memory
<1>4. Live' \subseteq Live
  BY <1>1, <1>3 DEF Live
<1>5. NewestLives'
  BY <1>1, <1>2, <1>3 DEF NewestLives, CalmInv
<1>6. SaidLives'
  BY <1>1, <1>2, <1>4 DEF SaidLives, CalmInv
<1>7. NoTwins' /\ EndedOK'
  BY <1>1 DEF NoTwins, EndedOK, CalmInv
<1> QED BY <1>2, <1>5, <1>6, <1>7 DEF CalmInv

(* Steps that change neither the store, the clock nor the turns.           *)
LEMMA OtherCalm ==
  ASSUME CalmInv, UNCHANGED <<memories, nextId, now, turnVars, history>>
  PROVE  CalmInv'
<1> USE DEF turnVars, history
<1>1. Live' = Live /\ \A x : /\ BeingRetired(x)' = BeingRetired(x)
                             /\ IsActive(x)' = IsActive(x)
  BY DEF Live, IsActive, BeingRetired
<1>2. NoTwins' /\ TurnKnows' /\ NewestLives' /\ SaidLives' /\ EndedOK'
  BY <1>1 DEF CalmInv, NoTwins, TurnKnows, NewestLives, SaidLives, EndedOK
<1>3. SearchUnslotted'
  BY DEF CalmInv, SearchUnslotted, IsDue, Candidate
<1> QED BY <1>2, <1>3 DEF CalmInv
------------------------------------------------------------------------------
LEMMA CalmInit == Init => CalmInv
<1> SUFFICES ASSUME Init PROVE CalmInv
  OBVIOUS
<1>1. Live = {}
  BY DEF Live, Init
<1> QED
  BY <1>1
  DEF Init, CalmInv, NoTwins, TurnKnows, NewestLives, SaidLives, EndedOK, SearchUnslotted

LEMMA CalmStep ==
  OneWorker /\ IInv /\ CalmInv /\ StoreFits /\ [CalmNext]_vars => CalmInv'
<1> SUFFICES ASSUME OneWorker, IInv, CalmInv, StoreFits, [CalmNext]_vars
             PROVE  CalmInv'
  OBVIOUS
<1>1. CASE UNCHANGED vars
  BY <1>1, OtherCalm DEF vars, storeVars
<1>2. ASSUME NEW w \in Workers, NEW t \in Turns, BeginTurn(w, t) PROVE CalmInv'
  BY <1>2, BeginTurnCalm
<1>3. ASSUME NEW w \in Workers, NEW i, RestateSlot(w, i) PROVE CalmInv'
  <2>1. PICK m \in Duplicates(w, Candidate(w, i)) : Reinforce(w, i, m)
    BY <1>3 DEF RestateSlot
  <2>2. /\ m \in existing[w] /\ m.slot = Candidate(w, i).slot
        /\ m.value = Candidate(w, i).value
    BY <2>1 DEF Duplicates, SameSlot
  <2>3. pc[w] = "resolve" /\ IsDue(w, i)
    BY <1>3 DEF RestateSlot
  <2> QED BY <2>1, <2>2, <2>3, ReinforceCalm
<1>4. ASSUME NEW w \in Workers, NEW i, Contradict(w, i) PROVE CalmInv'
  BY <1>4, ContradictCalm
<1>5. ASSUME NEW w \in Workers, NEW i, NEW m \in stale[w], Supersede(w, i, m)
      PROVE  CalmInv'
  BY <1>5, SupersedeCalm
<1>6. ASSUME NEW w \in Workers, NEW i, Nearest(w, i) PROVE CalmInv'
  BY <1>6, NearestCalm
<1>7. ASSUME NEW w \in Workers, NEW i, RestateText(w, i) PROVE CalmInv'
  <2>1. /\ pc[w] = "nearest" /\ IsDue(w, i) /\ match[w] \in existing[w]
        /\ Reinforce(w, i, match[w])
    BY <1>7 DEF RestateText, IInv, TurnOK
  <2>2. Candidate(w, i).slot = UNSLOTTED
    BY <2>1 DEF CalmInv, SearchUnslotted, IsDue
  <2> QED BY <2>1, <2>2, ReinforceCalm
<1>8. ASSUME NEW w \in Workers, NEW i, Write(w, i) PROVE CalmInv'
  BY <1>8, WriteCalm
<1>9. ASSUME Quiet, NEW m \in memories, Forget(m) PROVE CalmInv'
  BY <1>9, ForgetCalm
<1>10. ASSUME Quiet, Tick PROVE CalmInv'
  BY <1>10, TickCalm
<1>11. ASSUME NEW t \in Turns, Quarantine(t) PROVE CalmInv'
  BY <1>11, OtherCalm DEF Quarantine
<1> QED
  BY <1>1, <1>2, <1>3, <1>4, <1>5, <1>6, <1>7, <1>8, <1>9, <1>10, <1>11
  DEF CalmNext, TurnStep, Resolve, Between

LEMMA CalmIsNext == [CalmNext]_vars => [Next]_vars
BY DEF CalmNext, Next

(* The inductive invariant of turns that run one after the other.          *)
THEOREM CalmInvariance ==
  OneWorker => (CalmSpec /\ []StoreFits => [](IInv /\ CalmInv))
<1> SUFFICES ASSUME OneWorker PROVE CalmSpec /\ []StoreFits => [](IInv /\ CalmInv)
  OBVIOUS
<1>1. CalmSpec => Spec
  BY CalmIsNext, PTL DEF CalmSpec, Spec
<1>2. IInv /\ CalmInv /\ StoreFits /\ [CalmNext]_vars => CalmInv'
  BY CalmStep
<1> QED BY <1>1, <1>2, CalmInit, Invariance, PTL DEF CalmSpec

(* One memory per slot: two live records share a slot only while the turn  *)
(* that wrote the newer one is still retiring the older.                   *)
THEOREM SlotsHoldOne ==
  OneWorker => (CalmSpec /\ []StoreFits => []OneLivePerSlot)
<1> SUFFICES ASSUME OneWorker PROVE CalmSpec /\ []StoreFits => []OneLivePerSlot
  OBVIOUS
<1>1. ASSUME IInv, CalmInv PROVE OneLivePerSlot
  <2> SUFFICES ASSUME NEW a \in memories, NEW b \in memories,
                      a.slot # UNSLOTTED, a.slot = b.slot, IsActive(a), IsActive(b),
                      ~\E w \in Workers : stale[w] \cap {a, b} # {}
               PROVE  a.id = b.id
    BY DEF OneLivePerSlot
  <2>1. ~BeingRetired(a) /\ ~BeingRetired(b)
    BY DEF BeingRetired
  <2> QED BY <1>1, <2>1, OneIsLeft DEF IInv, CalmInv, Live
<1>2. IInv /\ CalmInv => OneLivePerSlot
  BY <1>1
<1> QED BY <1>2, CalmInvariance, PTL

(* What was superseded or forgotten is never live again.                   *)
THEOREM EndedForGood ==
  OneWorker => (CalmSpec /\ []StoreFits => []EndedStaysEnded)
<1> SUFFICES ASSUME OneWorker PROVE CalmSpec /\ []StoreFits => []EndedStaysEnded
  OBVIOUS
<1>1. CalmInv => EndedStaysEnded
  BY DEF CalmInv, EndedOK, EndedStaysEnded
<1> QED BY <1>1, CalmInvariance, PTL
------------------------------------------------------------------------------
(* What a step of a calm write path does to the records.                   *)

Adds(n) ==
  /\ memories' = memories \cup {n}
  /\ n.id \in Nat /\ \A m \in memories : m.id < n.id /\ m.id \in Nat

Changes(m, r) ==
  /\ m \in memories /\ Same(r, m) /\ m.importance <= r.importance
  /\ memories' = (memories \ {m}) \cup {r}

RecordsStep ==
  \/ memories' \subseteq memories
  \/ \E n : Adds(n)
  \/ \E m, r : Changes(m, r)

LEMMA CalmRecords ==
  ASSUME OneWorker, IInv, CalmInv, [CalmNext]_vars
  PROVE  RecordsStep
<1>1. CASE UNCHANGED vars
  BY <1>1 DEF vars, storeVars, RecordsStep
<1>2. ASSUME NEW w \in Workers, NEW t \in Turns, BeginTurn(w, t) PROVE RecordsStep
  BY <1>2 DEF BeginTurn, storeVars, RecordsStep
<1>3. ASSUME NEW w \in Workers, NEW i, NEW m \in existing[w], IsDue(w, i),
             pc[w] \in {"resolve", "nearest"}, Reinforce(w, i, m)
      PROVE  RecordsStep
  <2>1. Changes(m, Reinforced(m))
    BY <1>3, ReinforceEffect DEF Changes, Live
  <2> QED BY <2>1 DEF RecordsStep
<1>4. ASSUME NEW w \in Workers, NEW i, RestateSlot(w, i) PROVE RecordsStep
  BY <1>3, <1>4 DEF RestateSlot, Duplicates, SameSlot
<1>5. ASSUME NEW w \in Workers, NEW i, RestateText(w, i) PROVE RecordsStep
  BY <1>3, <1>5 DEF RestateText, IInv, TurnOK
<1>6. ASSUME NEW w \in Workers, NEW i, Contradict(w, i) PROVE RecordsStep
  <2>1. Adds(Build(job[w], Candidate(w, i)))
    BY <1>6, ContradictEffect DEF Adds, Memory
  <2> QED BY <2>1 DEF RecordsStep
<1>7. ASSUME NEW w \in Workers, NEW i, NEW m \in stale[w], Supersede(w, i, m)
      PROVE  RecordsStep
  <2> DEFINE r == [m EXCEPT !.superseded_by = replacement[w].id]
  <2>1. /\ m \in memories /\ Same(r, m) /\ r.importance = m.importance
        /\ memories' = (memories \ {m}) \cup {r}
    BY <1>7, SupersedeEffect
  <2>2. m.importance \in Nat
    BY <2>1 DEF IInv, TypeOK, Memory, MaxImportance
  <2> HIDE DEF r
  <2>3. Changes(m, r)
    BY <2>1, <2>2 DEF Changes
  <2> QED BY <2>3 DEF RecordsStep
<1>8. ASSUME NEW w \in Workers, NEW i, Nearest(w, i) PROVE RecordsStep
  BY <1>8 DEF Nearest, storeVars, RecordsStep
<1>9. ASSUME NEW w \in Workers, NEW i, Write(w, i) PROVE RecordsStep
  <2>1. Adds(Build(job[w], Candidate(w, i)))
    BY <1>9, NewRecord DEF Adds, Write, Memory
  <2> QED BY <2>1 DEF RecordsStep
<1>10. CASE Quiet /\ Between
  BY <1>10, ForgetEffect DEF Between, Quarantine, Tick, storeVars, RecordsStep
<1> QED
  BY <1>1, <1>2, <1>4, <1>5, <1>6, <1>7, <1>8, <1>9, <1>10
  DEF CalmNext, TurnStep, Resolve

(* No step takes back a reinforcement.                                     *)
THEOREM RestatingCounts ==
  OneWorker => (CalmSpec /\ []StoreFits => ImportanceNeverDrops)
<1> SUFFICES ASSUME OneWorker PROVE CalmSpec /\ []StoreFits => ImportanceNeverDrops
  OBVIOUS
<1>1. ASSUME IInv, CalmInv, [CalmNext]_vars,
             NEW m \in memories, NEW n \in memories', m.id = n.id
      PROVE  m.importance <= n.importance
  <2>1. RecordsStep /\ m.importance \in Nat
    BY <1>1, CalmRecords DEF IInv, TypeOK, Memory, MaxImportance
  <2>2. CASE n \in memories
    BY <1>1, <2>1, <2>2 DEF CalmInv, NoTwins
  <2>3. CASE n \notin memories
    <3>1. CASE \E x : Adds(x)
      BY <1>1, <2>3, <3>1 DEF Adds
    <3>2. CASE \E x, r : Changes(x, r)
      <4>1. PICK x, r : Changes(x, r)
        BY <3>2
      <4>2. n = r /\ x.id = m.id /\ x \in memories
        BY <1>1, <2>3, <4>1 DEF Changes, Same
      <4>3. x = m
        BY <1>1, <4>2 DEF CalmInv, NoTwins
      <4> QED BY <4>1, <4>2, <4>3 DEF Changes
    <3> QED BY <2>1, <2>3, <3>1, <3>2 DEF RecordsStep
  <2> QED BY <2>2, <2>3
<1>2. IInv /\ CalmInv /\ [CalmNext]_vars =>
        [\A m \in memories, n \in memories' :
           m.id = n.id => m.importance <= n.importance]_vars
  BY <1>1
<1> QED BY <1>2, CalmInvariance, PTL DEF CalmSpec, ImportanceNeverDrops
------------------------------------------------------------------------------
(* Duplicates by similarity.                                               *)

(* A set of scores has a highest one.                                      *)
LEMMA HighestScore ==
  ASSUME NEW S \in SUBSET Memory, S # {}, NEW t \in Texts
  PROVE  \E m \in S : \A x \in S : Cosine[t][TextOf(x)] <= Cosine[t][TextOf(m)]
<1> DEFINE gap(m) == 100 - Cosine[t][TextOf(m)]
           T == {gap(m) : m \in S}
<1>1. \A m \in S : Cosine[t][TextOf(m)] \in -100..100
  BY SimilarityAssumption DEF Texts, TextOf, Memory
<1>2. \A m \in S : gap(m) \in Nat
  BY <1>1
<1>3. T \in SUBSET Nat /\ T # {}
  BY <1>2
<1> HIDE DEF T
<1>4. PICK g \in T : \A h \in T : g <= h
  BY <1>3, FirstOf
<1>5. PICK m \in S : g = gap(m)
  BY DEF T
<1>6. \A x \in S : gap(m) <= gap(x)
  BY <1>4, <1>5 DEF T
<1>7. ASSUME NEW x \in S
      PROVE  Cosine[t][TextOf(x)] <= Cosine[t][TextOf(m)]
  <2>1. gap(m) <= gap(x)
    BY <1>6
  <2>2. Cosine[t][TextOf(x)] \in Int /\ Cosine[t][TextOf(m)] \in Int
    BY <1>1
  <2> QED BY <2>1, <2>2
<1> QED BY <1>7

DedupeInv == SearchExact /\ NoNearDuplicates

(* A search that finds nothing was near nothing the turn knows.            *)
LEMMA NearestDedupe ==
  ASSUME IInv, CalmInv, OneWorker, SearchFits, DedupeSimilarity > 0,
         NEW w \in Workers, NEW i, Nearest(w, i)
  PROVE  SearchExact'
<1> DEFINE f == Candidate(w, i)
           score(m) == Cosine[TextOf(f)][TextOf(m)]
<1>1. /\ pc[w] = "resolve" /\ IsDue(w, i)
      /\ job' = job /\ left' = left /\ existing' = existing
  BY DEF Nearest
<1>2. TypeOK /\ (\A v \in Workers : v = w) /\ f \in Fact
  BY <1>1, BuiltRecord DEF IInv, OneWorker
<1>3. TextOf(f) \in Texts /\ \A m \in Memory : TextOf(m) \in Texts
  BY <1>2 DEF Fact, Memory, Texts, TextOf
<1>4. existing[w] \subseteq memories /\ existing[w] \in SUBSET Memory
  BY <1>1, <1>2, Resolving DEF TypeOK
<1>5. \A m \in existing[w] : score(m) \in -100..100
  BY <1>3, <1>4, SimilarityAssumption
<1>6. DedupeSimilarity \in 0..100
  BY ConstantsAssumption
<1>7. TopRanked(memories, TextOf(f), DedupeCandidates) = {memories}
  BY DEF TopRanked, Listed, SearchFits
<1>8. /\ NearestOf(w, f, memories) = {} => match'[w] = NULL
      /\ NearestOf(w, f, memories) # {} => match'[w] \in NearestOf(w, f, memories)
  BY <1>2, <1>7 DEF Nearest, TypeOK
<1>9. NearestOf(w, f, memories) =
        {m \in existing[w] : IsNear(score(m)) /\ \A x \in existing[w] : score(x) <= score(m)}
  BY <1>4 DEF NearestOf
<1>10. ASSUME match'[w] = NULL, NEW m \in existing[w]
       PROVE  score(m) < DedupeSimilarity
  <2>1. NearestOf(w, f, memories) = {}
    BY <1>4, <1>8, <1>9, <1>10, ConstantsAssumption
  <2>2. PICK top \in existing[w] : \A x \in existing[w] : score(x) <= score(top)
    BY <1>3, <1>4, <1>10, HighestScore
  <2>3. ~IsNear(score(top))
    BY <1>9, <2>1, <2>2
  <2>4. score(m) <= score(top) /\ score(m) \in -100..100 /\ score(top) \in -100..100
    BY <1>5, <1>10, <2>2
  <2> HIDE DEF score
  <2> QED BY <1>6, <2>3, <2>4 DEF IsNear
<1>11. ASSUME NEW j \in left[w], IsDue(w, j) PROVE j = i
  BY <1>1, <1>2, <1>11 DEF IsDue, TypeOK
<1> QED BY <1>1, <1>2, <1>10, <1>11 DEF SearchExact, IsDue, Candidate

(* No search is under way.                                                 *)
LEMMA NoSearch ==
  ASSUME OneWorker, NEW w \in Workers, pc'[w] # "nearest"
  PROVE  SearchExact'
BY DEF SearchExact, OneWorker

LEMMA ChangeDedupe ==
  ASSUME IInv, NoNearDuplicates, now' = now, NEW m, NEW r, Changes(m, r),
         IsActive(r)' => IsActive(m)
  PROVE  NoNearDuplicates'
<1>1. ASSUME NEW x \in memories'
      PROVE  \E y \in memories : Same(x, y) /\ (IsActive(x)' => IsActive(y))
  BY DEF Changes, Same, IsActive
<1> SUFFICES ASSUME NEW a \in memories', NEW b \in memories',
                    b.slot = UNSLOTTED, a.id < b.id, IsActive(a)', IsActive(b)'
             PROVE  Cosine[TextOf(b)][TextOf(a)] < DedupeSimilarity
  BY DEF NoNearDuplicates, TextOf
<1>2. PICK a0 \in memories : Same(a, a0) /\ IsActive(a0)
  BY <1>1
<1>3. PICK b0 \in memories : Same(b, b0) /\ IsActive(b0)
  BY <1>1
<1>4. Cosine[TextOf(b0)][TextOf(a0)] < DedupeSimilarity
  BY <1>2, <1>3 DEF NoNearDuplicates, Same
<1> QED BY <1>2, <1>3, <1>4 DEF Same, TextOf

LEMMA AddDedupe ==
  ASSUME IInv, NoNearDuplicates, now' = now, NEW n, Adds(n),
         n.slot = UNSLOTTED =>
           \A m \in Live : Cosine[TextOf(n)][TextOf(m)] < DedupeSimilarity
  PROVE  NoNearDuplicates'
<1> SUFFICES ASSUME NEW a \in memories', NEW b \in memories',
                    b.slot = UNSLOTTED, a.id < b.id, IsActive(a)', IsActive(b)'
             PROVE  Cosine[TextOf(b)][TextOf(a)] < DedupeSimilarity
  BY DEF NoNearDuplicates, TextOf
<1>1. a \in memories
  <2>1. ASSUME a = n PROVE FALSE
    <3>1. b = n \/ b \in memories
      BY DEF Adds
    <3>2. CASE b = n
      BY <2>1, <3>2 DEF Adds
    <3>3. CASE b \in memories
      BY <2>1, <3>3 DEF Adds
    <3> QED BY <3>1, <3>2, <3>3
  <2> QED BY <2>1 DEF Adds
<1>2. IsActive(a) /\ a \in Live
  BY <1>1 DEF IsActive, Live
<1>3. CASE b = n
  BY <1>2, <1>3
<1>4. CASE b \in memories
  <2>1. IsActive(b)
    BY DEF IsActive
  <2> QED BY <1>1, <1>2, <1>4, <2>1 DEF NoNearDuplicates
<1> QED BY <1>3, <1>4 DEF Adds

LEMMA WriteDedupe ==
  ASSUME IInv, CalmInv, DedupeInv, OneWorker, NEW w \in Workers, NEW i, Write(w, i)
  PROVE  DedupeInv'
<1> DEFINE f == Candidate(w, i)
           n == Build(job[w], f)
<1>1. /\ IsDue(w, i) /\ IsNews(w, f) /\ memories' = Put(memories, n)
      /\ Resolved(w, i, KnownAfterWriting(w, n)) /\ now' = now
  BY DEF Write
<1>2. n.slot = f.slot /\ n.value = f.value /\ Adds(n)
  BY <1>1, NewRecord DEF Adds, Memory
<1>3. existing[w] = Live
  BY <1>1, NewsIsNew, Resolving
<1>4. pc'[w] # "nearest"
  BY <1>1 DEF Resolved, IInv, TypeOK
<1> HIDE DEF n
<1>5. TextOf(n) = TextOf(f)
  BY <1>2 DEF TextOf
<1>6. ASSUME n.slot = UNSLOTTED, NEW m \in Live
      PROVE  Cosine[TextOf(n)][TextOf(m)] < DedupeSimilarity
  <2>1. pc[w] = "nearest" /\ match[w] = NULL
    BY <1>1, <1>2, <1>3, <1>6 DEF IsNews
  <2>2. i \in left[w] /\ m \in existing[w]
    BY <1>1, <1>3, <1>6 DEF IsDue
  <2> QED BY <1>1, <1>5, <2>1, <2>2 DEF DedupeInv, SearchExact
<1>7. NoNearDuplicates'
  BY <1>1, <1>2, <1>6, AddDedupe DEF DedupeInv
<1> QED BY <1>4, <1>7, NoSearch DEF DedupeInv

LEMMA ReinforceDedupe ==
  ASSUME IInv, CalmInv, DedupeInv, OneWorker, NEW w \in Workers, NEW i, IsDue(w, i),
         pc[w] \in {"resolve", "nearest"}, NEW m \in existing[w], Reinforce(w, i, m)
  PROVE  DedupeInv'
<1> DEFINE r == Reinforced(m)
<1>1. /\ m \in Live /\ Same(r, m) /\ m.importance <= r.importance
      /\ memories' = (memories \ {m}) \cup {r} /\ now' = now
      /\ Resolved(w, i, Live')
  BY ReinforceEffect
<1> HIDE DEF r
<1>2. Changes(m, r) /\ IsActive(m)
  BY <1>1 DEF Changes, Live
<1>3. NoNearDuplicates'
  BY <1>1, <1>2, ChangeDedupe DEF DedupeInv
<1>4. pc'[w] # "nearest"
  BY <1>1 DEF Resolved, IInv, TypeOK
<1> QED BY <1>3, <1>4, NoSearch DEF DedupeInv

LEMMA SupersedeDedupe ==
  ASSUME IInv, CalmInv, DedupeInv, OneWorker, NEW w \in Workers, NEW i,
         NEW m \in stale[w], Supersede(w, i, m)
  PROVE  DedupeInv'
<1> DEFINE r == [m EXCEPT !.superseded_by = replacement[w].id]
<1>1. /\ m \in Live /\ m \in memories /\ Same(r, m) /\ r.importance = m.importance
      /\ memories' = (memories \ {m}) \cup {r} /\ now' = now
      /\ Resolved(w, i, Live') \/ (UNCHANGED pc /\ pc[w] = "supersede")
  BY ZenonT(60), SupersedeEffect
<1>2. m.importance \in Nat
  BY <1>1 DEF IInv, TypeOK, Memory, MaxImportance
<1> HIDE DEF r
<1>3. Changes(m, r) /\ IsActive(m)
  BY <1>1, <1>2 DEF Changes, Live
<1>4. NoNearDuplicates'
  BY <1>1, <1>3, ChangeDedupe DEF DedupeInv
<1>5. pc'[w] # "nearest"
  BY <1>1 DEF Resolved, IInv, TypeOK
<1> QED BY <1>4, <1>5, NoSearch DEF DedupeInv

LEMMA BetweenDedupe ==
  ASSUME IInv, CalmInv, DedupeInv, Quiet, Between
  PROVE  DedupeInv'
<1>1. pc' = pc
  BY DEF Between, Quarantine, Forget, Tick, turnVars
<1>2. SearchExact'
  BY <1>1 DEF SearchExact, Quiet
<1>3. memories' \subseteq memories /\ \A x \in memories : IsActive(x)' => IsActive(x)
  <2>1. CASE now' = now
    BY <2>1, ForgetEffect DEF Between, Quarantine, Tick, storeVars, IsActive
  <2>2. CASE Tick
    <3>1. now' = now + 1 /\ memories' = memories /\ now \in Nat
      BY <2>2 DEF Tick, storeVars, IInv, TypeOK
    <3>2. \A x \in memories : x.expires_at \in Nat \cup {NULL}
      BY DEF IInv, TypeOK, Memory
    <3> QED BY <3>1, <3>2 DEF IsActive
  <2> QED BY <2>1, <2>2 DEF Between, Quarantine, Forget
<1>4. NoNearDuplicates'
  BY <1>3 DEF NoNearDuplicates, DedupeInv, TextOf
<1> QED BY <1>2, <1>4 DEF DedupeInv

LEMMA StillDedupe ==
  ASSUME DedupeInv, UNCHANGED <<memories, now>>
  PROVE  NoNearDuplicates'
BY DEF DedupeInv, NoNearDuplicates, IsActive, TextOf

LEMMA DedupeStep ==
  /\ OneWorker /\ DedupeSimilarity > 0 /\ IInv /\ CalmInv /\ DedupeInv /\ SearchFits
  /\ [CalmNext]_vars
  => DedupeInv'
<1> SUFFICES ASSUME OneWorker, DedupeSimilarity > 0, IInv, CalmInv, DedupeInv,
                    SearchFits, [CalmNext]_vars
             PROVE  DedupeInv'
  OBVIOUS
<1>1. CASE UNCHANGED vars
  <2>1. SearchExact'
    BY <1>1 DEF DedupeInv, SearchExact, IsDue, Candidate, vars, turnVars
  <2> QED BY <1>1, <2>1, StillDedupe DEF DedupeInv, vars, storeVars
<1>2. ASSUME NEW w \in Workers, NEW t \in Turns, BeginTurn(w, t) PROVE DedupeInv'
  <2>1. pc'[w] # "nearest" /\ UNCHANGED <<memories, now>>
    BY <1>2 DEF BeginTurn, storeVars, IInv, TypeOK
  <2> QED BY <2>1, NoSearch, StillDedupe DEF DedupeInv
<1>3. ASSUME NEW w \in Workers, NEW i, RestateSlot(w, i) PROVE DedupeInv'
  BY <1>3, ReinforceDedupe DEF RestateSlot, Duplicates, SameSlot
<1>4. ASSUME NEW w \in Workers, NEW i, RestateText(w, i) PROVE DedupeInv'
  BY <1>4, ReinforceDedupe DEF RestateText, IInv, TurnOK
<1>5. ASSUME NEW w \in Workers, NEW i, Contradict(w, i) PROVE DedupeInv'
  <2> DEFINE n == Build(job[w], Candidate(w, i))
  <2>1. Adds(n) /\ n.slot # UNSLOTTED /\ now' = now /\ pc'[w] = "supersede"
    BY <1>5, ContradictEffect DEF Adds, Memory
  <2> HIDE DEF n
  <2>2. NoNearDuplicates'
    BY <2>1, AddDedupe DEF DedupeInv
  <2> QED BY <2>1, <2>2, NoSearch DEF DedupeInv
<1>6. ASSUME NEW w \in Workers, NEW i, NEW m \in stale[w], Supersede(w, i, m)
      PROVE  DedupeInv'
  BY <1>6, SupersedeDedupe
<1>7. ASSUME NEW w \in Workers, NEW i, Nearest(w, i) PROVE DedupeInv'
  <2>1. UNCHANGED <<memories, now>>
    BY <1>7 DEF Nearest, storeVars
  <2> QED BY <1>7, <2>1, NearestDedupe, StillDedupe DEF DedupeInv
<1>8. ASSUME NEW w \in Workers, NEW i, Write(w, i) PROVE DedupeInv'
  BY <1>8, WriteDedupe
<1>9. CASE Quiet /\ Between
  BY <1>9, BetweenDedupe
<1> QED
  BY <1>1, <1>2, <1>3, <1>4, <1>5, <1>6, <1>7, <1>8, <1>9
  DEF CalmNext, TurnStep, Resolve

(* Dedupe by similarity: as long as the candidates of the search are       *)
(* all there is, a live note is less similar than the threshold to every   *)
(* older live memory.                                                      *)
THEOREM NotesAreUnlike ==
  OneWorker /\ DedupeSimilarity > 0 =>
    (CalmSpec /\ []StoreFits /\ []SearchFits => []NoNearDuplicates)
<1> SUFFICES ASSUME OneWorker, DedupeSimilarity > 0
             PROVE  CalmSpec /\ []StoreFits /\ []SearchFits => []NoNearDuplicates
  OBVIOUS
<1>1. Init => DedupeInv
  BY DEF Init, DedupeInv, SearchExact, NoNearDuplicates
<1>2. IInv /\ CalmInv /\ DedupeInv /\ SearchFits /\ [CalmNext]_vars => DedupeInv'
  BY DedupeStep
<1>3. DedupeInv => NoNearDuplicates
  BY DEF DedupeInv
<1> QED BY <1>1, <1>2, <1>3, CalmInvariance, PTL DEF CalmSpec
------------------------------------------------------------------------------
(* The refinement of UserFacts.                                            *)

LEMMA ChosenOne ==
  ASSUME NEW S, NEW m \in S, \A x \in S : x = m
  PROVE  (CHOOSE x \in S : TRUE) = m
OBVIOUS

(* A slot believes one record at most.                                     *)
LEMMA CurrentIsOne ==
  ASSUME TypeOK, NoTwins, NEW s, NEW x \in Current(s), NEW y \in Current(s)
  PROVE  x = y
<1>1. x.id <= y.id /\ y.id <= x.id
  BY DEF Current
<1>2. x \in memories /\ y \in memories /\ x.id \in Nat /\ y.id \in Nat
  BY DEF Current, Unretired, TypeOK, Memory
<1> QED BY <1>1, <1>2 DEF NoTwins

LiveIn(s) == {x \in Live : x.slot = s}

NoneRetired == \A m : ~BeingRetired(m)

(* While nothing is being retired a slot believes what is live in it.      *)
LEMMA LiveIsCurrent ==
  TypeOK /\ NewestLives /\ NoneRetired => \A s \in Slots : Current(s) = LiveIn(s)
<1> SUFFICES ASSUME TypeOK, NewestLives, NoneRetired, NEW s \in Slots
             PROVE  Current(s) = LiveIn(s)
  OBVIOUS
<1>1. s # UNSLOTTED
  BY ConstantsAssumption
<1>2. Current(s) \subseteq LiveIn(s)
  BY DEF Current, Unretired, LiveIn, Live
<1>3. ASSUME NEW m \in LiveIn(s) PROVE m \in Current(s)
  <2>1. m \in memories /\ m.slot = s /\ IsActive(m) /\ m.superseded_by = NULL
    BY <1>3 DEF LiveIn, Live, IsActive
  <2>2. ASSUME NEW x \in Unretired(s) PROVE x.id <= m.id
    <3>1. x \in memories /\ x.slot = s /\ x.superseded_by = NULL
      BY <2>2 DEF Unretired
    <3>2. ~(m.id < x.id)
      BY <1>1, <2>1, <3>1 DEF NewestLives, NoneRetired
    <3>3. x.id \in Nat /\ m.id \in Nat
      BY <2>1, <3>1 DEF TypeOK, Memory
    <3> QED BY <3>2, <3>3
  <2> QED BY <2>1, <2>2 DEF Current, Unretired
<1> QED BY <1>2, <1>3

LEMMA LiveIsCurrentNext ==
  TypeOK' /\ NewestLives' /\ NoneRetired' => \A s \in Slots : Current(s)' = LiveIn(s)'
<1>1. (TypeOK /\ NewestLives /\ NoneRetired => \A s \in Slots : Current(s) = LiveIn(s))'
  BY LiveIsCurrent, PTL
<1> QED BY <1>1

(* What a slot believes, and whether that will lapse.                      *)
LEMMA Believing ==
  ASSUME NEW s \in Slots
  PROVE  /\ Current(s) = {} => beliefOf[s] = NULL
         /\ \A m : Current(s) = {m} => beliefOf[s] = m.value
         /\ s \in temporaryOf <=> \E m \in Current(s) : m.expires_at # NULL
         /\ DOMAIN beliefOf = Slots /\ temporaryOf \subseteq Slots
BY ChosenOne DEF beliefOf, temporaryOf

LEMMA BelievingNext ==
  ASSUME NEW s \in Slots
  PROVE  /\ Current(s)' = {} => beliefOf'[s] = NULL
         /\ \A m : Current(s)' = {m} => beliefOf'[s] = m.value
         /\ s \in temporaryOf' <=> \E m \in Current(s)' : m.expires_at # NULL
BY ChosenOne DEF beliefOf, temporaryOf

(* What a slot believes is unchanged when the record is, up to importance. *)
Keeps(s) ==
  \/ Current(s)' = Current(s)
  \/ \E m, r : /\ Current(s) = {m} /\ Current(s)' = {r}
               /\ r.value = m.value /\ r.expires_at = m.expires_at

LEMMA KeptBelief ==
  ASSUME TypeOK, NoTwins, NEW s \in Slots, Keeps(s)
  PROVE  beliefOf'[s] = beliefOf[s] /\ (s \in temporaryOf' <=> s \in temporaryOf)
<1>1. CASE \E m, r : /\ Current(s) = {m} /\ Current(s)' = {r}
                     /\ r.value = m.value /\ r.expires_at = m.expires_at
  BY <1>1, Believing, BelievingNext
<1>2. CASE Current(s)' = Current(s)
  <2>1. CASE Current(s) = {}
    BY <1>2, <2>1, Believing, BelievingNext
  <2>2. CASE Current(s) # {}
    <3>1. PICK m : m \in Current(s)
      BY <2>2
    <3>2. Current(s) = {m}
      BY <3>1, CurrentIsOne
    <3> QED BY <1>2, <3>2, Believing, BelievingNext
  <2> QED BY <2>1, <2>2
<1> QED BY <1>1, <1>2 DEF Keeps

LEMMA KeptBeliefs ==
  ASSUME TypeOK, NoTwins, \A s \in Slots : Keeps(s)
  PROVE  beliefOf' = beliefOf /\ temporaryOf' = temporaryOf
<1>1. \A s \in Slots :
        beliefOf'[s] = beliefOf[s] /\ (s \in temporaryOf' <=> s \in temporaryOf)
  BY KeptBelief
<1>2. beliefOf' = beliefOf
  <2>1. /\ beliefOf = [s \in Slots |-> beliefOf[s]]
        /\ beliefOf' = [s \in Slots |-> beliefOf'[s]]
    BY DEF beliefOf
  <2> QED BY <1>1, <2>1
<1>3. temporaryOf' = temporaryOf
  BY <1>1 DEF temporaryOf
<1> QED BY <1>2, <1>3

(* A statement about s, seen from the slots.                               *)
LEMMA StateStep ==
  ASSUME TypeOK, NoTwins, NEW s \in Slots, NEW v \in Values,
         \A t \in Slots \ {s} : Keeps(t),
         beliefOf'[s] = v,
         beliefOf[s] = v => (s \in temporaryOf' <=> s \in temporaryOf),
         saidOf' = [saidOf EXCEPT ![s] = v]
  PROVE  Facts!Next
<1>1. \A t \in Slots \ {s} :
        beliefOf'[t] = beliefOf[t] /\ (t \in temporaryOf' <=> t \in temporaryOf)
  BY KeptBelief
<1>2. beliefOf' = [beliefOf EXCEPT ![s] = v]
  <2>1. /\ beliefOf = [t \in Slots |-> beliefOf[t]]
        /\ beliefOf' = [t \in Slots |-> beliefOf'[t]]
    BY DEF beliefOf
  <2> QED BY <1>1, <2>1
<1>3. CASE beliefOf[s] = v
  <2>1. temporaryOf' = temporaryOf
    BY <1>1, <1>3 DEF temporaryOf
  <2> QED BY <1>2, <1>3, <2>1 DEF Facts!Next, Facts!State
<1>4. CASE beliefOf[s] # v
  <2>1. temporaryOf' \in {temporaryOf \ {s}, temporaryOf \cup {s}}
    BY <1>1 DEF temporaryOf
  <2> QED BY <1>2, <1>4, <2>1 DEF Facts!Next, Facts!State
<1> QED BY <1>3, <1>4

LEMMA SaidStep ==
  ASSUME TypeOK, NEW t, NEW f \in Fact, Stated(t, f)
  PROVE  /\ f.slot = UNSLOTTED => saidOf' = saidOf
         /\ f.slot # UNSLOTTED => /\ f.slot \in Slots /\ f.value \in Values
                                  /\ saidOf' = [saidOf EXCEPT ![f.slot] = f.value]
<1>1. CASE f.slot = UNSLOTTED
  BY <1>1 DEF Stated, saidOf
<1>2. CASE f.slot # UNSLOTTED
  <2>1. f.slot \in Slots /\ f.value \in Values
    BY <1>2 DEF Fact
  <2>2. /\ said'[f.slot] # NULL /\ said'[f.slot].value = f.value
        /\ \A s \in Slots \ {f.slot} : said'[s] = said[s]
    BY <1>2, StatedSlot
  <2>3. saidOf' = [saidOf EXCEPT ![f.slot] = f.value]
    BY <2>1, <2>2 DEF saidOf
  <2> QED BY <1>2, <2>1, <2>3
<1> QED BY <1>1, <1>2

(* A step of UserFacts, or an invisible one.                               *)
FactsStep == [Facts!Next]_(Facts!factVars)

LEMMA Invisible ==
  ASSUME TypeOK, NoTwins, \A s \in Slots : Keeps(s), saidOf' = saidOf
  PROVE  FactsStep
BY KeptBeliefs DEF FactsStep, Facts!factVars

LEMMA SameRecords ==
  ASSUME TypeOK, NoTwins, UNCHANGED <<memories, now, said>>
  PROVE  FactsStep
<1>1. \A s \in Slots : Keeps(s)
  BY DEF Keeps, Current, Unretired, IsActive
<1>2. saidOf' = saidOf
  BY DEF saidOf
<1> QED BY <1>1, <1>2, Invisible

LEMMA ReinforceFacts ==
  ASSUME IInv, CalmInv, TypeOK', CalmInv', OneWorker,
         NEW w \in Workers, NEW i, IsDue(w, i),
         pc[w] \in {"resolve", "nearest"}, NEW m \in existing[w], Reinforce(w, i, m),
         Candidate(w, i).slot # UNSLOTTED =>
           m.slot = Candidate(w, i).slot /\ m.value = Candidate(w, i).value
  PROVE  FactsStep
<1> DEFINE r == Reinforced(m)
           f == Candidate(w, i)
<1>1. /\ m \in Live /\ Same(r, m) /\ Live' = (Live \ {m}) \cup {r}
      /\ Stated(job[w], f) /\ Resolved(w, i, Live') /\ stale'[w] = {}
  BY ReinforceEffect
<1>2. TypeOK /\ NoTwins /\ NewestLives /\ NoneRetired /\ f \in Fact
  BY BuiltRecord, Resolving DEF IInv, CalmInv, NoneRetired
<1>3. NewestLives' /\ NoneRetired'
  BY <1>1, <1>2, ResolvedKnows DEF CalmInv, NoneRetired
<1>4. \A s \in Slots : Current(s) = LiveIn(s) /\ Current(s)' = LiveIn(s)'
  BY <1>2, <1>3, LiveIsCurrent, LiveIsCurrentNext
<1> HIDE DEF r, f
<1>5. ASSUME NEW s \in Slots PROVE Keeps(s)
  <2>1. CASE m.slot = s
    <3>1. Current(s) = {m}
      <4>1. m \in Current(s)
        BY <1>1, <1>4, <2>1 DEF LiveIn
      <4> QED BY <1>2, <4>1, CurrentIsOne
    <3>2. Current(s)' = {r}
      BY <1>1, <1>4, <2>1, <3>1 DEF LiveIn, Same
    <3> QED BY <1>1, <3>1, <3>2 DEF Keeps, Same
  <2>2. CASE m.slot # s
    BY ZenonT(60), <1>1, <1>4, <2>2 DEF LiveIn, Same, Keeps
  <2> QED BY <2>1, <2>2
<1>6. CASE f.slot = UNSLOTTED
  BY <1>1, <1>2, <1>5, <1>6, SaidStep, Invisible
<1>7. CASE f.slot # UNSLOTTED
  <2>1. /\ f.slot \in Slots /\ f.value \in Values
        /\ saidOf' = [saidOf EXCEPT ![f.slot] = f.value]
    BY <1>1, <1>2, <1>7, SaidStep
  <2>2. m.slot = f.slot /\ m.value = f.value
    BY <1>7 DEF f
  <2>3. m \in Current(f.slot)
    BY <1>1, <1>4, <2>1, <2>2 DEF LiveIn
  <2>4. beliefOf[f.slot] = f.value
    <3>1. Current(f.slot) = {m}
      BY <1>2, <2>3, CurrentIsOne
    <3> QED BY <2>1, <2>2, <3>1, Believing
  <2>5. /\ beliefOf'[f.slot] = f.value
        /\ f.slot \in temporaryOf' <=> f.slot \in temporaryOf
    BY <1>2, <1>5, <2>1, <2>4, KeptBelief
  <2> QED BY <1>2, <1>5, <2>1, <2>5, StateStep DEF FactsStep
<1> QED BY <1>6, <1>7

LEMMA WriteFacts ==
  ASSUME IInv, CalmInv, TypeOK', CalmInv', OneWorker,
         NEW w \in Workers, NEW i, Write(w, i)
  PROVE  FactsStep
<1> DEFINE f == Candidate(w, i)
           n == Build(job[w], f)
<1>1. /\ IsDue(w, i) /\ IsNews(w, f) /\ memories' = Put(memories, n)
      /\ Resolved(w, i, existing[w] \cup {n}) /\ Stated(job[w], f)
      /\ now' = now /\ stale' = stale
  BY DEF Write, KnownAfterWriting
<1>2. n.slot = f.slot /\ n.value = f.value /\ Live' = Live \cup {n}
  BY <1>1, NewRecord
<1>3. /\ pc[w] \in {"resolve", "nearest"}
      /\ f.slot # UNSLOTTED => \A m \in Live : m.slot # f.slot
  BY <1>1, NewsIsNew
<1>4. TypeOK /\ NoTwins /\ NewestLives /\ NoneRetired /\ f \in Fact /\ existing[w] = Live
  BY <1>1, <1>3, BuiltRecord, Resolving DEF IInv, CalmInv, NoneRetired
<1>5. stale'[w] = {}
  BY <1>1, <1>3 DEF IInv, TurnOK
<1> HIDE DEF n, f
<1>6. NewestLives' /\ NoneRetired'
  BY <1>1, <1>2, <1>4, <1>5, ResolvedKnows DEF CalmInv, NoneRetired
<1>7. \A s \in Slots : Current(s) = LiveIn(s) /\ Current(s)' = LiveIn(s)'
  BY <1>4, <1>6, LiveIsCurrent, LiveIsCurrentNext
<1>8. ASSUME NEW s \in Slots, s # f.slot PROVE Keeps(s)
  <2>1. LiveIn(s)' = LiveIn(s)
    BY <1>2, <1>8 DEF LiveIn
  <2> QED BY <1>7, <2>1 DEF Keeps
<1>9. CASE f.slot = UNSLOTTED
  <2>1. \A s \in Slots : Keeps(s)
    BY <1>8, <1>9, ConstantsAssumption
  <2> QED BY <1>1, <1>4, <1>9, <2>1, SaidStep, Invisible
<1>10. CASE f.slot # UNSLOTTED
  <2>1. /\ f.slot \in Slots /\ f.value \in Values
        /\ saidOf' = [saidOf EXCEPT ![f.slot] = f.value]
    BY <1>1, <1>4, <1>10, SaidStep
  <2>2. PICK s \in Slots : s = f.slot
    BY <2>1
  <2>3. Current(s) = {} /\ Current(s)' = {n}
    <3>1. LiveIn(s) = {} /\ LiveIn(s)' = {n}
      BY <1>2, <1>3, <1>10, <2>2 DEF LiveIn
    <3> QED BY <1>7, <3>1
  <2>4. beliefOf[s] = NULL /\ beliefOf'[s] = f.value
    BY <1>2, <2>3, Believing, BelievingNext
  <2>5. beliefOf[s] # f.value
    BY <2>1, <2>4, ConstantsAssumption
  <2>6. \A t \in Slots \ {s} : Keeps(t)
    BY <1>8, <2>2
  <2> QED BY <1>4, <2>1, <2>2, <2>4, <2>5, <2>6, StateStep DEF FactsStep
<1> QED BY <1>9, <1>10

LEMMA ContradictFacts ==
  ASSUME IInv, CalmInv, OneWorker, NEW w \in Workers, NEW i, Contradict(w, i)
  PROVE  FactsStep
<1> DEFINE f == Candidate(w, i)
           n == Build(job[w], f)
<1>1. /\ f \in Fact /\ f.slot # UNSLOTTED /\ n.superseded_by = NULL
      /\ n.slot = f.slot /\ n.value = f.value /\ IsActive(n)
      /\ memories' = memories \cup {n}
      /\ n.id \in Nat /\ \A m \in memories : m.id < n.id /\ m.id \in Nat
      /\ (\A m : ~BeingRetired(m)) /\ now' = now
      /\ \A m \in Live : m.slot = f.slot => m.value # f.value
      /\ Stated(job[w], f)
  BY ContradictEffect DEF Memory
<1>2. TypeOK /\ NoTwins /\ NewestLives /\ NoneRetired
  BY <1>1 DEF IInv, CalmInv, NoneRetired
<1> HIDE DEF n, f
<1>3. /\ f.slot \in Slots /\ f.value \in Values
      /\ saidOf' = [saidOf EXCEPT ![f.slot] = f.value]
  BY <1>1, <1>2, SaidStep
<1>4. \A x : IsActive(x)' = IsActive(x)
  BY <1>1 DEF IsActive
<1>5. PICK s \in Slots : s = f.slot
  BY <1>3
<1>6. ASSUME NEW t \in Slots \ {s} PROVE Keeps(t)
  <2>1. Unretired(t)' = Unretired(t)
    BY <1>1, <1>5, <1>6 DEF Unretired
  <2> QED BY <1>4, <2>1 DEF Keeps, Current
<1>7. Current(s)' = {n}
  <2>1. Unretired(s)' = Unretired(s) \cup {n}
    BY <1>1, <1>5 DEF Unretired
  <2>2. \A x \in Unretired(s) : x.id < n.id /\ x.id \in Nat
    BY <1>1 DEF Unretired
  <2>3. n \in Current(s)'
    BY <1>1, <1>4, <2>1, <2>2 DEF Current
  <2>4. ASSUME NEW x \in Current(s)' PROVE x = n
    BY <1>1, <2>1, <2>2, <2>4 DEF Current
  <2> QED BY <2>3, <2>4
<1>8. beliefOf'[s] = f.value
  BY <1>1, <1>7, BelievingNext
<1>9. beliefOf[s] # f.value
  <2>1. Current(s) = LiveIn(s)
    BY <1>2, LiveIsCurrent
  <2>2. CASE Current(s) = {}
    BY <1>3, <2>2, Believing, ConstantsAssumption
  <2>3. CASE Current(s) # {}
    <3>1. PICK m : m \in Current(s)
      BY <2>3
    <3>2. Current(s) = {m} /\ m.value # f.value
      BY <1>1, <1>2, <1>5, <2>1, <3>1, CurrentIsOne DEF LiveIn
    <3> QED BY <3>2, Believing
  <2> QED BY <2>2, <2>3
<1> QED BY <1>2, <1>3, <1>5, <1>6, <1>8, <1>9, StateStep DEF FactsStep

(* Retiring what is no longer believed shows nowhere.                      *)
LEMMA SupersedeFacts ==
  ASSUME IInv, CalmInv, OneWorker, NEW w \in Workers, NEW i, NEW m \in stale[w],
         Supersede(w, i, m)
  PROVE  FactsStep
<1> DEFINE new == replacement[w]
           r == [m EXCEPT !.superseded_by = new.id]
<1>1. /\ m \in Live /\ new \in Live /\ m \in memories /\ new \in memories
      /\ m.id \in Nat /\ new.id \in Nat /\ m.id < new.id /\ m.slot = new.slot
      /\ r.superseded_by # NULL /\ Same(r, m)
      /\ memories' = (memories \ {m}) \cup {r}
      /\ now' = now /\ said' = said
  BY SupersedeEffect
<1>2. TypeOK /\ NoTwins /\ new.superseded_by = NULL
  BY <1>1 DEF IInv, CalmInv, Live, IsActive
<1> HIDE DEF new, r
<1>3. ASSUME NEW s \in Slots PROVE Current(s)' = Current(s)
  <2>1. Unretired(s)' = Unretired(s) \ {m}
    BY <1>1 DEF Unretired
  <2>2. \A x : IsActive(x)' = IsActive(x)
    BY <1>1 DEF IsActive
  <2>3. m \in Unretired(s) => new \in Unretired(s)
    BY <1>1, <1>2 DEF Unretired
  <2>4. \A x \in Unretired(s) : x.id \in Nat
    BY <1>2 DEF Unretired, TypeOK, Memory
  <2>5. m \notin Current(s)
    BY <1>1, <2>3 DEF Current
  <2>6. Current(s) \subseteq Current(s)'
    BY <2>1, <2>2, <2>5 DEF Current
  <2>7. ASSUME NEW x \in Current(s)' PROVE x \in Current(s)
    <3>1. x \in Unretired(s) /\ IsActive(x) /\ \A y \in Unretired(s) \ {m} : y.id <= x.id
      BY <2>1, <2>2, <2>7 DEF Current
    <3>2. ASSUME m \in Unretired(s) PROVE m.id <= x.id
      <4>1. new \in Unretired(s) \ {m}
        BY <1>1, <2>3, <3>2
      <4>2. new.id <= x.id /\ x.id \in Nat
        BY <2>4, <3>1, <4>1
      <4> QED BY <1>1, <4>2
    <3> QED BY <3>1, <3>2 DEF Current
  <2> QED BY <2>6, <2>7
<1>4. \A s \in Slots : Keeps(s)
  BY <1>3 DEF Keeps
<1>5. saidOf' = saidOf
  BY <1>1 DEF saidOf
<1> QED BY <1>2, <1>4, <1>5, Invisible

(* Between turns what is live is what is believed, before and after.       *)
LEMMA QuietCurrent ==
  ASSUME IInv, CalmInv, Quiet, TypeOK', CalmInv', UNCHANGED turnVars
  PROVE  \A s \in Slots : Current(s) = LiveIn(s) /\ Current(s)' = LiveIn(s)'
<1>1. NoneRetired /\ NoneRetired'
  BY QuietTurns, IdleKnows DEF NoneRetired
<1> QED BY <1>1, LiveIsCurrent, LiveIsCurrentNext DEF IInv, CalmInv

LEMMA ForgetFacts ==
  ASSUME IInv, CalmInv, Quiet, TypeOK', CalmInv', NEW m \in memories, Forget(m)
  PROVE  FactsStep
<1>1. /\ Live' = Live \ {m} /\ UNCHANGED turnVars
      /\ said' = IF m.slot # UNSLOTTED /\ IsActive(m)
                   THEN [said EXCEPT ![m.slot] = NULL] ELSE said
  BY ForgetEffect
<1>2. TypeOK /\ NoTwins /\ m.slot \in Slots \cup {UNSLOTTED}
  BY DEF IInv, CalmInv, TypeOK, Memory
<1>3. \A s \in Slots : Current(s) = LiveIn(s) /\ Current(s)' = LiveIn(s)'
  BY <1>1, QuietCurrent
<1>4. ASSUME NEW s \in Slots, m \notin LiveIn(s) PROVE Keeps(s)
  <2>1. LiveIn(s)' = LiveIn(s)
    BY <1>1, <1>4 DEF LiveIn
  <2> QED BY <1>3, <2>1 DEF Keeps
<1>5. CASE m \notin Live \/ m.slot = UNSLOTTED
  <2>1. \A s \in Slots : m \notin LiveIn(s)
    BY <1>5, ConstantsAssumption DEF LiveIn
  <2>2. said' = said
    BY <1>1, <1>5 DEF Live
  <2>3. saidOf' = saidOf
    BY <2>2 DEF saidOf
  <2> QED BY <1>2, <1>4, <2>1, <2>3, Invisible
<1>6. CASE m \in Live /\ m.slot # UNSLOTTED
  <2>1. PICK s \in Slots : s = m.slot
    BY <1>2, <1>6
  <2>2. m \in LiveIn(s)
    BY <1>6, <2>1 DEF LiveIn
  <2>3. Current(s) = {m}
    BY <1>2, <1>3, <2>2, CurrentIsOne
  <2>4. Current(s)' = {}
    <3>1. LiveIn(s)' = LiveIn(s) \ {m}
      BY <1>1 DEF LiveIn
    <3> QED BY <1>3, <2>3, <3>1
  <2>5. beliefOf[s] = m.value /\ beliefOf'[s] = NULL
    BY <2>3, <2>4, Believing, BelievingNext
  <2>6. m.value \in Values /\ m.value # NULL
    BY <1>2, ConstantsAssumption DEF TypeOK, Memory
  <2>7. s \notin temporaryOf'
    BY <2>4, BelievingNext
  <2>8. ASSUME NEW t \in Slots \ {s}
        PROVE  beliefOf'[t] = beliefOf[t] /\ (t \in temporaryOf' <=> t \in temporaryOf)
    BY <1>2, <1>4, <2>1, <2>8, KeptBelief DEF LiveIn
  <2>9. beliefOf' = [beliefOf EXCEPT ![s] = NULL]
    <3>1. /\ beliefOf = [t \in Slots |-> beliefOf[t]]
          /\ beliefOf' = [t \in Slots |-> beliefOf'[t]]
      BY DEF beliefOf
    <3> QED BY <2>5, <2>8, <3>1
  <2>10. temporaryOf' = temporaryOf \ {s}
    BY <2>7, <2>8 DEF temporaryOf
  <2>11. saidOf' = [saidOf EXCEPT ![s] = NULL]
    <3>1. said' = [said EXCEPT ![s] = NULL]
      BY <1>1, <1>6, <2>1 DEF Live
    <3> QED BY <1>2, <3>1 DEF saidOf, TypeOK
  <2> QED
    BY <2>5, <2>6, <2>9, <2>10, <2>11 DEF FactsStep, Facts!Next, Facts!Forget
<1> QED BY <1>5, <1>6

LEMMA TickFacts ==
  ASSUME IInv, CalmInv, Quiet, TypeOK', CalmInv', Tick
  PROVE  FactsStep
<1> DEFINE S == {s \in Slots : Current(s) # {} /\ Current(s)' = {}}
<1>1. /\ now' = now + 1 /\ memories' = memories /\ said' = said /\ UNCHANGED turnVars
  BY DEF Tick, storeVars, history
<1>2. TypeOK /\ NoTwins /\ now \in Nat
  BY DEF IInv, CalmInv, TypeOK
<1>3. \A s \in Slots : Current(s) = LiveIn(s) /\ Current(s)' = LiveIn(s)'
  BY <1>1, QuietCurrent
<1>4. \A x \in memories : /\ x.expires_at \in Nat \cup {NULL}
                          /\ IsActive(x)' => IsActive(x)
                          /\ IsActive(x) /\ x.expires_at = NULL => IsActive(x)'
  <2>1. \A x \in memories : x.expires_at \in Nat \cup {NULL}
    BY <1>2 DEF TypeOK, Memory
  <2> QED BY <1>1, <1>2, <2>1 DEF IsActive
<1>5. ASSUME NEW s \in Slots
      PROVE  /\ s \notin S => Current(s)' = Current(s)
             /\ s \in S => s \in temporaryOf
  <2>1. LiveIn(s)' \subseteq LiveIn(s)
    BY <1>1, <1>4 DEF LiveIn, Live
  <2>2. CASE Current(s) = {}
    BY <1>3, <2>1, <2>2
  <2>3. CASE Current(s) # {}
    <3>1. PICK m : m \in Current(s)
      BY <2>3
    <3>2. Current(s) = {m} /\ m \in memories /\ IsActive(m) /\ m.slot = s
      BY <1>2, <1>3, <3>1, CurrentIsOne DEF LiveIn, Live
    <3>3. Current(s)' = {} \/ Current(s)' = {m}
      BY <1>3, <2>1, <3>2
    <3>4. s \in S => m.expires_at # NULL
      <4>1. IsActive(m)' => m \in LiveIn(s)'
        BY <1>1, <3>2 DEF LiveIn, Live
      <4> QED BY <1>3, <1>4, <3>2, <4>1
    <3>5. m.expires_at # NULL => s \in temporaryOf
      BY <3>2, Believing
    <3> QED BY <3>2, <3>3, <3>4, <3>5
  <2> QED BY <2>2, <2>3
<1>6. S \subseteq temporaryOf
  BY <1>5
<1>7. ASSUME NEW s \in Slots
      PROVE  /\ s \in S => beliefOf'[s] = NULL /\ s \notin temporaryOf'
             /\ s \notin S => beliefOf'[s] = beliefOf[s]
                              /\ (s \in temporaryOf' <=> s \in temporaryOf)
  <2>1. CASE s \in S
    BY <2>1, BelievingNext
  <2>2. CASE s \notin S
    BY <1>2, <1>5, <2>2, KeptBelief DEF Keeps
  <2> QED BY <2>1, <2>2
<1> HIDE DEF S
<1>8. beliefOf' = [s \in Slots |-> IF s \in S THEN NULL ELSE beliefOf[s]]
  <2>1. beliefOf' = [s \in Slots |-> beliefOf'[s]]
    BY DEF beliefOf
  <2> QED BY <1>7, <2>1
<1>9. temporaryOf' = temporaryOf \ S
  BY <1>6, <1>7 DEF temporaryOf
<1>10. saidOf' = saidOf
  BY <1>1 DEF saidOf
<1> QED BY <1>6, <1>8, <1>9, <1>10 DEF FactsStep, Facts!Next, Facts!Lapse

LEMMA InitFacts == Init => Facts!Init
<1> SUFFICES ASSUME Init PROVE Facts!Init
  OBVIOUS
<1>1. \A s \in Slots : Current(s) = {}
  BY DEF Init, Current, Unretired
<1>2. beliefOf = [s \in Slots |-> NULL]
  BY <1>1 DEF beliefOf
<1>3. temporaryOf = {}
  BY <1>1 DEF temporaryOf
<1>4. saidOf = [s \in Slots |-> NULL]
  BY DEF Init, saidOf
<1> QED BY <1>2, <1>3, <1>4 DEF Facts!Init

LEMMA FactsNext ==
  /\ OneWorker /\ IInv /\ CalmInv /\ TypeOK' /\ CalmInv'
  /\ [CalmNext]_vars
  => FactsStep
<1> SUFFICES ASSUME OneWorker, IInv, CalmInv, TypeOK', CalmInv', [CalmNext]_vars
             PROVE  FactsStep
  OBVIOUS
<1>1. TypeOK /\ NoTwins
  BY DEF IInv, CalmInv
<1>2. CASE UNCHANGED vars
  BY <1>1, <1>2, SameRecords DEF vars, storeVars, history
<1>3. ASSUME NEW w \in Workers, NEW t \in Turns, BeginTurn(w, t) PROVE FactsStep
  BY <1>1, <1>3, SameRecords DEF BeginTurn, storeVars, history
<1>4. ASSUME NEW w \in Workers, NEW i, RestateSlot(w, i) PROVE FactsStep
  <2>1. PICK m \in Duplicates(w, Candidate(w, i)) : Reinforce(w, i, m)
    BY <1>4 DEF RestateSlot
  <2>2. /\ m \in existing[w] /\ m.slot = Candidate(w, i).slot
        /\ m.value = Candidate(w, i).value
    BY <2>1 DEF Duplicates, SameSlot
  <2>3. pc[w] = "resolve" /\ IsDue(w, i)
    BY <1>4 DEF RestateSlot
  <2> QED BY <2>1, <2>2, <2>3, ReinforceFacts
<1>5. ASSUME NEW w \in Workers, NEW i, RestateText(w, i) PROVE FactsStep
  <2>1. /\ pc[w] = "nearest" /\ IsDue(w, i) /\ match[w] \in existing[w]
        /\ Reinforce(w, i, match[w])
    BY <1>5 DEF RestateText, IInv, TurnOK
  <2>2. Candidate(w, i).slot = UNSLOTTED
    BY <2>1 DEF CalmInv, SearchUnslotted, IsDue
  <2>3. PICK m \in existing[w] : m = match[w]
    BY <2>1
  <2> QED BY <2>1, <2>2, <2>3, ReinforceFacts
<1>6. ASSUME NEW w \in Workers, NEW i, Contradict(w, i) PROVE FactsStep
  BY <1>6, ContradictFacts
<1>7. ASSUME NEW w \in Workers, NEW i, NEW m \in stale[w], Supersede(w, i, m)
      PROVE  FactsStep
  BY <1>7, SupersedeFacts
<1>8. ASSUME NEW w \in Workers, NEW i, Nearest(w, i) PROVE FactsStep
  BY <1>1, <1>8, SameRecords DEF Nearest, storeVars, history
<1>9. ASSUME NEW w \in Workers, NEW i, Write(w, i) PROVE FactsStep
  BY <1>9, WriteFacts
<1>10. ASSUME Quiet, NEW m \in memories, Forget(m) PROVE FactsStep
  BY <1>10, ForgetFacts
<1>11. ASSUME Quiet, Tick PROVE FactsStep
  BY <1>11, TickFacts
<1>12. ASSUME NEW t \in Turns, Quarantine(t) PROVE FactsStep
  BY <1>1, <1>12, SameRecords DEF Quarantine, history
<1> QED
  BY <1>2, <1>3, <1>4, <1>5, <1>6, <1>7, <1>8, <1>9, <1>10, <1>11, <1>12
  DEF CalmNext, TurnStep, Resolve, Between

(* The write path implements UserFacts when turns do not overlap and run   *)
(* to their end: every step is a statement, a request to forget, a lapse,  *)
(* or invisible.                                                           *)
THEOREM UserFactsAreKept ==
  OneWorker => (CalmSpec /\ []StoreFits => KeepsUserFacts)
<1> SUFFICES ASSUME OneWorker PROVE CalmSpec /\ []StoreFits => KeepsUserFacts
  OBVIOUS
<1>1. IInv /\ CalmInv /\ TypeOK' /\ CalmInv' /\ [CalmNext]_vars
        => [Facts!Next]_(Facts!factVars)
  BY FactsNext DEF FactsStep
<1>2. IInv => TypeOK
  BY DEF IInv
<1> QED
  BY <1>1, <1>2, InitFacts, CalmInvariance, PTL DEF CalmSpec, KeepsUserFacts, Facts!Spec
==============================================================================
