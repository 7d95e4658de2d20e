--------------------------- MODULE WritePathProofs ---------------------------
(***************************************************************************)
(* What holds of the write path for any number of workers, any turns, any  *)
(* similarity and any limits: proofs about WritePath's Spec, in which      *)
(* turns overlap, fail anywhere and race deletes and the clock.            *)
(*                                                                         *)
(* The argument is about copies.  A turn decides on records it read        *)
(* earlier and writes them back, so an invariant of the store alone is not *)
(* inductive: it has to hold of every copy a turn may still put.           *)
(***************************************************************************)
EXTENDS Extraction, FiniteSetTheorems, NaturalsInduction, WellFoundedInduction, TLAPS

(* Copies of records a turn holds, and all copies there are.               *)
CopiesOf(w) ==
  existing[w] \cup stale[w] \cup ({match[w], replacement[w]} \ {NULL})

Copies == memories \cup UNION {CopiesOf(w) : w \in Workers}

(* What no write-back changes: identity, content, provenance and expiry.   *)
Same(x, y) ==
  /\ x.id = y.id /\ x.slot = y.slot /\ x.value = y.value
  /\ x.source = y.source /\ x.expires_at = y.expires_at

(* x says what some turn the gate allows says, and expires if and only if  *)
(* that turn said so and its words did.                                    *)
FromAllowedTurn(x) ==
  \E t \in Turns : \E i \in UsablePositions(t) :
    /\ Allowed(t) /\ x.source = t.source
    /\ x.expires_at = NULL <=> TtlOf(t, t.facts[i]) = NULL
    /\ x.slot = t.facts[i].slot /\ x.value = t.facts[i].value

CopiesOK ==
  /\ \A x \in Copies : x.id < nextId /\ FromAllowedTurn(x)
  /\ \A x, y \in Copies : x.id = y.id => x.slot = y.slot /\ x.value = y.value

(* A turn under way works on a turn the gate allowed, holds only copies    *)
(* that are not retired, and replaces only older records of the same slot  *)
(* by one with another value.                                              *)
TurnOK ==
  \A w \in Workers :
    /\ left[w] # {} => job[w] \in Turns /\ Allowed(job[w])
                       /\ left[w] \subseteq UsablePositions(job[w])
    /\ \A m \in existing[w] : m.superseded_by = NULL
    /\ replacement[w] # NULL => replacement[w].superseded_by = NULL
    /\ match[w] # NULL => pc[w] = "nearest" /\ match[w] \in existing[w]
    /\ stale[w] # {} => pc[w] = "supersede"
    /\ \A m \in stale[w] :
         /\ replacement[w] # NULL /\ m.id < replacement[w].id
         /\ m.slot = replacement[w].slot /\ m.slot # UNSLOTTED
         /\ m.value # replacement[w].value

HistoryOK ==
  \A m \in memories : m.superseded_by # NULL =>
    /\ m.id < m.superseded_by /\ m.superseded_by < nextId
    /\ m.slot # UNSLOTTED
    /\ \A x \in Copies :
         x.id = m.superseded_by => x.slot = m.slot /\ x.value # m.value

SettledOK ==
  \A id \in settled :
    /\ id < nextId
    /\ \A m \in memories : m.id = id => m.superseded_by # NULL
    /\ ~HeldBy(Workers, id)

IInv == TypeOK /\ CopiesOK /\ TurnOK /\ HistoryOK /\ SettledOK
------------------------------------------------------------------------------
(* Reinforcing changes a record's importance only, within its bounds.      *)
LEMMA ReinforcedIsMemory ==
  ASSUME NEW m \in Memory
  PROVE  /\ Reinforced(m) \in Memory
         /\ Same(Reinforced(m), m)
         /\ Reinforced(m).superseded_by = m.superseded_by
BY DEF Reinforced, Memory, Same, MaxImportance

(* Retiring a record changes what it is superseded by only.                *)
LEMMA RetiredIsMemory ==
  ASSUME NEW m \in Memory, NEW id \in Nat
  PROVE  /\ [m EXCEPT !.superseded_by = id] \in Memory
         /\ Same([m EXCEPT !.superseded_by = id], m)
         /\ [m EXCEPT !.superseded_by = id].superseded_by = id
BY DEF Memory, Same

(* A candidate under way is a usable fact of an allowed turn, and the      *)
(* record built from it is new and live.                                   *)
LEMMA BuiltRecord ==
  ASSUME TypeOK, TurnOK, NEW w \in Workers, NEW i, IsDue(w, i)
  PROVE  /\ job[w] \in Turns /\ i \in UsablePositions(job[w])
         /\ Candidate(w, i) \in Fact
         /\ TtlOf(job[w], Candidate(w, i)) \in Nat \cup {NULL}
         /\ Build(job[w], Candidate(w, i)) \in Memory
         /\ Build(job[w], Candidate(w, i)).id = nextId
         /\ Build(job[w], Candidate(w, i)).superseded_by = NULL
         /\ Build(job[w], Candidate(w, i)).slot = Candidate(w, i).slot
         /\ Build(job[w], Candidate(w, i)).value = Candidate(w, i).value
         /\ FromAllowedTurn(Build(job[w], Candidate(w, i)))
<1> DEFINE t == job[w]
           f == Candidate(w, i)
           b == Build(t, f)
<1>1. t \in Turns /\ Allowed(t) /\ i \in UsablePositions(t)
  BY DEF IsDue, TurnOK
<1>2. t \in Turn
  BY <1>1, TurnsAssumption
<1>3. f \in Fact /\ f = t.facts[i]
  BY <1>1, <1>2 DEF UsablePositions, Candidate, Turn
<1>4. TtlOf(t, f) \in Nat \cup {NULL}
  BY <1>3 DEF TtlOf, Fact
<1>5. b.expires_at \in Nat \cup {NULL}
  BY <1>4 DEF Build, TypeOK
<1>6. b \in Memory
  BY <1>2, <1>3, <1>5 DEF Build, Memory, Fact, Turn, TypeOK
<1>7. /\ b.id = nextId /\ b.superseded_by = NULL
      /\ b.slot = f.slot /\ b.value = f.value /\ b.source = t.source
  BY DEF Build
<1>8. b.expires_at = NULL <=> TtlOf(t, f) = NULL
  <2>1. TtlOf(t, f) # NULL => now + TtlOf(t, f) # NULL
    BY <1>4, ConstantsAssumption DEF TypeOK
  <2>2. b.expires_at = IF TtlOf(t, f) = NULL THEN NULL ELSE now + TtlOf(t, f)
    BY DEF Build
  <2> HIDE DEF b
  <2> QED BY <2>1, <2>2
<1>9. FromAllowedTurn(b)
  BY <1>1, <1>3, <1>7, <1>8 DEF FromAllowedTurn
<1> QED BY <1>1, <1>3, <1>4, <1>6, <1>7, <1>9

(* What resolving a candidate does to the turn preserves its types.        *)
LEMMA ResolvedType ==
  ASSUME TypeOK, NEW w \in Workers, NEW i, NEW known \in SUBSET Memory,
         Resolved(w, i, known)
  PROVE  /\ pc' \in [Workers -> {"idle", "resolve", "nearest", "supersede"}]
         /\ job' \in [Workers -> Turns \cup {NULL}]
         /\ left' \in [Workers -> SUBSET Nat]
         /\ existing' \in [Workers -> SUBSET Memory]
         /\ match' \in [Workers -> Memory \cup {NULL}]
         /\ replacement' \in [Workers -> Memory \cup {NULL}]
BY DEF Resolved, TypeOK

LEMMA StatedType ==
  ASSUME TypeOK, NEW t, NEW f \in Fact, Stated(t, f)
  PROVE  said' \in [Slots -> [value : Values, durable : BOOLEAN] \cup {NULL}]
BY DEF Stated, TypeOK, Fact

LEMMA PutType ==
  ASSUME NEW S \in SUBSET Memory, NEW m \in Memory
  PROVE  Put(S, m) \in SUBSET Memory /\ Without(S, m.id) \in SUBSET Memory
BY DEF Put, Without
------------------------------------------------------------------------------
(* Type correctness.                                                       *)

LEMMA QuarantineType ==
  ASSUME TypeOK, NEW t \in Turns, Quarantine(t)
  PROVE  TypeOK'
BY DEF TypeOK, Quarantine, turnVars, history

LEMMA BeginTurnType ==
  ASSUME TypeOK, NEW w \in Workers, NEW t \in Turns, BeginTurn(w, t)
  PROVE  TypeOK'
<1>1. PICK page \in Listed(memories, MaxExisting) :
        existing' = [existing EXCEPT ![w] = ActiveMemories(page)]
  BY DEF BeginTurn
<1>2. page \subseteq memories
  BY DEF Listed
<1>3. existing' \in [Workers -> SUBSET Memory]
  BY <1>1, <1>2 DEF TypeOK, ActiveMemories
<1>4. UsablePositions(t) \subseteq Nat
  BY TurnsAssumption DEF UsablePositions, Turn
<1> QED BY <1>3, <1>4 DEF TypeOK, BeginTurn, storeVars, history

LEMMA ReinforceType ==
  ASSUME TypeOK, TurnOK, NEW w \in Workers, NEW i, IsDue(w, i),
         NEW m \in existing[w], Reinforce(w, i, m)
  PROVE  TypeOK'
<1>1. m \in Memory /\ existing[w] \in SUBSET Memory
  BY DEF TypeOK
<1>2. Reinforced(m) \in Memory
  BY <1>1, ReinforcedIsMemory
<1>3. memories' \in SUBSET Memory
  BY <1>2, PutType DEF Reinforce, TypeOK
<1>4. KnownAfterReinforcing(w, Reinforced(m)) \in SUBSET Memory
  BY <1>1, <1>2, PutType DEF KnownAfterReinforcing
<1>5. Candidate(w, i) \in Fact
  BY BuiltRecord
<1> QED BY <1>3, <1>4, <1>5, ResolvedType, StatedType DEF TypeOK, Reinforce

LEMMA ContradictType ==
  ASSUME TypeOK, TurnOK, NEW w \in Workers, NEW i, Contradict(w, i)
  PROVE  TypeOK'
<1> DEFINE f == Candidate(w, i)
           new == Build(job[w], f)
<1>1. f \in Fact /\ new \in Memory
  BY BuiltRecord DEF Contradict
<1>2. memories' \in SUBSET Memory
  BY <1>1, PutType DEF Contradict, TypeOK
<1>3. SameSlot(w, f) \in SUBSET Memory
  BY DEF SameSlot, TypeOK
<1>4. said' \in [Slots -> [value : Values, durable : BOOLEAN] \cup {NULL}]
  BY <1>1, StatedType DEF Contradict
<1> QED BY <1>1, <1>2, <1>3, <1>4 DEF Contradict, TypeOK

LEMMA SupersedeType ==
  ASSUME TypeOK, TurnOK, NEW w \in Workers, NEW i, NEW m \in stale[w],
         Supersede(w, i, m)
  PROVE  TypeOK'
<1> DEFINE new == replacement[w]
           rest == KnownAfterRetiring(w, m)
           retired == [m EXCEPT !.superseded_by = new.id]
<1>1. m \in Memory /\ new \in Memory /\ new.id \in Nat /\ m.id \in Nat
  BY DEF TypeOK, TurnOK, Memory
<1>2. retired \in Memory
  BY <1>1, RetiredIsMemory
<1>3. memories' \in SUBSET Memory
  <2>1. memories' = Put(memories, retired)
    BY DEF Supersede
  <2> QED BY <1>2, <2>1, PutType DEF TypeOK
<1>4. rest \in SUBSET Memory
  BY DEF KnownAfterRetiring, Without, TypeOK
<1>5. stale' \in [Workers -> SUBSET Memory]
  BY DEF Supersede, TypeOK
<1>6. /\ pc' \in [Workers -> {"idle", "resolve", "nearest", "supersede"}]
      /\ job' \in [Workers -> Turns \cup {NULL}]
      /\ left' \in [Workers -> SUBSET Nat]
      /\ existing' \in [Workers -> SUBSET Memory]
      /\ match' \in [Workers -> Memory \cup {NULL}]
      /\ replacement' \in [Workers -> Memory \cup {NULL}]
  <2>1. CASE stale[w] = {m}
    <3>1. Resolved(w, i, rest \cup {new})
      BY <2>1 DEF Supersede
    <3>2. rest \cup {new} \in SUBSET Memory
      BY <1>1, <1>4
    <3> HIDE DEF rest, new
    <3> QED BY <3>1, <3>2, ResolvedType
  <2>2. CASE stale[w] # {m}
    <3>1. /\ existing' = [existing EXCEPT ![w] = rest]
          /\ UNCHANGED <<pc, job, left, match, replacement>>
      BY <2>2 DEF Supersede
    <3> QED BY <1>4, <3>1 DEF TypeOK
  <2> QED BY <2>1, <2>2
<1>7. ended' \subseteq Nat /\ settled' \subseteq ended'
  BY <1>1 DEF Supersede, TypeOK
<1> QED BY <1>3, <1>5, <1>6, <1>7 DEF Supersede, TypeOK

LEMMA NearestType ==
  ASSUME TypeOK, NEW w \in Workers, NEW i, Nearest(w, i)
  PROVE  TypeOK' /\ \E m \in existing[w] \cup {NULL} :
                       match' = [match EXCEPT ![w] = m]
<1> DEFINE f == Candidate(w, i)
<1>1. PICK page \in TopRanked(memories, TextOf(f), DedupeCandidates) :
        \E m \in IF NearestOf(w, f, page) = {} THEN {NULL}
                 ELSE NearestOf(w, f, page) :
          match' = [match EXCEPT ![w] = m]
  BY DEF Nearest
<1>2. NearestOf(w, f, page) \subseteq existing[w]
  BY DEF NearestOf
<1>3. PICK m \in existing[w] \cup {NULL} : match' = [match EXCEPT ![w] = m]
  BY <1>1, <1>2
<1>4. match' \in [Workers -> Memory \cup {NULL}]
  BY <1>3 DEF TypeOK
<1> QED BY <1>3, <1>4 DEF Nearest, TypeOK, storeVars, history

LEMMA WriteType ==
  ASSUME TypeOK, TurnOK, NEW w \in Workers, NEW i, Write(w, i)
  PROVE  TypeOK'
<1> DEFINE f == Candidate(w, i)
           new == Build(job[w], f)
<1>1. f \in Fact /\ new \in Memory
  BY BuiltRecord DEF Write
<1>2. memories' \in SUBSET Memory
  BY <1>1, PutType DEF Write, TypeOK
<1>3. KnownAfterWriting(w, new) \in SUBSET Memory
  BY <1>1 DEF KnownAfterWriting, TypeOK
<1>4. Resolved(w, i, KnownAfterWriting(w, new)) /\ Stated(job[w], f)
  BY DEF Write
<1> HIDE DEF new, f
<1> QED BY <1>1, <1>2, <1>3, <1>4, ResolvedType, StatedType DEF Write, TypeOK

LEMMA AbortType ==
  ASSUME TypeOK, NEW w \in Workers, Abort(w)
  PROVE  TypeOK'
BY DEF TypeOK, Abort, storeVars, history

LEMMA ForgetType ==
  ASSUME TypeOK, NEW m \in memories, Forget(m)
  PROVE  TypeOK'
<1>1. m \in Memory /\ m.id \in Nat
  BY DEF TypeOK, Memory
<1>2. memories' \in SUBSET Memory
  BY DEF Forget, Without, TypeOK
<1>3. said' \in [Slots -> [value : Values, durable : BOOLEAN] \cup {NULL}]
  BY DEF Forget, TypeOK
<1>4. ended' \subseteq Nat /\ settled' \subseteq ended'
  BY <1>1 DEF Forget, TypeOK
<1> QED BY <1>2, <1>3, <1>4 DEF Forget, TypeOK, turnVars

LEMMA TickType ==
  ASSUME TypeOK, Tick
  PROVE  TypeOK'
BY DEF TypeOK, Tick, storeVars, turnVars, history
------------------------------------------------------------------------------
(* Copies.  A step either keeps the copies there are, up to importance and *)
(* retirement, or adds the one record it builds.                           *)

KeepsCopies ==
  nextId' = nextId /\ \A x \in Copies' : \E y \in Copies : Same(x, y)

AddsCopy(n) ==
  /\ nextId' = nextId + 1
  /\ n.id = nextId /\ FromAllowedTurn(n)
  /\ \A x \in Copies' : x = n \/ \E y \in Copies : Same(x, y)

(* The records a step puts are live, or retired by an older step's record. *)
PutsSound ==
  \A m \in memories' :
    \/ m \in memories \/ m.superseded_by = NULL
    \/ /\ m.slot # UNSLOTTED
       /\ m.id < m.superseded_by /\ m.superseded_by < nextId
       /\ \E r \in Copies :
            r.id = m.superseded_by /\ r.slot = m.slot /\ r.value # m.value

LEMMA CopiesTyped ==
  ASSUME TypeOK
  PROVE  \A x \in Copies : x \in Memory /\ x.id \in Nat
<1>1. \A w \in Workers : CopiesOf(w) \subseteq Memory
  BY DEF TypeOK, CopiesOf
<1>2. Copies \subseteq Memory
  BY <1>1 DEF TypeOK, Copies
<1> QED BY <1>2 DEF Memory

(* What puts a record among the copies.                                    *)
LEMMA CopiesMembers ==
  ASSUME NEW w \in Workers
  PROVE  /\ memories \subseteq Copies
         /\ existing[w] \subseteq Copies /\ stale[w] \subseteq Copies
         /\ match[w] # NULL => match[w] \in Copies
         /\ replacement[w] # NULL => replacement[w] \in Copies
BY DEF Copies, CopiesOf

LEMMA KeepsCopiesOK ==
  ASSUME TypeOK, CopiesOK, KeepsCopies
  PROVE  CopiesOK'
<1>1. ASSUME NEW x \in Copies'
      PROVE  x.id < nextId' /\ FromAllowedTurn(x)'
  <2>1. PICK y \in Copies : Same(x, y)
    BY DEF KeepsCopies
  <2>2. y.id < nextId /\ FromAllowedTurn(y)
    BY DEF CopiesOK
  <2> QED BY <2>1, <2>2 DEF Same, FromAllowedTurn, KeepsCopies
<1>2. ASSUME NEW x \in Copies', NEW z \in Copies', x.id = z.id
      PROVE  x.slot = z.slot /\ x.value = z.value
  <2>1. PICK y \in Copies : Same(x, y)
    BY DEF KeepsCopies
  <2>2. PICK u \in Copies : Same(z, u)
    BY DEF KeepsCopies
  <2> QED BY <1>2, <2>1, <2>2 DEF Same, CopiesOK
<1> QED BY <1>1, <1>2 DEF CopiesOK

LEMMA AddsCopyOK ==
  ASSUME TypeOK, CopiesOK, NEW n, AddsCopy(n)
  PROVE  CopiesOK'
<1>1. \A y \in Copies : y.id \in Nat /\ y.id < nextId
  BY CopiesTyped DEF CopiesOK
<1>2. ASSUME NEW x \in Copies'
      PROVE  x.id < nextId' /\ FromAllowedTurn(x)'
  <2>1. CASE x = n
    BY <2>1 DEF AddsCopy, FromAllowedTurn, TypeOK
  <2>2. CASE \E y \in Copies : Same(x, y)
    <3>1. PICK y \in Copies : Same(x, y)
      BY <2>2
    <3>2. y.id < nextId /\ y.id \in Nat /\ FromAllowedTurn(y)
      BY <1>1 DEF CopiesOK
    <3> QED BY <3>1, <3>2 DEF Same, FromAllowedTurn, AddsCopy, TypeOK
  <2> QED BY <2>1, <2>2 DEF AddsCopy
<1>3. ASSUME NEW x \in Copies', NEW z \in Copies', x.id = z.id
      PROVE  x.slot = z.slot /\ x.value = z.value
  <2>1. CASE x = n \/ z = n
    <3>1. x.id = nextId /\ z.id = nextId
      BY <1>3, <2>1 DEF AddsCopy
    <3>2. x = n /\ z = n
      BY <1>1, <3>1 DEF AddsCopy, Same, TypeOK
    <3> QED BY <3>2
  <2>2. CASE x # n /\ z # n
    <3>1. PICK y \in Copies : Same(x, y)
      BY <2>2 DEF AddsCopy
    <3>2. PICK u \in Copies : Same(z, u)
      BY <2>2 DEF AddsCopy
    <3> QED BY <1>3, <3>1, <3>2 DEF Same, CopiesOK
  <2> QED BY <2>1, <2>2
<1> QED BY <1>2, <1>3 DEF CopiesOK

LEMMA HistoryStep ==
  ASSUME TypeOK, CopiesOK, HistoryOK, TypeOK', PutsSound,
         KeepsCopies \/ \E n : AddsCopy(n)
  PROVE  HistoryOK'
<1>1. /\ nextId \in Nat /\ nextId' \in Nat /\ nextId <= nextId'
      /\ \A x \in Copies' : x.id = nextId \/ \E y \in Copies : Same(x, y)
  BY DEF KeepsCopies, AddsCopy, TypeOK
<1> SUFFICES ASSUME NEW m \in memories', m.superseded_by # NULL
             PROVE  /\ m.id < m.superseded_by /\ m.superseded_by < nextId'
                    /\ m.slot # UNSLOTTED
                    /\ \A x \in Copies' : x.id = m.superseded_by
                         => x.slot = m.slot /\ x.value # m.value
  BY DEF HistoryOK
<1>2. m.id \in Nat /\ m.superseded_by \in Nat
  BY DEF TypeOK, Memory
<1>3. CASE m \in memories
  <2>1. /\ m.id < m.superseded_by /\ m.superseded_by < nextId
        /\ m.slot # UNSLOTTED
        /\ \A y \in Copies : y.id = m.superseded_by
             => y.slot = m.slot /\ y.value # m.value
    BY <1>3 DEF HistoryOK
  <2> QED BY <1>1, <1>2, <2>1 DEF Same
<1>4. CASE m \notin memories
  <2>1. /\ m.slot # UNSLOTTED
        /\ m.id < m.superseded_by /\ m.superseded_by < nextId
        /\ \E r \in Copies :
             r.id = m.superseded_by /\ r.slot = m.slot /\ r.value # m.value
    BY <1>4 DEF PutsSound
  <2>2. \A y \in Copies : y.id = m.superseded_by
          => y.slot = m.slot /\ y.value # m.value
    BY <2>1 DEF CopiesOK
  <2> QED BY <1>1, <1>2, <2>1, <2>2 DEF Same
<1> QED BY <1>3, <1>4
------------------------------------------------------------------------------
(* A resolved candidate leaves the turn with what it knows, or with        *)
(* nothing, and every other turn with what it had.                         *)

LEMMA ResolvedCopies ==
  ASSUME TypeOK, NEW w \in Workers, NEW i, NEW known, Resolved(w, i, known),
         \A v \in Workers : stale'[v] \subseteq stale[v]
  PROVE  Copies' \subseteq memories' \cup Copies \cup known
<1>1. ASSUME NEW v \in Workers
      PROVE  CopiesOf(v)' \subseteq CopiesOf(v) \cup known
  BY DEF CopiesOf, Resolved, TypeOK
<1> QED BY <1>1 DEF Copies

LEMMA ResolvedTurn ==
  ASSUME TypeOK, TurnOK, NEW w \in Workers, NEW i, NEW known,
         Resolved(w, i, known), \A m \in known : m.superseded_by = NULL,
         stale'[w] = {}, \A v \in Workers \ {w} : stale'[v] = stale[v]
  PROVE  TurnOK'
<1> SUFFICES ASSUME NEW v \in Workers
             PROVE  /\ left'[v] # {} => job'[v] \in Turns /\ Allowed(job'[v])
                              /\ left'[v] \subseteq UsablePositions(job'[v])
                    /\ \A m \in existing'[v] : m.superseded_by = NULL
                    /\ replacement'[v] # NULL => replacement'[v].superseded_by = NULL
                    /\ match'[v] # NULL => pc'[v] = "nearest" /\ match'[v] \in existing'[v]
                    /\ stale'[v] # {} => pc'[v] = "supersede"
                    /\ \A m \in stale'[v] :
                         /\ replacement'[v] # NULL /\ m.id < replacement'[v].id
                         /\ m.slot = replacement'[v].slot /\ m.slot # UNSLOTTED
                         /\ m.value # replacement'[v].value
  BY DEF TurnOK
<1>1. CASE v = w
  <2>1. left'[w] = left[w] \ {i} /\ match'[w] = NULL /\ replacement'[w] = NULL
    BY DEF Resolved, TypeOK
  <2>2. left'[w] # {} => job'[w] = job[w]
    BY DEF Resolved, TypeOK
  <2>3. existing'[w] \subseteq known
    BY DEF Resolved, TypeOK
  <2> QED BY <1>1, <2>1, <2>2, <2>3 DEF TurnOK
<1>2. CASE v # w
  <2>1. /\ pc'[v] = pc[v] /\ job'[v] = job[v] /\ left'[v] = left[v]
        /\ existing'[v] = existing[v] /\ match'[v] = match[v]
        /\ replacement'[v] = replacement[v] /\ stale'[v] = stale[v]
    BY <1>2 DEF Resolved, TypeOK
  <2> QED BY <2>1 DEF TurnOK
<1> QED BY <1>1, <1>2

(* No turn comes to hold an id that was not held, unless it is brand new.  *)
LEMMA ResolvedHeld ==
  ASSUME TypeOK, NEW w \in Workers, NEW i, NEW known, Resolved(w, i, known),
         NEW id, HeldBy(Workers, id)'
  PROVE  HeldBy(Workers, id) \/ \E m \in known : m.id = id
<1>1. PICK v \in Workers :
        \/ \E m \in existing'[v] : m.id = id
        \/ replacement'[v] # NULL /\ replacement'[v].id = id
  BY DEF HeldBy
<1>2. CASE v = w
  BY <1>1, <1>2 DEF Resolved, TypeOK
<1>3. CASE v # w
  <2>1. existing'[v] = existing[v] /\ replacement'[v] = replacement[v]
    BY <1>3 DEF Resolved, TypeOK
  <2> QED BY <1>1, <2>1 DEF HeldBy
<1> QED BY <1>2, <1>3

(* Reinforcing puts a copy the turn holds, so never a settled record.      *)
LEMMA ReinforceInv ==
  ASSUME IInv, NEW w \in Workers, NEW i, IsDue(w, i), pc[w] # "supersede",
         NEW m \in existing[w], Reinforce(w, i, m)
  PROVE  KeepsCopies /\ PutsSound /\ TurnOK' /\ SettledOK'
<1> DEFINE r == Reinforced(m)
           known == KnownAfterReinforcing(w, r)
<1> USE DEF IInv
<1>1. m \in Memory /\ m.superseded_by = NULL /\ m \in Copies
  BY CopiesMembers DEF TypeOK, TurnOK
<1>2. r \in Memory /\ Same(r, m) /\ r.superseded_by = NULL
  BY <1>1, ReinforcedIsMemory
<1>3. /\ memories' \subseteq memories \cup {r}
      /\ known \subseteq existing[w] \cup {r}
      /\ nextId' = nextId /\ settled' = settled /\ stale' = stale
      /\ Resolved(w, i, known)
  BY DEF Reinforce, KnownAfterReinforcing, Put, Without
<1> HIDE DEF r, known
<1>4. KeepsCopies
  <2>1. Copies' \subseteq memories' \cup Copies \cup known
    BY <1>3, ResolvedCopies
  <2>2. Copies' \subseteq Copies \cup {r}
    BY <1>3, <2>1, CopiesMembers
  <2> QED BY <1>1, <1>2, <1>3, <2>2 DEF KeepsCopies, Same
<1>5. PutsSound
  BY <1>2, <1>3 DEF PutsSound
<1>6. TurnOK'
  <2>1. \A x \in known : x.superseded_by = NULL
    BY <1>2, <1>3 DEF TurnOK
  <2>2. stale'[w] = {}
    BY <1>3 DEF TurnOK
  <2> QED BY <1>3, <2>1, <2>2, ResolvedTurn
<1>7. SettledOK'
  <2> SUFFICES ASSUME NEW id \in settled
               PROVE  /\ id < nextId'
                      /\ \A x \in memories' : x.id = id => x.superseded_by # NULL
                      /\ ~HeldBy(Workers, id)'
    BY <1>3 DEF SettledOK
  <2>1. ~HeldBy(Workers, id) /\ id < nextId
    BY DEF SettledOK
  <2>2. \A x \in existing[w] \cup {r} : x.id # id
    BY <1>2, <2>1 DEF HeldBy, Same
  <2>3. \A x \in memories' : x.id = id => x.superseded_by # NULL
    BY <1>3, <2>2 DEF SettledOK
  <2>4. ~HeldBy(Workers, id)'
    BY <1>3, <2>1, <2>2, ResolvedHeld
  <2> QED BY <1>3, <2>1, <2>3, <2>4
<1> QED BY <1>4, <1>5, <1>6, <1>7
(* A new record has an id no copy has, and joins what its turn knows.      *)
LEMMA WriteInv ==
  ASSUME IInv, NEW w \in Workers, NEW i, Write(w, i)
  PROVE  (\E n : AddsCopy(n)) /\ PutsSound /\ TurnOK' /\ SettledOK'
<1> DEFINE n == Build(job[w], Candidate(w, i))
           known == KnownAfterWriting(w, n)
<1> USE DEF IInv
<1>1. /\ n \in Memory /\ n.id = nextId /\ n.superseded_by = NULL
      /\ FromAllowedTurn(n)
  BY BuiltRecord DEF Write
<1>2. /\ memories' \subseteq memories \cup {n}
      /\ known \subseteq existing[w] \cup {n}
      /\ nextId' = nextId + 1 /\ settled' = settled /\ stale' = stale
      /\ Resolved(w, i, known)
      /\ pc[w] # "supersede"
  BY DEF Write, IsNews, KnownAfterWriting, Put, Without
<1> HIDE DEF n, known
<1>3. AddsCopy(n)
  <2>1. Copies' \subseteq memories' \cup Copies \cup known
    BY <1>2, ResolvedCopies
  <2>2. Copies' \subseteq Copies \cup {n}
    BY <1>2, <2>1, CopiesMembers
  <2> QED BY <1>1, <1>2, <2>2 DEF AddsCopy, Same
<1>4. PutsSound
  BY <1>1, <1>2 DEF PutsSound
<1>5. TurnOK'
  <2>1. \A x \in known : x.superseded_by = NULL
    BY <1>1, <1>2 DEF TurnOK
  <2>2. stale'[w] = {}
    BY <1>2 DEF TurnOK
  <2> QED BY <1>2, <2>1, <2>2, ResolvedTurn
<1>6. SettledOK'
  <2> SUFFICES ASSUME NEW id \in settled
               PROVE  /\ id < nextId'
                      /\ \A x \in memories' : x.id = id => x.superseded_by # NULL
                      /\ ~HeldBy(Workers, id)'
    BY <1>2 DEF SettledOK
  <2>1. /\ ~HeldBy(Workers, id) /\ id < nextId
        /\ id \in Nat /\ nextId \in Nat
    BY DEF SettledOK, TypeOK
  <2>2. \A x \in existing[w] \cup {n} : x.id # id
    BY <1>1, <2>1 DEF HeldBy
  <2>3. \A x \in memories' : x.id = id => x.superseded_by # NULL
    BY <1>2, <2>2 DEF SettledOK
  <2>4. ~HeldBy(Workers, id)'
    BY <1>2, <2>1, <2>2, ResolvedHeld
  <2> QED BY <1>2, <2>1, <2>3, <2>4
<1> QED BY <1>3, <1>4, <1>5, <1>6

(* The replacement is put, and everything of its slot is to be retired.    *)
LEMMA ContradictInv ==
  ASSUME IInv, NEW w \in Workers, NEW i, Contradict(w, i)
  PROVE  (\E n : AddsCopy(n)) /\ PutsSound /\ TurnOK' /\ SettledOK'
<1> DEFINE f == Candidate(w, i)
           n == Build(job[w], f)
<1> USE DEF IInv
<1>1. /\ n \in Memory /\ n.id = nextId /\ n.superseded_by = NULL
      /\ n.slot = f.slot /\ n.value = f.value /\ FromAllowedTurn(n)
  BY BuiltRecord DEF Contradict
<1>2. /\ memories' \subseteq memories \cup {n}
      /\ nextId' = nextId + 1 /\ settled' = settled
      /\ pc[w] = "resolve" /\ pc' = [pc EXCEPT ![w] = "supersede"]
      /\ replacement' = [replacement EXCEPT ![w] = n]
      /\ stale' = [stale EXCEPT ![w] = SameSlot(w, f)]
      /\ job' = job /\ left' = left /\ existing' = existing /\ match' = match
      /\ f.slot # UNSLOTTED /\ Duplicates(w, f) = {}
  BY DEF Contradict, Put, Without
<1>3. \A x \in SameSlot(w, f) :
        /\ x \in existing[w] /\ x.slot = f.slot /\ x.value # f.value
        /\ x.id < nextId
  BY <1>2, CopiesMembers DEF SameSlot, Duplicates, CopiesOK
<1> HIDE DEF n, f
<1>4. AddsCopy(n)
  <2>1. ASSUME NEW v \in Workers
        PROVE  CopiesOf(v)' \subseteq CopiesOf(v) \cup {n}
    BY <1>2, <1>3 DEF CopiesOf, TypeOK
  <2>2. Copies' \subseteq Copies \cup {n}
    BY <1>2, <2>1 DEF Copies
  <2> QED BY <1>1, <1>2, <2>2 DEF AddsCopy, Same
<1>5. PutsSound
  BY <1>1, <1>2 DEF PutsSound
<1>6. TurnOK'
  <2> SUFFICES ASSUME NEW v \in Workers
               PROVE  /\ match[v] # NULL => pc'[v] = "nearest"
                      /\ replacement'[v] # NULL => replacement'[v].superseded_by = NULL
                      /\ stale'[v] # {} => pc'[v] = "supersede"
                      /\ \A m \in stale'[v] :
                           /\ replacement'[v] # NULL /\ m.id < replacement'[v].id
                           /\ m.slot = replacement'[v].slot /\ m.slot # UNSLOTTED
                           /\ m.value # replacement'[v].value
    BY <1>2 DEF TurnOK
  <2>1. CASE v = w
    <3>1. pc'[w] = "supersede" /\ replacement'[w] = n /\ stale'[w] = SameSlot(w, f)
      BY <1>2 DEF TypeOK
    <3>2. match[w] = NULL
      BY <1>2 DEF TurnOK
    <3>3. n # NULL
      BY <1>1, ConstantsAssumption
    <3> QED BY <1>1, <1>2, <1>3, <2>1, <3>1, <3>2, <3>3
  <2>2. CASE v # w
    <3>1. pc'[v] = pc[v] /\ replacement'[v] = replacement[v] /\ stale'[v] = stale[v]
      BY <1>2, <2>2 DEF TypeOK
    <3> QED BY <3>1 DEF TurnOK
  <2> QED BY <2>1, <2>2
<1>7. SettledOK'
  <2> SUFFICES ASSUME NEW id \in settled
               PROVE  /\ id < nextId'
                      /\ \A x \in memories' : x.id = id => x.superseded_by # NULL
                      /\ ~HeldBy(Workers, id)'
    BY <1>2 DEF SettledOK
  <2>1. /\ ~HeldBy(Workers, id) /\ id < nextId
        /\ id \in Nat /\ nextId \in Nat
    BY DEF SettledOK, TypeOK
  <2>2. n.id # id
    BY <1>1, <2>1
  <2>3. \A x \in memories' : x.id = id => x.superseded_by # NULL
    BY <1>2, <2>2 DEF SettledOK
  <2>4. ~HeldBy(Workers, id)'
    BY <1>2, <2>1, <2>2 DEF HeldBy, TypeOK
  <2> QED BY <1>2, <2>1, <2>3, <2>4
<1> QED BY <1>4, <1>5, <1>6, <1>7
(* The turn's copy is put as retired, under a younger record's id; it is   *)
(* settled only if no other turn can put it back.                          *)
LEMMA SupersedeInv ==
  ASSUME IInv, NEW w \in Workers, NEW i, NEW m \in stale[w], Supersede(w, i, m)
  PROVE  KeepsCopies /\ PutsSound /\ TurnOK' /\ SettledOK'
<1> DEFINE new == replacement[w]
           r == [m EXCEPT !.superseded_by = new.id]
           rest == KnownAfterRetiring(w, m)
<1> USE DEF IInv
<1>1. /\ m \in Memory /\ new \in Memory /\ new # NULL
      /\ m \in Copies /\ new \in Copies
      /\ m.id \in Nat /\ new.id \in Nat /\ m.id < new.id /\ new.id < nextId
      /\ m.slot = new.slot /\ m.slot # UNSLOTTED /\ m.value # new.value
      /\ new.superseded_by = NULL
  <2>1. m \in Memory /\ new \in Memory /\ new # NULL /\ m \in Copies /\ new \in Copies
    BY CopiesMembers DEF TypeOK, TurnOK
  <2> QED BY <2>1, CopiesTyped DEF TurnOK, CopiesOK
<1>2. r \in Memory /\ Same(r, m) /\ r.superseded_by = new.id
  BY <1>1, RetiredIsMemory
<1>3. /\ memories' = Without(memories, m.id) \cup {r}
      /\ rest = {x \in existing[w] : x.id # m.id}
      /\ nextId' = nextId /\ stale' = [stale EXCEPT ![w] = @ \ {m}]
      /\ settled' = IF HeldBy(Workers \ {w}, m.id) THEN settled
                    ELSE settled \cup {m.id}
  BY <1>1, <1>2 DEF Supersede, KnownAfterRetiring, Put, Without, Same
<1>4. \/ stale[w] = {m} /\ Resolved(w, i, rest \cup {new})
      \/ /\ stale[w] # {m}
         /\ existing' = [existing EXCEPT ![w] = rest]
         /\ UNCHANGED <<pc, job, left, match, replacement>>
  BY DEF Supersede
<1>5. pc[w] = "supersede"
  BY DEF Supersede
<1> HIDE DEF new, r, rest
<1>6. \A v \in Workers : stale'[v] \subseteq stale[v]
  BY <1>3 DEF TypeOK
<1>7. KeepsCopies
  <2>1. Copies' \subseteq memories' \cup Copies
    <3>1. CASE Resolved(w, i, rest \cup {new})
      <4>1. Copies' \subseteq memories' \cup Copies \cup (rest \cup {new})
        BY <1>6, <3>1, ResolvedCopies
      <4> QED BY <1>1, <1>3, <4>1, CopiesMembers
    <3>2. CASE /\ existing' = [existing EXCEPT ![w] = rest]
               /\ UNCHANGED <<match, replacement>>
      <4>1. ASSUME NEW v \in Workers
            PROVE  CopiesOf(v)' \subseteq CopiesOf(v)
        BY <1>3, <1>6, <3>2 DEF CopiesOf, TypeOK
      <4> QED BY <4>1 DEF Copies
    <3> QED BY <1>4, <3>1, <3>2
  <2>2. memories' \subseteq Copies \cup {r}
    BY <1>3, CopiesMembers DEF Without
  <2> QED BY <1>1, <1>2, <1>3, <2>1, <2>2 DEF KeepsCopies, Same
<1>8. PutsSound
  <2>1. /\ r.slot # UNSLOTTED /\ r.id < r.superseded_by
        /\ r.superseded_by < nextId
        /\ new.id = r.superseded_by /\ new.slot = r.slot /\ new.value # r.value
    BY <1>1, <1>2 DEF Same
  <2> QED BY <1>1, <1>3, <2>1 DEF PutsSound, Without
<1>9. TurnOK'
  <2>1. CASE stale[w] = {m} /\ Resolved(w, i, rest \cup {new})
    <3>1. \A x \in rest \cup {new} : x.superseded_by = NULL
      BY <1>1, <1>3 DEF TurnOK
    <3>2. stale'[w] = {} /\ \A v \in Workers \ {w} : stale'[v] = stale[v]
      BY <1>3, <2>1 DEF TypeOK
    <3> QED BY <2>1, <3>1, <3>2, ResolvedTurn
  <2>2. CASE /\ existing' = [existing EXCEPT ![w] = rest]
             /\ UNCHANGED <<pc, job, left, match, replacement>>
    <3> SUFFICES ASSUME NEW v \in Workers
                 PROVE  /\ \A x \in existing'[v] : x.superseded_by = NULL
                        /\ match[v] # NULL => match[v] \in existing'[v]
      BY <1>6, <2>2 DEF TurnOK
    <3>1. CASE v = w
      BY <1>3, <1>5, <2>2, <3>1 DEF TurnOK, TypeOK
    <3>2. CASE v # w
      BY <2>2, <3>2 DEF TurnOK, TypeOK
    <3> QED BY <3>1, <3>2
  <2> QED BY <1>4, <2>1, <2>2
<1>10. SettledOK'
  <2>1. \A v \in Workers \ {w} :
          existing'[v] = existing[v] /\ replacement'[v] = replacement[v]
    BY <1>4 DEF Resolved, TypeOK
  <2>2. /\ existing'[w] \subseteq rest \cup {new}
        /\ replacement'[w] \in {NULL, new}
    <3>1. CASE Resolved(w, i, rest \cup {new})
      BY <3>1 DEF Resolved, TypeOK
    <3>2. CASE /\ existing' = [existing EXCEPT ![w] = rest]
               /\ UNCHANGED replacement
      BY <3>2 DEF TypeOK, new
    <3> QED BY <1>4, <3>1, <3>2
  <2>3. ASSUME NEW id \in settled
        PROVE  /\ id < nextId'
               /\ \A x \in memories' : x.id = id => x.superseded_by # NULL
               /\ ~HeldBy(Workers, id)'
    <3>1. ~HeldBy(Workers, id) /\ id < nextId /\ new.id # id
      BY <1>1 DEF SettledOK, HeldBy, new
    <3>2. \A x \in memories' : x.id = id => x.superseded_by # NULL
      BY <1>1, <1>2, <1>3, ConstantsAssumption DEF SettledOK, Without
    <3>3. ~HeldBy(Workers, id)'
      BY <1>3, <2>1, <2>2, <3>1 DEF HeldBy
    <3> QED BY <1>3, <3>1, <3>2, <3>3
  <2>4. ASSUME ~HeldBy(Workers \ {w}, m.id)
        PROVE  /\ m.id < nextId'
               /\ \A x \in memories' : x.id = m.id => x.superseded_by # NULL
               /\ ~HeldBy(Workers, m.id)'
    <3>1. m.id < nextId'
      BY <1>1, <1>3 DEF TypeOK
    <3>2. \A x \in memories' : x.id = m.id => x.superseded_by # NULL
      BY <1>1, <1>2, <1>3, ConstantsAssumption DEF Without
    <3>3. new.id # m.id
      BY <1>1
    <3>4. ~HeldBy(Workers, m.id)'
      BY <1>3, <2>1, <2>2, <2>4, <3>3 DEF HeldBy
    <3> QED BY <3>1, <3>2, <3>4
  <2> QED BY <1>3, <2>3, <2>4 DEF SettledOK
<1> QED BY <1>7, <1>8, <1>9, <1>10
(* What a turn reads is live, so it is not settled.                        *)
LEMMA BeginTurnInv ==
  ASSUME IInv, NEW w \in Workers, NEW t \in Turns, BeginTurn(w, t)
  PROVE  KeepsCopies /\ PutsSound /\ TurnOK' /\ SettledOK'
<1> USE DEF IInv
<1>1. PICK page \in Listed(memories, MaxExisting) :
        existing' = [existing EXCEPT ![w] = ActiveMemories(page)]
  BY DEF BeginTurn
<1>2. /\ ActiveMemories(page) \subseteq memories
      /\ \A m \in ActiveMemories(page) : m.superseded_by = NULL
  BY DEF Listed, ActiveMemories, IsActive
<1>3. /\ pc[w] = "idle" /\ pc' = [pc EXCEPT ![w] = "resolve"]
      /\ job' = [job EXCEPT ![w] = t]
      /\ left' = [left EXCEPT ![w] = UsablePositions(t)]
      /\ Allowed(t)
      /\ memories' = memories /\ nextId' = nextId /\ settled' = settled
      /\ match' = match /\ replacement' = replacement /\ stale' = stale
  BY DEF BeginTurn, storeVars, history
<1>4. KeepsCopies
  <2>1. ASSUME NEW v \in Workers
        PROVE  CopiesOf(v)' \subseteq CopiesOf(v) \cup memories
    BY <1>1, <1>2, <1>3 DEF CopiesOf, TypeOK
  <2>2. Copies' \subseteq Copies
    BY <1>3, <2>1 DEF Copies
  <2> QED BY <1>3, <2>2 DEF KeepsCopies, Same
<1>5. PutsSound
  BY <1>3 DEF PutsSound
<1>6. TurnOK'
  <2> SUFFICES ASSUME NEW v \in Workers
               PROVE  /\ left'[v] # {} => job'[v] \in Turns /\ Allowed(job'[v])
                                /\ left'[v] \subseteq UsablePositions(job'[v])
                      /\ \A m \in existing'[v] : m.superseded_by = NULL
                      /\ match[v] # NULL => pc'[v] = "nearest" /\ match[v] \in existing'[v]
                      /\ stale[v] # {} => pc'[v] = "supersede"
    BY <1>3 DEF TurnOK
  <2>1. CASE v = w
    BY <1>1, <1>2, <1>3, <2>1 DEF TurnOK, TypeOK
  <2>2. CASE v # w
    BY <1>1, <1>3, <2>2 DEF TurnOK, TypeOK
  <2> QED BY <2>1, <2>2
<1>7. SettledOK'
  BY <1>1, <1>2, <1>3 DEF SettledOK, HeldBy, TypeOK
<1> QED BY <1>4, <1>5, <1>6, <1>7

LEMMA NearestInv ==
  ASSUME IInv, NEW w \in Workers, NEW i, Nearest(w, i)
  PROVE  KeepsCopies /\ PutsSound /\ TurnOK' /\ SettledOK'
<1> USE DEF IInv
<1>1. PICK m \in existing[w] \cup {NULL} : match' = [match EXCEPT ![w] = m]
  BY NearestType
<1>2. /\ pc[w] = "resolve" /\ pc' = [pc EXCEPT ![w] = "nearest"]
      /\ memories' = memories /\ nextId' = nextId /\ settled' = settled
      /\ job' = job /\ left' = left /\ existing' = existing
      /\ replacement' = replacement /\ stale' = stale
  BY DEF Nearest, storeVars, history
<1>3. KeepsCopies
  <2>1. ASSUME NEW v \in Workers
        PROVE  CopiesOf(v)' \subseteq CopiesOf(v)
    BY <1>1, <1>2 DEF CopiesOf, TypeOK
  <2>2. Copies' \subseteq Copies
    BY <1>2, <2>1 DEF Copies
  <2> QED BY <1>2, <2>2 DEF KeepsCopies, Same
<1>4. PutsSound
  BY <1>2 DEF PutsSound
<1>5. TurnOK'
  <2> SUFFICES ASSUME NEW v \in Workers
               PROVE  /\ match'[v] # NULL => pc'[v] = "nearest" /\ match'[v] \in existing[v]
                      /\ stale[v] # {} => pc'[v] = "supersede"
    BY <1>2 DEF TurnOK
  <2>1. CASE v = w
    BY <1>1, <1>2, <2>1 DEF TurnOK, TypeOK
  <2>2. CASE v # w
    BY <1>1, <1>2, <2>2 DEF TurnOK, TypeOK
  <2> QED BY <2>1, <2>2
<1>6. SettledOK'
  BY <1>2 DEF SettledOK, HeldBy
<1> QED BY <1>3, <1>4, <1>5, <1>6

(* A turn that stops drops its copies.                                     *)
LEMMA AbortInv ==
  ASSUME IInv, NEW w \in Workers, Abort(w)
  PROVE  KeepsCopies /\ PutsSound /\ TurnOK' /\ SettledOK'
<1> USE DEF IInv
<1>1. /\ memories' = memories /\ nextId' = nextId /\ settled' = settled
      /\ left'[w] = {} /\ existing'[w] = {} /\ match'[w] = NULL
      /\ replacement'[w] = NULL /\ stale'[w] = {}
      /\ \A v \in Workers \ {w} :
           /\ pc'[v] = pc[v] /\ job'[v] = job[v] /\ left'[v] = left[v]
           /\ existing'[v] = existing[v] /\ match'[v] = match[v]
           /\ replacement'[v] = replacement[v] /\ stale'[v] = stale[v]
  BY DEF Abort, storeVars, history, TypeOK
<1>2. KeepsCopies
  <2>1. ASSUME NEW v \in Workers
        PROVE  CopiesOf(v)' \subseteq CopiesOf(v)
    BY <1>1 DEF CopiesOf
  <2>2. Copies' \subseteq Copies
    BY <1>1, <2>1 DEF Copies
  <2> QED BY <1>1, <2>2 DEF KeepsCopies, Same
<1>3. PutsSound
  BY <1>1 DEF PutsSound
<1>4. TurnOK'
  <2> SUFFICES ASSUME NEW v \in Workers
               PROVE  /\ left'[v] # {} => job'[v] \in Turns /\ Allowed(job'[v])
                                /\ left'[v] \subseteq UsablePositions(job'[v])
                      /\ \A m \in existing'[v] : m.superseded_by = NULL
                      /\ replacement'[v] # NULL => replacement'[v].superseded_by = NULL
                      /\ match'[v] # NULL => pc'[v] = "nearest" /\ match'[v] \in existing'[v]
                      /\ stale'[v] # {} => pc'[v] = "supersede"
                      /\ \A m \in stale'[v] :
                           /\ replacement'[v] # NULL /\ m.id < replacement'[v].id
                           /\ m.slot = replacement'[v].slot /\ m.slot # UNSLOTTED
                           /\ m.value # replacement'[v].value
    BY DEF TurnOK
  <2>1. CASE v = w
    BY <1>1, <2>1
  <2>2. CASE v # w
    BY <1>1, <2>2 DEF TurnOK
  <2> QED BY <2>1, <2>2
<1>5. SettledOK'
  BY <1>1 DEF SettledOK, HeldBy
<1> QED BY <1>2, <1>3, <1>4, <1>5

(* A delete leaves the turns alone, and settles what none of them holds.   *)
LEMMA ForgetInv ==
  ASSUME IInv, NEW m \in memories, Forget(m)
  PROVE  KeepsCopies /\ PutsSound /\ TurnOK' /\ SettledOK'
<1> USE DEF IInv
<1>1. /\ memories' = Without(memories, m.id) /\ nextId' = nextId
      /\ settled' = IF HeldBy(Workers, m.id) THEN settled ELSE settled \cup {m.id}
      /\ UNCHANGED <<pc, job, left, existing, match, replacement, stale>>
  BY DEF Forget, turnVars
<1>2. Copies' \subseteq Copies
  BY <1>1 DEF Copies, CopiesOf, Without
<1>3. m.id < nextId
  BY CopiesMembers DEF CopiesOK, Copies
<1>4. KeepsCopies
  BY <1>1, <1>2 DEF KeepsCopies, Same
<1>5. PutsSound
  BY <1>1 DEF PutsSound, Without
<1>6. TurnOK'
  BY <1>1 DEF TurnOK
<1>7. SettledOK'
  BY <1>1, <1>3 DEF SettledOK, HeldBy, Without
<1> QED BY <1>4, <1>5, <1>6, <1>7

(* Steps that touch neither the memories nor the turns.                    *)
LEMMA OtherInv ==
  ASSUME IInv, UNCHANGED <<memories, nextId, settled, turnVars>>
  PROVE  KeepsCopies /\ PutsSound /\ TurnOK' /\ SettledOK'
<1> USE DEF IInv, turnVars
<1>1. Copies' = Copies
  BY DEF Copies, CopiesOf
<1>2. KeepsCopies /\ PutsSound
  BY <1>1 DEF KeepsCopies, PutsSound, Same
<1>3. TurnOK' /\ SettledOK'
  BY DEF TurnOK, SettledOK, HeldBy
<1> QED BY <1>2, <1>3
------------------------------------------------------------------------------
LEMMA InitInv == Init => IInv
<1> SUFFICES ASSUME Init PROVE IInv
  OBVIOUS
<1>1. TypeOK
  BY ConstantsAssumption DEF Init, TypeOK
<1>2. Copies = {}
  BY DEF Init, Copies, CopiesOf
<1>3. CopiesOK /\ TurnOK /\ HistoryOK /\ SettledOK
  BY <1>2 DEF Init, CopiesOK, TurnOK, HistoryOK, SettledOK
<1> QED BY <1>1, <1>3 DEF IInv

LEMMA StepType == IInv /\ [Next]_vars => TypeOK'
<1> SUFFICES ASSUME IInv, [Next]_vars PROVE TypeOK'
  OBVIOUS
<1> USE DEF IInv
<1>1. CASE UNCHANGED vars
  BY <1>1 DEF vars, storeVars, turnVars, history, TypeOK
<1>2. ASSUME NEW w \in Workers, NEW t \in Turns, BeginTurn(w, t) PROVE TypeOK'
  BY <1>2, BeginTurnType
<1>3. ASSUME NEW w \in Workers, NEW i, RestateSlot(w, i) PROVE TypeOK'
  BY <1>3, ReinforceType DEF RestateSlot, Duplicates, SameSlot
<1>4. ASSUME NEW w \in Workers, NEW i, Contradict(w, i) PROVE TypeOK'
  BY <1>4, ContradictType
<1>5. ASSUME NEW w \in Workers, NEW i, NEW m \in stale[w], Supersede(w, i, m)
      PROVE  TypeOK'
  BY <1>5, SupersedeType
<1>6. ASSUME NEW w \in Workers, NEW i, Nearest(w, i) PROVE TypeOK'
  BY <1>6, NearestType
<1>7. ASSUME NEW w \in Workers, NEW i, RestateText(w, i) PROVE TypeOK'
  BY <1>7, ReinforceType DEF RestateText, TurnOK
<1>8. ASSUME NEW w \in Workers, NEW i, Write(w, i) PROVE TypeOK'
  BY <1>8, WriteType
<1>9. ASSUME NEW w \in Workers, Abort(w) PROVE TypeOK'
  BY <1>9, AbortType
<1>10. CASE Between
  BY <1>10, QuarantineType, ForgetType, TickType DEF Between
<1> QED
  BY <1>1, <1>2, <1>3, <1>4, <1>5, <1>6, <1>7, <1>8, <1>9, <1>10
  DEF Next, TurnStep, Resolve

(* Every step keeps the copies or adds one, and puts only sound records.   *)
LEMMA StepCopies ==
  IInv /\ [Next]_vars =>
    /\ KeepsCopies \/ \E n : AddsCopy(n)
    /\ PutsSound /\ TurnOK' /\ SettledOK'
<1> DEFINE Goal == /\ KeepsCopies \/ \E n : AddsCopy(n)
                   /\ PutsSound /\ TurnOK' /\ SettledOK'
<1> SUFFICES ASSUME IInv, [Next]_vars PROVE Goal
  OBVIOUS
<1>1. CASE UNCHANGED vars
  BY <1>1, OtherInv DEF vars, storeVars, history
<1>2. ASSUME NEW w \in Workers, NEW t \in Turns, BeginTurn(w, t) PROVE Goal
  BY <1>2, BeginTurnInv
<1>3. ASSUME NEW w \in Workers, NEW i, RestateSlot(w, i) PROVE Goal
  BY <1>3, ReinforceInv DEF RestateSlot, Duplicates, SameSlot
<1>4. ASSUME NEW w \in Workers, NEW i, Contradict(w, i) PROVE Goal
  BY <1>4, ContradictInv
<1>5. ASSUME NEW w \in Workers, NEW i, NEW m \in stale[w], Supersede(w, i, m)
      PROVE  Goal
  BY <1>5, SupersedeInv
<1>6. ASSUME NEW w \in Workers, NEW i, Nearest(w, i) PROVE Goal
  BY <1>6, NearestInv
<1>7. ASSUME NEW w \in Workers, NEW i, RestateText(w, i) PROVE Goal
  BY <1>7, ReinforceInv DEF RestateText, IInv, TurnOK
<1>8. ASSUME NEW w \in Workers, NEW i, Write(w, i) PROVE Goal
  BY <1>8, WriteInv
<1>9. ASSUME NEW w \in Workers, Abort(w) PROVE Goal
  BY <1>9, AbortInv
<1>10. ASSUME NEW m \in memories, Forget(m) PROVE Goal
  BY <1>10, ForgetInv
<1>11. ASSUME Tick \/ \E t \in Turns : Quarantine(t) PROVE Goal
  BY <1>11, OtherInv DEF Tick, Quarantine, storeVars, history
<1> QED
  BY <1>1, <1>2, <1>3, <1>4, <1>5, <1>6, <1>7, <1>8, <1>9, <1>10, <1>11
  DEF Next, TurnStep, Resolve, Between

(* The inductive invariant of the write path, whatever overlaps.           *)
THEOREM Invariance == Spec => []IInv
<1>1. IInv /\ [Next]_vars => IInv'
  <2> SUFFICES ASSUME IInv, [Next]_vars PROVE IInv'
    OBVIOUS
  <2>1. TypeOK'
    BY StepType
  <2>2. (KeepsCopies \/ \E n : AddsCopy(n)) /\ PutsSound /\ TurnOK' /\ SettledOK'
    BY StepCopies
  <2>3. CopiesOK'
    BY <2>2, KeepsCopiesOK, AddsCopyOK DEF IInv
  <2>4. HistoryOK'
    BY <2>1, <2>2, HistoryStep DEF IInv
  <2> QED BY <2>1, <2>2, <2>3, <2>4 DEF IInv
<1> QED BY InitInv, <1>1, PTL DEF Spec

(* The store, the turns and the history variables keep their types.        *)
THEOREM TypeCorrect == Spec => []TypeOK
<1>1. IInv => TypeOK
  BY DEF IInv
<1> QED BY Invariance, <1>1, PTL

(* Superseded records always name a younger record of their slot with      *)
(* another value: manager.py's history is loop-free under every            *)
(* interleaving, failure and delete.                                       *)
THEOREM HistoryIsSound == Spec => []HistoryLeadsForward
<1>1. IInv => HistoryLeadsForward
  BY CopiesMembers DEF IInv, HistoryOK, HistoryLeadsForward, Copies
<1> QED BY Invariance, <1>1, PTL

(* A record superseded or forgotten while no other turn held a copy is     *)
(* never live again.                                                       *)
THEOREM SettledIsFinal == Spec => []SettledStaysSettled
<1>1. IInv => SettledStaysSettled
  BY DEF IInv, SettledOK, SettledStaysSettled
<1> QED BY Invariance, <1>1, PTL

(* Every stored memory is a usable fact of a turn the gate allowed.        *)
THEOREM GateIsSound == Spec => []OnlyAllowedFacts
<1>1. IInv => OnlyAllowedFacts
  BY DEF IInv, CopiesOK, Copies, FromAllowedTurn, OnlyAllowedFacts, Allowed
<1> QED BY Invariance, <1>1, PTL

(* Only the user makes a fact temporary: whatever wrote or reinforced it,  *)
(* a memory that will expire repeats a fact of a turn framed that way.     *)
THEOREM ExpiryIsSupported == Spec => []ExpiryIsMeant
<1>1. ASSUME IInv, NEW m \in memories, m.expires_at # NULL
      PROVE  \E t \in Turns : t.temporal /\ \E i \in DOMAIN t.facts :
               t.facts[i].slot = m.slot /\ t.facts[i].value = m.value
  <2>1. FromAllowedTurn(m)
    BY <1>1, CopiesMembers DEF IInv, CopiesOK, Copies
  <2> QED BY <1>1, <2>1 DEF FromAllowedTurn, UsablePositions, TtlOf
<1>2. IInv => ExpiryIsMeant
  BY <1>1 DEF ExpiryIsMeant
<1> QED BY Invariance, <1>2, PTL

------------------------------------------------------------------------------
(* What the extractors make of a text.                                     *)

(* The places of a set up to one of them.                                  *)
UpTo(P, i) == {j \in P : j <= i}

LEMMA UpToFinite ==
  ASSUME NEW n \in Nat, NEW P, P \subseteq 1..n, NEW i
  PROVE  IsFiniteSet(UpTo(P, i)) /\ Cardinality(UpTo(P, i)) \in Nat
<1>1. IsFiniteSet(1..n)
  BY FS_Interval
<1>2. IsFiniteSet(P)
  BY <1>1, FS_Subset
<1>3. UpTo(P, i) \subseteq P
  BY DEF UpTo
<1> QED BY <1>2, <1>3, FS_Subset, FS_CardinalityType

(* The first number of a set.                                              *)
LEMMA FirstOf ==
  ASSUME NEW T \in SUBSET Nat, T # {}
  PROVE  \E x \in T : \A y \in T : x <= y
<1> DEFINE R == OpToRel(<, Nat)
<1>1. \E x \in T : \A y \in T : ~ (<<y, x>> \in R)
  BY NatLessThanWellFounded, WFMin
<1>2. \A x, y \in Nat : y < x => <<y, x>> \in R
  BY DEF OpToRel
<1> HIDE DEF R
<1>3. PICK x \in T : \A y \in T : ~ (<<y, x>> \in R)
  BY <1>1
<1>4. ASSUME NEW y \in T PROVE x <= y
  <2>1. ~ (y < x) /\ x \in Nat /\ y \in Nat
    BY <1>2, <1>3
  <2> QED BY <2>1
<1> QED BY <1>4

(* The first number up to which there are k places is the k-th place.      *)
LEMMA NthPlace ==
  ASSUME NEW n \in Nat, NEW P, P \subseteq 1..n, NEW k \in 1..Cardinality(P)
  PROVE  \E i \in P : Cardinality(UpTo(P, i)) = k
<1>1. \A i : IsFiniteSet(UpTo(P, i)) /\ Cardinality(UpTo(P, i)) \in Nat
  BY UpToFinite
<1>2. UpTo(P, n) = P /\ UpTo(P, 0) = {}
  <2>1. \A j \in P : j <= n /\ ~(j <= 0)
    OBVIOUS
  <2> QED BY <2>1 DEF UpTo
<1> DEFINE T == {i \in 0..n : Cardinality(UpTo(P, i)) >= k}
<1>3. n \in T /\ 0 \notin T
  <2>1. Cardinality(UpTo(P, 0)) = 0
    BY <1>2, FS_EmptySet
  <2>2. Cardinality(P) \in Nat
    BY <1>1, <1>2
  <2> QED BY <1>2, <2>1, <2>2
<1>4. PICK i \in T : \A j \in T : i <= j
  <2>1. T \in SUBSET Nat /\ T # {}
    BY <1>3
  <2> HIDE DEF T
  <2> QED BY <2>1, FirstOf
<1>5. i \in Nat /\ i # 0 /\ i - 1 \in 0..n /\ i - 1 \notin T
  BY <1>3, <1>4
<1>6. Cardinality(UpTo(P, i - 1)) < k /\ Cardinality(UpTo(P, i)) >= k
  BY <1>1, <1>4, <1>5
<1>7. UpTo(P, i) \subseteq UpTo(P, i - 1) \cup {i}
  <2>1. \A j \in P : j <= i => j <= i - 1 \/ j = i
    BY <1>5
  <2> QED BY <2>1 DEF UpTo
<1>8. i \in P
  <2>1. SUFFICES ASSUME i \notin P PROVE FALSE
    OBVIOUS
  <2>2. UpTo(P, i) \subseteq UpTo(P, i - 1)
    BY <1>7, <2>1 DEF UpTo
  <2>3. Cardinality(UpTo(P, i)) <= Cardinality(UpTo(P, i - 1))
    BY <1>1, <2>2, FS_Subset
  <2> QED BY <1>1, <1>6, <2>3
<1>9. Cardinality(UpTo(P, i)) <= Cardinality(UpTo(P, i - 1)) + 1
  <2>1. i \notin UpTo(P, i - 1)
    BY <1>5 DEF UpTo
  <2>2. Cardinality(UpTo(P, i - 1) \cup {i}) = Cardinality(UpTo(P, i - 1)) + 1
    BY <1>1, <2>1, FS_AddElement
  <2>3. IsFiniteSet(UpTo(P, i - 1) \cup {i})
    BY <1>1, FS_AddElement
  <2> QED BY <1>7, <2>2, <2>3, FS_Subset
<1> QED BY <1>1, <1>6, <1>8, <1>9

(* Every fact the rules find is proposed by a sentence they keep.          *)
LEMMA RuleFactsAreProposed ==
  ASSUME NEW text \in Seq(Sentence), NEW k \in DOMAIN RuleFacts(text)
  PROVE  \E i \in DOMAIN text :
           IsKept(text[i]) /\ RuleFacts(text)[k] = Proposed(text[i])
<1> DEFINE P == {i \in DOMAIN text : IsKept(text[i])}
           nth(m) == CHOOSE i \in P : Cardinality(UpTo(P, i)) = m
<1>1. RuleFacts(text) = [m \in 1..Cardinality(P) |-> Proposed(text[nth(m)])]
  BY DEF RuleFacts, UpTo
<1>2. k \in 1..Cardinality(P) /\ RuleFacts(text)[k] = Proposed(text[nth(k)])
  <2> HIDE DEF P, nth
  <2> QED BY <1>1
<1>3. Len(text) \in Nat /\ P \subseteq 1..Len(text)
  OBVIOUS
<1>4. nth(k) \in P
  <2>1. \E i \in P : Cardinality(UpTo(P, i)) = k
    <3> HIDE DEF P
    <3> QED BY <1>2, <1>3, NthPlace
  <2> HIDE DEF P
  <2> QED BY <2>1
<1> HIDE DEF nth
<1> QED BY <1>2, <1>4

(* A turn made of a text in which what counts as a mere activity is one    *)
(* and no instruction; or of what a model proposed, without such a note.   *)
SpeaksOfActivities(t) ==
  \E text \in Seq(Sentence) :
    /\ t.temporal = HasTemporalMarker(text)
    /\ \/ /\ t.facts = RuleFacts(text)
          /\ \A i \in DOMAIN text :
               SlotOf(text[i]).slot = UNSLOTTED /\ SlotOf(text[i]).value \in Activities
                 => text[i].activity /\ ~text[i].directive
       \/ \A i \in DOMAIN t.facts :
            t.facts[i].slot = UNSLOTTED => t.facts[i].value \notin Activities

(* Every word that lets an activity in also lets its expiry stand.         *)
LEMMA FramesAreMarkers == TransientWords \subseteq TemporalMarkers
BY DEF TransientWords, TemporalMarkers

LEMMA ActivityIsFramed ==
  ASSUME NEW t, SpeaksOfActivities(t), NEW k \in DOMAIN t.facts,
         t.facts[k].slot = UNSLOTTED, t.facts[k].value \in Activities
  PROVE  TtlOf(t, t.facts[k]) # NULL
<1>1. PICK text \in Seq(Sentence) :
        /\ t.temporal = HasTemporalMarker(text)
        /\ t.facts = RuleFacts(text)
        /\ \A i \in DOMAIN text :
             SlotOf(text[i]).slot = UNSLOTTED /\ SlotOf(text[i]).value \in Activities
               => text[i].activity /\ ~text[i].directive
  BY DEF SpeaksOfActivities
<1>2. PICK i \in DOMAIN text : IsKept(text[i]) /\ t.facts[k] = Proposed(text[i])
  BY <1>1, RuleFactsAreProposed
<1>3. text[i].activity /\ ~text[i].directive
  <2>1. t.facts[k].slot = SlotOf(text[i]).slot /\ t.facts[k].value = SlotOf(text[i]).value
    BY <1>2 DEF Proposed
  <2> QED BY <1>1, <2>1
<1>4. IsTransient(text[i])
  BY <1>2, <1>3 DEF IsKept, IsFact
<1>5. t.facts[k].ttl = TransientTtl /\ TransientTtl > 0 /\ TransientTtl # NULL
  <2>1. TransientTtl \in Nat \ {0} /\ TransientTtl # NULL
    BY ExtractionAssumption, ConstantsAssumption
  <2>2. t.facts[k].ttl = TransientTtl
    BY <1>2, <1>4 DEF Proposed
  <2> QED BY <2>1, <2>2
<1>6. t.temporal
  BY <1>1, <1>4, FramesAreMarkers DEF IsTransient, HasTemporalMarker
<1> QED BY <1>5, <1>6 DEF TtlOf

(* An activity is kept only because it is framed as temporary, and then it *)
(* expires, whatever wrote or reinforced it since                          *)
(* (RuleFactExtractor._is_fact, MemoryManager._verify_ttl).                *)
THEOREM ActivitiesDoExpire ==
  ASSUME \A t \in Turns : SpeaksOfActivities(t)
  PROVE  Spec => []ActivitiesExpire
<1>1. ASSUME IInv, NEW m \in memories, m.slot = UNSLOTTED, m.value \in Activities
      PROVE  m.expires_at # NULL
  <2>1. FromAllowedTurn(m)
    BY <1>1, CopiesMembers DEF IInv, CopiesOK, Copies
  <2>2. PICK t \in Turns : \E i \in UsablePositions(t) :
          /\ m.expires_at = NULL <=> TtlOf(t, t.facts[i]) = NULL
          /\ m.slot = t.facts[i].slot /\ m.value = t.facts[i].value
    BY <2>1 DEF FromAllowedTurn
  <2>3. PICK i \in DOMAIN t.facts :
          /\ m.expires_at = NULL <=> TtlOf(t, t.facts[i]) = NULL
          /\ m.slot = t.facts[i].slot /\ m.value = t.facts[i].value
    BY <2>2 DEF UsablePositions
  <2> QED BY <1>1, <2>2, <2>3, ActivityIsFramed
<1>2. IInv => ActivitiesExpire
  BY <1>1 DEF ActivitiesExpire
<1> QED BY Invariance, <1>2, PTL
==============================================================================
