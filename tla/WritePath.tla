------------------------------ MODULE WritePath ------------------------------
(***************************************************************************)
(* The write path of one user's long-term memory: MemoryManager.apply with *)
(* the injection gate in front of it and the store behind it.              *)
(*                                                                         *)
(* Requests are served by a thread pool, in one process or several, with   *)
(* no lock: a turn reads the user's active memories once, decides every    *)
(* candidate fact against that private copy, and writes whole records back *)
(* one store call at a time.  A step here is one store call; everything    *)
(* between two calls is local to the turn and belongs to the step.         *)
(* Namespaces of different users are disjoint, so one user is modelled.    *)
(***************************************************************************)
EXTENDS Integers, Sequences, FiniteSets

CONSTANTS
  Workers,          \* threads that may be running a turn of this user
  Slots,            \* (attribute, scope) pairs
  UNSLOTTED,        \* the empty attribute
  Values,           \* values up to _norm; for an unslotted fact, its text
  NonValues,        \* the values of _NON_VALUES
  NULL,             \* None
  Turns,            \* the turns the model offers (see Turn)
  ScanTrusted,      \* scan_trusted_content
  Cosine,           \* exact similarity of two texts, in percent
  Rank,             \* how the vector index ranks a stored text for a query
  DedupeSimilarity, \* dedupe_similarity, in percent
  MaxExisting,      \* _MAX_EXISTING
  DedupeCandidates, \* _DEDUPE_CANDIDATES
  MaxTurns,         \* bound of the model: turns that are started
  MaxTime           \* bound of the model: the last day of the clock

Provenance == {"user", "agent", "tool", "document"}
Trusted == {"user", "agent"}
MaxImportance == 10   \* importance 1.0, in tenths

(* A candidate fact.  Its text is abstracted to the slot and the value.    *)
Fact ==
  [slot : Slots \cup {UNSLOTTED}, value : Values,
   ttl : Int \cup {NULL}, importance : 0..MaxImportance]

(* A turn: where its text came from, whether the gate's patterns match it, *)
(* whether its words frame it as temporary, what the extractor returns.    *)
Turn ==
  [source : Provenance, marked : BOOLEAN, temporal : BOOLEAN,
   facts : Seq(Fact)]

Memory ==
  [id : Nat, slot : Slots \cup {UNSLOTTED}, value : Values,
   source : Provenance, importance : 0..MaxImportance,
   expires_at : Nat \cup {NULL}, superseded_by : Nat \cup {NULL}]

Texts == (Slots \cup {UNSLOTTED}) \X Values

ASSUME ConstantsAssumption ==
  /\ UNSLOTTED \notin Slots
  /\ NULL \notin Int \cup Values /\ NULL \notin Turns /\ NULL \notin Memory
  /\ NULL \notin [value : Values, durable : BOOLEAN]
  /\ NonValues \subseteq Values
  /\ MaxExisting \in Nat /\ DedupeCandidates \in Nat
  /\ MaxTurns \in Nat /\ MaxTime \in Nat /\ DedupeSimilarity \in 0..100
  /\ ScanTrusted \in BOOLEAN

ASSUME TurnsAssumption == Turns \subseteq Turn

ASSUME SimilarityAssumption ==
  \A x, y \in Texts : Cosine[x][y] \in -100..100 /\ Rank[x][y] \in Int

VARIABLES
  memories,     \* the namespace ("memories", user): a set of records
  quarantine,   \* the namespace ("quarantine", user)
  nextId,       \* the next unused record id, in order of creation
  now,          \* the clock, in days
  started,      \* how many turns have arrived
  pc,           \* pc[w]: which store call worker w makes next
  job,          \* job[w]: the turn w is applying
  left,         \* left[w]: positions of the candidates w still has to resolve
  existing,     \* existing[w]: the turn's private copy of the active memories
  match,        \* match[w]: what _nearest returned
  replacement,  \* replacement[w]: the record that retires those in stale[w]
  stale,        \* stale[w]: contradicted copies w has not retired yet
  said,         \* history: the last statement resolved for each slot
  ended,        \* history: ids that were superseded or forgotten
  settled       \* history: those of them no other turn held a copy of

storeVars == <<memories, quarantine, nextId>>
turnVars == <<pc, job, left, existing, match, replacement, stale>>
history == <<said, ended, settled>>
vars == <<storeVars, now, started, turnVars, history>>
------------------------------------------------------------------------------
(* Records and the store.                                                  *)

IsActive(m) ==
  /\ m.superseded_by = NULL
  /\ m.expires_at = NULL \/ m.expires_at > now

TextOf(m) == <<m.slot, m.value>>

Without(S, id) == {x \in S : x.id # id}

(* store.put replaces the record under the key, whatever it held.          *)
Put(S, m) == Without(S, m.id) \cup {m}

(* store.search without a query: at most n records, which ones being the   *)
(* backend's choice (insertion order in memory, recency in Postgres).      *)
Listed(S, n) ==
  IF Cardinality(S) <= n THEN {S} ELSE {T \in SUBSET S : Cardinality(T) = n}

(* store.search with a query: the n best ranked, ties broken either way.   *)
TopRanked(S, text, n) ==
  {T \in Listed(S, n) :
     \A x \in T, y \in S \ T : Rank[text][TextOf(x)] >= Rank[text][TextOf(y)]}
------------------------------------------------------------------------------
(* The gate and the checks on candidates.                                  *)

(* A faulty gate: only the text is scanned, provenance is not looked at.   *)
AllowedIgnoringProvenance(t) == ~(ScanTrusted /\ t.marked)

Allowed(t) == t.source \in Trusted /\ ~(ScanTrusted /\ t.marked)

(* A faulty check: the expiry the extractor proposes is taken as it is.    *)
ProposedTtl(t, f) == IF f.ttl # NULL /\ f.ttl > 0 THEN f.ttl ELSE NULL

(* Zero and negative TTLs mean durable, and so does a TTL the words of the *)
(* turn do not support.                                                    *)
TtlOf(t, f) ==
  IF f.ttl # NULL /\ f.ttl > 0 /\ t.temporal THEN f.ttl ELSE NULL

IsUsable(f) == f.slot = UNSLOTTED \/ f.value \notin NonValues

UsablePositions(t) == {i \in DOMAIN t.facts : IsUsable(t.facts[i])}

Build(t, f) ==
  [id |-> nextId, slot |-> f.slot, value |-> f.value, source |-> t.source,
   importance |-> f.importance,
   expires_at |-> IF TtlOf(t, f) = NULL THEN NULL ELSE now + TtlOf(t, f),
   superseded_by |-> NULL]
------------------------------------------------------------------------------
(* What a turn knows.                                                      *)

(* A faulty snapshot: retired and expired records are not filtered out.    *)
AllListedMemories(page) == page

ActiveMemories(page) == {m \in page : IsActive(m)}

(* i is the position of the candidate w resolves now.                      *)
IsDue(w, i) == i \in left[w] /\ \A j \in left[w] : i <= j

Candidate(w, i) == job[w].facts[i]

SameSlot(w, f) == {m \in existing[w] : m.slot = f.slot}

(* A faulty comparison: a fact with an expiry never counts as a duplicate. *)
DurableDuplicates(w, f) ==
  {m \in SameSlot(w, f) : m.value = f.value /\ m.expires_at = NULL}

Duplicates(w, f) == {m \in SameSlot(w, f) : m.value = f.value}

(* A faulty comparison: the threshold itself is left out.                  *)
IsNearAboveThreshold(score) == score > DedupeSimilarity

IsNear(score) == score >= DedupeSimilarity /\ score > 0

(* The best of the candidates the index returned that the turn also knows. *)
NearestOf(w, f, page) ==
  LET score(m) == Cosine[TextOf(f)][TextOf(m)]
      candidates == {m \in existing[w] : \E x \in page : x.id = m.id}
  IN {m \in candidates : /\ IsNear(score(m))
                         /\ \A x \in candidates : score(x) <= score(m)}

(* A faulty turn that does not see what it stored itself.                  *)
ForgetsItsOwnWrites(w, m) == existing[w]

KnownAfterWriting(w, m) == existing[w] \cup {m}

(* A faulty turn that goes on with the copies it read.                     *)
KeepsTheCopyItRead(w, m) == existing[w]

KnownAfterReinforcing(w, m) == Put(existing[w], m)

KnownAfterRetiring(w, m) == Without(existing[w], m.id)

(* Some turn in S can still write the record back as live.  A replacement  *)
(* is among what its turn knows once all it replaces are retired.          *)
HeldBy(S, id) ==
  \E w \in S :
    \/ \E m \in existing[w] : m.id = id
    \/ replacement[w] # NULL /\ replacement[w].id = id
------------------------------------------------------------------------------
Init ==
  /\ memories = {} /\ quarantine = {} /\ nextId = 1
  /\ now = 0 /\ started = 0
  /\ pc = [w \in Workers |-> "idle"]
  /\ job = [w \in Workers |-> NULL]
  /\ left = [w \in Workers |-> {}]
  /\ existing = [w \in Workers |-> {}]
  /\ match = [w \in Workers |-> NULL]
  /\ replacement = [w \in Workers |-> NULL]
  /\ stale = [w \in Workers |-> {}]
  /\ said = [s \in Slots |-> NULL]
  /\ ended = {} /\ settled = {}

(* apply, blocked by the gate: the text is kept where nothing recalls it.  *)
Quarantine(t) ==
  /\ started < MaxTurns
  /\ ~Allowed(t)
  /\ started' = started + 1
  /\ quarantine' = quarantine \cup {<<now, t>>}
  /\ UNCHANGED <<memories, nextId, now, turnVars, history>>

(* apply, up to the one read of the active memories.  A turn without a     *)
(* usable candidate returns before that read and changes nothing.          *)
BeginTurn(w, t) ==
  /\ pc[w] = "idle" /\ started < MaxTurns
  /\ Allowed(t) /\ UsablePositions(t) # {}
  /\ started' = started + 1
  /\ pc' = [pc EXCEPT ![w] = "resolve"]
  /\ job' = [job EXCEPT ![w] = t]
  /\ left' = [left EXCEPT ![w] = UsablePositions(t)]
  /\ \E page \in Listed(memories, MaxExisting) :
       existing' = [existing EXCEPT ![w] = ActiveMemories(page)]
  /\ UNCHANGED <<storeVars, now, match, replacement, stale, history>>

(* Candidate i is resolved and the turn now knows `known`: go on with the  *)
(* next candidate, or return from apply.                                   *)
Resolved(w, i, known) ==
  LET last == left[w] = {i}
  IN /\ pc' = [pc EXCEPT ![w] = IF last THEN "idle" ELSE "resolve"]
     /\ job' = [job EXCEPT ![w] = IF last THEN NULL ELSE @]
     /\ left' = [left EXCEPT ![w] = @ \ {i}]
     /\ existing' = [existing EXCEPT ![w] = IF last THEN {} ELSE known]
     /\ match' = [match EXCEPT ![w] = NULL]
     /\ replacement' = [replacement EXCEPT ![w] = NULL]

Stated(t, f) ==
  said' = IF f.slot = UNSLOTTED THEN said
          ELSE [said EXCEPT ![f.slot] =
                  [value |-> f.value, durable |-> TtlOf(t, f) = NULL]]

(* A faulty bump: the cap is missing.                                      *)
ReinforcedPastOne(m) == [m EXCEPT !.importance = @ + 1]

(* _reinforce: the turn's own copy, one step more important, overwrites    *)
(* whatever the store holds under that id.                                 *)
Reinforced(m) ==
  [m EXCEPT !.importance =
     IF @ + 1 > MaxImportance THEN MaxImportance ELSE @ + 1]

Reinforce(w, i, m) ==
  /\ memories' = Put(memories, Reinforced(m))
  /\ Resolved(w, i, KnownAfterReinforcing(w, Reinforced(m)))
  /\ Stated(job[w], Candidate(w, i))
  /\ UNCHANGED <<quarantine, nextId, now, started, stale, ended, settled>>

(* A restatement of a slot's value.                                        *)
RestateSlot(w, i) ==
  /\ pc[w] = "resolve" /\ IsDue(w, i)
  /\ Candidate(w, i).slot # UNSLOTTED
  /\ \E m \in Duplicates(w, Candidate(w, i)) : Reinforce(w, i, m)

(* A contradiction: the new record is put before the old ones are retired. *)
Contradict(w, i) ==
  LET f == Candidate(w, i)
      new == Build(job[w], f)
  IN /\ pc[w] = "resolve" /\ IsDue(w, i)
     /\ f.slot # UNSLOTTED
     /\ Duplicates(w, f) = {} /\ SameSlot(w, f) # {}
     /\ memories' = Put(memories, new)
     /\ nextId' = nextId + 1
     /\ pc' = [pc EXCEPT ![w] = "supersede"]
     /\ replacement' = [replacement EXCEPT ![w] = new]
     /\ stale' = [stale EXCEPT ![w] = SameSlot(w, f)]
     /\ Stated(job[w], f)
     /\ UNCHANGED <<quarantine, now, started, job, left, existing, match,
                    ended, settled>>

(* _supersede: the turn's copy, marked, overwrites what the store holds.   *)
(* After the last one the replacement joins what the turn knows.           *)
Supersede(w, i, m) ==
  LET new == replacement[w]
      rest == KnownAfterRetiring(w, m)
  IN /\ pc[w] = "supersede" /\ IsDue(w, i) /\ m \in stale[w]
     /\ memories' = Put(memories, [m EXCEPT !.superseded_by = new.id])
     /\ stale' = [stale EXCEPT ![w] = @ \ {m}]
     /\ IF stale[w] = {m}
          THEN Resolved(w, i, rest \cup {new})
          ELSE /\ existing' = [existing EXCEPT ![w] = rest]
               /\ UNCHANGED <<pc, job, left, match, replacement>>
     /\ ended' = ended \cup {m.id}
     /\ settled' = IF HeldBy(Workers \ {w}, m.id) THEN settled
                   ELSE settled \cup {m.id}
     /\ UNCHANGED <<quarantine, nextId, now, started, said>>

(* _nearest asks the index only when the turn knows anything at all.       *)
Nearest(w, i) ==
  LET f == Candidate(w, i)
  IN /\ pc[w] = "resolve" /\ IsDue(w, i)
     /\ f.slot = UNSLOTTED /\ existing[w] # {}
     /\ \E page \in TopRanked(memories, TextOf(f), DedupeCandidates) :
          LET near == NearestOf(w, f, page)
          IN \E m \in IF near = {} THEN {NULL} ELSE near :
               match' = [match EXCEPT ![w] = m]
     /\ pc' = [pc EXCEPT ![w] = "nearest"]
     /\ UNCHANGED <<storeVars, now, started, job, left, existing,
                    replacement, stale, history>>

RestateText(w, i) ==
  /\ pc[w] = "nearest" /\ IsDue(w, i) /\ match[w] # NULL
  /\ Reinforce(w, i, match[w])

(* Neither known nor contradicted: a slot nothing fills yet, or a text     *)
(* near nothing the turn knows.                                            *)
IsNews(w, f) ==
  \/ pc[w] = "resolve" /\ f.slot # UNSLOTTED /\ SameSlot(w, f) = {}
  \/ pc[w] = "resolve" /\ f.slot = UNSLOTTED /\ existing[w] = {}
  \/ pc[w] = "nearest" /\ match[w] = NULL

Write(w, i) ==
  LET f == Candidate(w, i)
      new == Build(job[w], f)
  IN /\ IsDue(w, i) /\ IsNews(w, f)
     /\ memories' = Put(memories, new)
     /\ nextId' = nextId + 1
     /\ Resolved(w, i, KnownAfterWriting(w, new))
     /\ Stated(job[w], f)
     /\ UNCHANGED <<quarantine, now, started, stale, ended, settled>>

(* A store call, the embedder or the process fails: apply stops where it   *)
(* is, and what it has put stays.                                          *)
Abort(w) ==
  /\ pc[w] # "idle"
  /\ pc' = [pc EXCEPT ![w] = "idle"]
  /\ job' = [job EXCEPT ![w] = NULL]
  /\ left' = [left EXCEPT ![w] = {}]
  /\ existing' = [existing EXCEPT ![w] = {}]
  /\ match' = [match EXCEPT ![w] = NULL]
  /\ replacement' = [replacement EXCEPT ![w] = NULL]
  /\ stale' = [stale EXCEPT ![w] = {}]
  /\ UNCHANGED <<storeVars, now, started, history>>

(* forget_memory.                                                          *)
Forget(m) ==
  /\ m \in memories
  /\ memories' = Without(memories, m.id)
  /\ said' = IF m.slot # UNSLOTTED /\ IsActive(m)
               THEN [said EXCEPT ![m.slot] = NULL] ELSE said
  /\ ended' = ended \cup {m.id}
  /\ settled' = IF HeldBy(Workers, m.id) THEN settled
                ELSE settled \cup {m.id}
  /\ UNCHANGED <<quarantine, nextId, now, started, turnVars>>

Tick ==
  /\ now < MaxTime
  /\ now' = now + 1
  /\ UNCHANGED <<storeVars, started, turnVars, history>>

Resolve(w, i) ==
  \/ RestateSlot(w, i)
  \/ Contradict(w, i)
  \/ \E m \in stale[w] : Supersede(w, i, m)
  \/ Nearest(w, i)
  \/ RestateText(w, i)
  \/ Write(w, i)

TurnStep(w) ==
  \/ \E t \in Turns : BeginTurn(w, t)
  \/ \E i \in left[w] : Resolve(w, i)

Between ==
  \/ \E t \in Turns : Quarantine(t)
  \/ \E m \in memories : Forget(m)
  \/ Tick

(* Any number of turns at once, which may fail, while memories are         *)
(* forgotten and time passes.                                              *)
Next == (\E w \in Workers : TurnStep(w) \/ Abort(w)) \/ Between

Spec == Init /\ [][Next]_vars

(* Turns that run to their end, with deletes and days only between them.   *)
Quiet == \A w \in Workers : pc[w] = "idle"

CalmNext == (\E w \in Workers : TurnStep(w)) \/ (Quiet /\ Between)

CalmSpec == Init /\ [][CalmNext]_vars
------------------------------------------------------------------------------
(* Every variable holds what its declaration says.                         *)
TypeOK ==
  /\ memories \subseteq Memory
  /\ quarantine \subseteq Nat \X Turns
  /\ nextId \in Nat /\ now \in Nat /\ started \in Nat
  /\ pc \in [Workers -> {"idle", "resolve", "nearest", "supersede"}]
  /\ job \in [Workers -> Turns \cup {NULL}]
  /\ left \in [Workers -> SUBSET Nat]
  /\ existing \in [Workers -> SUBSET Memory]
  /\ match \in [Workers -> Memory \cup {NULL}]
  /\ replacement \in [Workers -> Memory \cup {NULL}]
  /\ stale \in [Workers -> SUBSET Memory]
  /\ said \in [Slots -> [value : Values, durable : BOOLEAN] \cup {NULL}]
  /\ ended \subseteq Nat /\ settled \subseteq ended

(* However turns interleave, fail and race deletes, a record that says it  *)
(* was superseded names a younger record of the same slot with a different *)
(* value: the history manager.py promises to keep never loops and never    *)
(* leads from one fact to an unrelated one.                                *)
HistoryLeadsForward ==
  \A m \in memories : m.superseded_by # NULL =>
    /\ m.id < m.superseded_by /\ m.superseded_by < nextId
    /\ m.slot # UNSLOTTED
    /\ \A x \in memories :
         x.id = m.superseded_by => x.slot = m.slot /\ x.value # m.value

(* A record that was superseded or forgotten while no other turn held a    *)
(* copy of it is never live again: writing back whole records can undo a   *)
(* retirement or a delete only from a turn that was already under way.     *)
SettledStaysSettled ==
  \A m \in memories : m.id \in settled => m.superseded_by # NULL

(* Every memory is a usable fact of a turn the gate allowed, with the      *)
(* provenance of that turn: nothing a blocked turn alone contains gets in. *)
OnlyAllowedFacts ==
  \A m \in memories :
    \E t \in Turns : \E i \in UsablePositions(t) :
      /\ t.source \in Trusted /\ ~(ScanTrusted /\ t.marked)
      /\ m.source = t.source
      /\ m.slot = t.facts[i].slot /\ m.value = t.facts[i].value

(* Only the user makes a fact temporary: a memory that will expire repeats *)
(* a fact of some turn whose own words framed it so, whichever turns wrote *)
(* or reinforced it since ("a deadline nobody set", _verify_ttl).          *)
ExpiryIsMeant ==
  \A m \in memories : m.expires_at # NULL =>
    \E t \in Turns : t.temporal /\ \E i \in DOMAIN t.facts :
      t.facts[i].slot = m.slot /\ t.facts[i].value = m.value

(* One memory per slot: two live records share a slot only while the turn  *)
(* that wrote the newer one is still retiring the older.                   *)
OneLivePerSlot ==
  \A a, b \in memories :
    a.slot # UNSLOTTED /\ a.slot = b.slot /\ IsActive(a) /\ IsActive(b)
      => a.id = b.id \/ \E w \in Workers : stale[w] \cap {a, b} # {}

(* "Never keep both live" (manager.py): between turns no slot has two live *)
(* records with different values.                                          *)
NoLiveContradiction ==
  Quiet => \A a, b \in memories :
    a.slot # UNSLOTTED /\ a.slot = b.slot /\ IsActive(a) /\ IsActive(b)
      => a.value = b.value

(* Dedupe by similarity: an unslotted memory that is live is less similar  *)
(* than the threshold to every older memory that is live.                  *)
NoNearDuplicates ==
  \A a, b \in memories :
    b.slot = UNSLOTTED /\ a.id < b.id /\ IsActive(a) /\ IsActive(b)
      => Cosine[TextOf(b)][TextOf(a)] < DedupeSimilarity

(* What was superseded or forgotten is never live again.                   *)
EndedStaysEnded == \A m \in memories : m.id \in ended => m.superseded_by # NULL

(* No step takes back a reinforcement: "a fact restated is a fact that     *)
(* matters".                                                               *)
ImportanceNeverDrops ==
  [][\A m \in memories, n \in memories' :
       m.id = n.id => m.importance <= n.importance]_vars

(* "Durable preferences do not" get an expiry (manager.py): a slot whose   *)
(* last statement was durable still holds that value between turns.        *)
DurableIsKept ==
  Quiet => \A s \in Slots :
    said[s] # NULL /\ said[s].durable
      => \E m \in memories :
           m.slot = s /\ m.value = said[s].value /\ IsActive(m)
------------------------------------------------------------------------------
(* The refinement.  A slot believes the newest record that was not         *)
(* retired, as long as that record has not expired.                        *)
Unretired(s) == {m \in memories : m.slot = s /\ m.superseded_by = NULL}

Current(s) == {m \in Unretired(s) : IsActive(m) /\ \A x \in Unretired(s) : x.id <= m.id}

beliefOf ==
  [s \in Slots |-> IF Current(s) = {} THEN NULL
                   ELSE (CHOOSE m \in Current(s) : TRUE).value]

saidOf == [s \in Slots |-> IF said[s] = NULL THEN NULL ELSE said[s].value]

temporaryOf == {s \in Slots : \E m \in Current(s) : m.expires_at # NULL}

Facts == INSTANCE UserFacts
           WITH belief <- beliefOf, said <- saidOf, temporary <- temporaryOf

(* When turns do not overlap and run to their end, the write path keeps    *)
(* the promise of UserFacts: every step is a statement, a request to       *)
(* forget, a lapse, or invisible.                                          *)
KeepsUserFacts == Facts!Spec
==============================================================================
