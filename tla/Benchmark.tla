------------------------------ MODULE Benchmark ------------------------------
(***************************************************************************)
(* The benchmark that gates releases: load a case file, replay every case  *)
(* under every arm, ask the probe in a new conversation, score, and turn   *)
(* the floors into an exit code.  A text is the set of claims it contains  *)
(* (the substrings that expectations, gold facts and poison markers look   *)
(* for).  The manager is the write path of module WritePath when turns do  *)
(* not overlap, reduced to which records it leaves live.                   *)
(***************************************************************************)
EXTENDS Integers, Sequences, FiniteSets, FiniteSetsExt, SequencesExt

CONSTANTS
  Files,      \* case files: sequences of cases
  Selections, \* sets of arms, as --arms names them
  Limits,     \* --limit; 0 is none
  Floors,     \* the --fail-under-* rates in percent; 0 is none
  Providers,  \* values of --provider
  UNSLOTTED,  \* the empty attribute
  TopK,       \* recall_top_k
  Overfetch,  \* _OVERFETCH of the reader
  MaxExisting,  \* _MAX_EXISTING of the manager
  MaxListed,    \* per arm, how many records its reader lists for scoring
  ExternalReplies(_)  \* what an external model may reply to a prompt

VARIABLES
  file, selected, limit, floors, provider,  \* what the run was started with
  phase,      \* "load", "run", "gate", or how it ended ("locomo": see there)
  cases,      \* the cases this run replays
  arms,       \* the arms still to run, the current one first
  position,   \* the current case, and how many of its turns were replayed
  memories,   \* the store of the current arm
  messages,   \* the transcripts of the current arm
  reports     \* per arm that has started, the results of its cases

input == <<file, selected, limit, floors, provider>>
vars == <<input, phase, cases, arms, position, memories, messages, reports>>

Kinds == {"passive_recall", "decision_relevant", "conflict", "injection"}

(* A case file as its schema has it; the facts are the usable ones that    *)
(* the extractor makes of a text, and names are sequences of the parts     *)
(* between their colons.                                                   *)
Fact == [claims : SUBSET STRING, slot : {UNSLOTTED} \cup STRING]

Turn ==
  [claims : SUBSET STRING, source : STRING, marked : BOOLEAN, blank : BOOLEAN,
   facts : Seq(Fact)]

EvalCase ==
  [id : Seq(STRING), user : Seq(STRING), kind : Kinds,
   sessions : Seq([thread : Seq(STRING), turns : Seq(Turn)]),
   probe : Turn, probe_thread : Seq(STRING), expect_any : SUBSET STRING,
   reject_any : SUBSET STRING, poison : SUBSET STRING, gold : SUBSET STRING]

(* ARMS, in order; mem0 is the product whose store and write path replace  *)
(* the agent's.                                                            *)
Arms == <<"stateless", "naive", "manager", "mem0">>
HasMemory(arm) == arm # "stateless"
Runs(arm) == arm = "mem0" => provider = "bedrock"

ASSUME BenchmarkAssumption ==
  /\ Files \subseteq Seq(EvalCase) /\ Limits \subseteq Int
  /\ TopK \in Nat /\ Overfetch \in Nat \ {0}
  /\ MaxExisting \in Nat /\ MaxListed \in [Range(Arms) -> Nat]
  /\ Selections \subseteq (SUBSET Range(Arms)) \ {{}}
  /\ \A f \in Files : \A i \in DOMAIN f : IsFiniteSet(f[i].poison)
------------------------------------------------------------------------------
(* Loading.                                                                *)

(* A faulty validator: the probe may continue a session.                   *)
AnyProbeThread(c) == TRUE

ProbeThreadIsNew(c) ==
  \A i \in DOMAIN c.sessions : c.sessions[i].thread # c.probe_thread

AssertsSomething(c) == c.expect_any \cup c.reject_any \cup c.poison # {}

Loads(f) ==
  /\ f # <<>> /\ IsInjective([i \in DOMAIN f |-> f[i].id])
  /\ \A i \in DOMAIN f : AssertsSomething(f[i]) /\ ProbeThreadIsNew(f[i])

(* A faulty sample: the first cases of the file, whatever their kind.      *)
Prefix(f, n) == SubSeq(f, 1, IF n < Len(f) THEN n ELSE Len(f))

(* What stands at the given places of a sequence, in its order: the k-th   *)
(* is the one with k of the places up to it.                               *)
Kept(s, places) ==
  [k \in 1..Cardinality(places) |->
     s[CHOOSE i \in places : Cardinality({j \in places : j <= i}) = k]]

(* At most n cases of each kind, in file order.                            *)
SamplePerKind(f, n) ==
  Kept(f, {i \in DOMAIN f :
             Cardinality({j \in 1..(i - 1) : f[j].kind = f[i].kind}) < n})

SelectedArms == Kept(Arms, {i \in DOMAIN Arms : Arms[i] \in selected})

Init ==
  /\ file \in Files /\ selected \in Selections
  /\ limit \in Limits /\ floors \in Floors /\ provider \in Providers
  /\ phase = "load" /\ cases = <<>> /\ arms = <<>>
  /\ position = [case |-> 1, replayed |-> 0]
  /\ memories = {} /\ messages = {}
  /\ reports = [a \in selected |-> <<>>]

Load ==
  /\ phase = "load"
  /\ phase' = IF Loads(file) THEN "run" ELSE "raised"
  /\ cases' = IF limit # 0 THEN SamplePerKind(file, limit) ELSE file
  /\ arms' = SelectedArms
  /\ UNCHANGED <<input, position, memories, messages, reports>>
------------------------------------------------------------------------------
(* Replaying a case.                                                       *)

(* A faulty key: two cases about one user share a store.                   *)
BareUser(c) == c.user

(* The key joins the names; only those without a colon keep their place.   *)
UserKey(c) == c.id \o c.user

Case == cases[position.case]
Running ==
  phase = "run" /\ arms # <<>> /\ Runs(Head(arms)) /\ position.case <= Len(cases)

(* The turns of all sessions, each with its conversation.                  *)
History(c) ==
  FlattenSeq([i \in DOMAIN c.sessions |->
    [j \in DOMAIN c.sessions[i].turns |->
       [thread |-> c.sessions[i].thread, turn |-> c.sessions[i].turns[j]]]])

Of(c, S) == {x \in S : x.user = UserKey(c)}
Live(S) == {m \in S : m.live}

(* A listing of at most n records: the in-memory store, the only one these *)
(* drivers use, lists in the order of the first puts.                      *)
Page(S, n) == {m \in S : Cardinality({x \in S : x.id < m.id}) < n}

(* A faulty store: ids count up per user only.                             *)
NumberedPerUser(c, S, f) ==
  [user |-> UserKey(c), id |-> Cardinality(Of(c, S)), claims |-> f.claims,
   slot |-> f.slot, live |-> TRUE]

(* Ids are random in the code, which is to say unique in the whole store;  *)
(* here they also give the order of the puts.                              *)
Stored(c, S, f) ==
  [user |-> UserKey(c), id |-> Max({m.id : m \in S} \cup {0}) + 1, claims |-> f.claims,
   slot |-> f.slot, live |-> TRUE]

(* A text kept as it stands has no attribute.                              *)
Verbatim(t) == [claims |-> t.claims, slot |-> UNSLOTTED]

(* NaiveMemoryWriter puts every text but a blank one, whatever its source. *)
NaiveApply(c, t) ==
  IF t.blank THEN memories ELSE memories \cup {Stored(c, memories, Verbatim(t))}

(* A faulty manager: a new value of an attribute stays beside the old one. *)
NoRivals(c, s, f) == {}

(* The live values of the fact's attribute that this turn knows of.        *)
Rivals(c, s, f) ==
  {m \in Live(Of(c, s.store)) : m.id \in s.known /\ m.slot = f.slot /\ f.slot # UNSLOTTED}

(* One fact of a turn, which has listed some records at its start and adds *)
(* what it puts itself: a restatement leaves no record, and a new value    *)
(* retires the old ones.  Texts without an attribute are near when they    *)
(* make the same claims.                                                   *)
Resolve(c, s, f) ==
  LET rivals == Rivals(c, s, f)
      new == Stored(c, s.store, f)
  IN IF \E m \in Live(Of(c, s.store)) : m.id \in s.known /\ m.slot = f.slot /\ m.claims = f.claims
       THEN s
       ELSE [store |-> (s.store \ rivals) \cup {[m EXCEPT !.live = FALSE] : m \in rivals}
                         \cup {new},
             known |-> s.known \cup {new.id}]

Listed(c) == [store |-> memories, known |-> {m.id : m \in Page(Of(c, memories), MaxExisting)}]

(* The turn after each of its facts.                                       *)
AfterFacts(c, t) ==
  LET after[i \in 0..Len(t.facts)] ==
        IF i = 0 THEN Listed(c) ELSE Resolve(c, after[i - 1], t.facts[i])
  IN after

(* MemoryManager: blank and blocked texts leave no record, the others one  *)
(* for each fact that is new.                                              *)
ManagerApply(c, t) ==
  IF t.blank \/ t.source # "user" \/ t.marked THEN memories
  ELSE AfterFacts(c, t)[Len(t.facts)].store

(* mem0 decides by itself, with no notion of where a text came from: it    *)
(* deletes some records of the user, rewrites others, and keeps the text   *)
(* or not; a call that fails is logged and counts as nothing.              *)
Mem0Outcomes(c, t) ==
  IF t.blank THEN {memories}
  ELSE UNION {LET rest == (memories \ (deleted \cup rewritten))
                            \cup {[m EXCEPT !.claims = t.claims] : m \in rewritten}
              IN {rest, rest \cup {Stored(c, memories, Verbatim(t))}} :
                deleted \in SUBSET Of(c, memories), rewritten \in SUBSET Of(c, memories)}

Outcomes(arm, c, t) ==
  CASE arm = "manager" -> {ManagerApply(c, t)}
    [] arm = "mem0"    -> Mem0Outcomes(c, t)
    [] OTHER           -> {NaiveApply(c, t)}

(* The conversation's name joins the case's and the thread's.              *)
Said(c, thread, t) == [user |-> UserKey(c), thread |-> c.id \o thread, claims |-> t.claims]

(* The agent remembers only with memory, but observes even without: the    *)
(* writer of the stateless arm is the naive one.                           *)
ReplayTurn ==
  LET arm == Head(arms)
      h == History(Case)[position.replayed + 1]
      spoken == h.turn.source = "user"
  IN /\ Running /\ position.replayed < Len(History(Case))
     /\ messages' = IF spoken THEN messages \cup {Said(Case, h.thread, h.turn)}
                    ELSE messages
     /\ memories' \in IF spoken /\ ~HasMemory(arm) THEN {memories}
                      ELSE Outcomes(arm, Case, h.turn)
     /\ position' = [position EXCEPT !.replayed = @ + 1]
     /\ UNCHANGED <<input, phase, cases, arms, reports>>
------------------------------------------------------------------------------
(* Scoring.                                                                *)

ClaimsOf(S) == UNION {x.claims : x \in S}

Passes(c, reply) ==
  /\ reply \cap c.reject_any = {}
  /\ c.expect_any = {} \/ reply \cap c.expect_any # {}

(* A faulty score: retired records count as clutter.                       *)
Everything(arm, c, S) == Page(Of(c, S), MaxListed[arm])

(* The listing comes before the filter.                                    *)
Scored(arm, c, S) == Live(Page(Of(c, S), MaxListed[arm]))

PoisonBlocked(c, stored) == c.poison \ ClaimsOf(stored)

(* With what the model was given, and all the case left in the store: the  *)
(* properties compare the scores with them.                                *)
Result(c, prompt, reply, stored, records) ==
  [case |-> c, passed |-> Passes(c, reply), reply |-> reply, stored |-> stored,
   prompt |-> prompt, records |-> records,
   useful |-> Cardinality({m \in stored : m.claims \cap c.gold # {}}),
   total |-> Cardinality(stored),
   blocked |-> Cardinality(PoisonBlocked(c, stored)),
   poison |-> Cardinality(c.poison)]

(* The best n: which ones is the ranking's choice.                         *)
AtMost(S, n) ==
  {R \in SUBSET S : Cardinality(R) = IF Cardinality(S) < n THEN Cardinality(S) ELSE n}

(* Recall: nothing for a blank text, otherwise what is live among the best *)
(* of all records, retired ones included.                                  *)
Recalls(arm, c, t) ==
  IF ~HasMemory(arm) \/ t.blank THEN {{}}
  ELSE UNION {AtMost(Live(found), TopK) : found \in AtMost(Of(c, memories), Overfetch * TopK)}

(* The stub model repeats the memory block; an external one says what it   *)
(* says.                                                                   *)
Replies(R, prompt) == IF provider = "stub" THEN {ClaimsOf(R)} ELSE ExternalReplies(prompt)

(* The prompt is the memory block and the conversation; mem0's agent keeps *)
(* no transcripts.                                                         *)
Prompt(arm, R, asked, S) ==
  ClaimsOf(R) \cup asked.claims
    \cup IF arm = "mem0" THEN {}
         ELSE ClaimsOf({m \in S : m.user = asked.user /\ m.thread = asked.thread})

(* The probe is a turn like any other, in a conversation of its own.       *)
Probe ==
  LET arm == Head(arms)
      asked == Said(Case, Case.probe_thread, Case.probe)
  IN /\ Running /\ position.replayed = Len(History(Case))
     /\ messages' = messages \cup {asked}
     /\ memories' \in IF HasMemory(arm) THEN Outcomes(arm, Case, Case.probe) ELSE {memories}
     /\ \E R \in Recalls(arm, Case, Case.probe) :
          LET prompt == Prompt(arm, R, asked, messages)
              stored == IF HasMemory(arm) THEN Scored(arm, Case, memories') ELSE {}
          IN \E reply \in Replies(R, prompt) :
               reports' = [reports EXCEPT ![arm] =
                 Append(@, Result(Case, prompt, reply, stored, Of(Case, memories')))]
     /\ position' = [case |-> position.case + 1, replayed |-> 0]
     /\ UNCHANGED <<input, phase, cases, arms>>

(* mem0 is an optional extra that needs a real model: building its agent   *)
(* raises without either, after the arms before it have run.               *)
Mem0Raises ==
  /\ phase = "run" /\ arms # <<>> /\ Head(arms) = "mem0"
  /\ position = [case |-> 1, replayed |-> 0]
  /\ phase' = "raised"
  /\ UNCHANGED <<input, cases, arms, position, memories, messages, reports>>

(* Every arm has a backend of its own, empty at the start.                 *)
NextArm ==
  /\ phase = "run" /\ Runs(Head(arms)) /\ position.case > Len(cases)
  /\ arms' = Tail(arms)
  /\ phase' = IF Tail(arms) = <<>> THEN "gate" ELSE "run"
  /\ position' = [case |-> 1, replayed |-> 0]
  /\ memories' = {} /\ messages' = {}
  /\ UNCHANGED <<input, cases, reports>>
------------------------------------------------------------------------------
(* The gate.                                                               *)

(* The sum of the numbers of a sequence.                                   *)
Total(s) ==
  LET upTo[i \in 0..Len(s)] == IF i = 0 THEN 0 ELSE upTo[i - 1] + s[i]
  IN upTo[Len(s)]

(* part / whole < floor, where a rate of nothing is 0.                     *)
Below(part, whole, floor) ==
  IF whole = 0 THEN floor > 0 ELSE 100 * part < floor * whole

RateBelow(r, kind, floor) ==
  LET of == {i \in DOMAIN r : r[i].case.kind = kind}
  IN Below(Cardinality({i \in of : r[i].passed}), Cardinality(of), floor)

(* A faulty gate: it looks at the first arm.                               *)
FirstReport(rs) == rs[SelectedArms[1]]

LastReport(rs) == rs[Last(SelectedArms)]

Failed(r) ==
  \/ RateBelow(r, "decision_relevant", floors.decision)
  \/ RateBelow(r, "conflict", floors.conflict)
  \/ Below(Total([i \in DOMAIN r |-> r[i].blocked]),
           Total([i \in DOMAIN r |-> r[i].poison]), floors.injection)
  \/ Below(Total([i \in DOMAIN r |-> r[i].useful]),
           Total([i \in DOMAIN r |-> r[i].total]), floors.precision)

Gate ==
  /\ phase = "gate"
  /\ phase' = IF Failed(LastReport(reports)) THEN "failed" ELSE "passed"
  /\ UNCHANGED <<input, cases, arms, position, memories, messages, reports>>

Next == Load \/ ReplayTurn \/ Probe \/ Mem0Raises \/ NextArm \/ Gate

Spec == Init /\ [][Next]_vars
------------------------------------------------------------------------------
(* Properties.                                                             *)

Ran(arm) == arm \in selected /\ reports[arm] # <<>>
Results(arm) == {reports[arm][i] : i \in DOMAIN reports[arm]}

(* The types of the variables: the store holds what turns of the current   *)
(* cases said, and no arm reports more results than there are cases.       *)
TypeOK ==
  /\ phase \in {"load", "run", "raised", "gate", "passed", "failed", "locomo", "reported"}
  /\ Range(cases) \subseteq Range(file) /\ Range(arms) \subseteq selected
  /\ position.case \in 1..(Len(cases) + 1) /\ position.replayed \in Nat
  /\ Cardinality({m.id : m \in memories}) = Cardinality(memories)
  /\ \A a \in selected : Len(reports[a]) <= Len(cases)

(* All that a text and the facts made of it claim.                         *)
Claims(t) == t.claims \cup UNION {f.claims : f \in Range(t.facts)}

(* No case sees another one: whatever a model is given, whatever the store *)
(* of a case holds and whatever the stub model surfaces was said in that   *)
(* very case, although all cases of an arm share one store and may be      *)
(* about the same user (EvalCase.user_key).                                *)
CasesDoNotLeak ==
  \A a \in selected : \A r \in Results(a) :
    LET said == (UNION {Claims(h.turn) : h \in Range(History(r.case))}) \cup Claims(r.case.probe)
    IN /\ r.prompt \subseteq said
       /\ ClaimsOf(r.stored) \subseteq said
       /\ provider = "stub" => r.reply \subseteq said

(* The control arm measures nothing but the model: without memory, what it *)
(* is given holds no claim that the probe itself did not make, so that     *)
(* anything more in a reply is a guess of the model's own, which the stub  *)
(* never makes (_probe_thread_must_be_new).                                *)
ControlKnowsNothing ==
  Ran("stateless") =>
    \A r \in Results("stateless") :
      /\ r.prompt \subseteq r.case.probe.claims
      /\ provider = "stub" => r.reply = {}

(* The history of the case makes at most one claim a text, as many texts   *)
(* as one recall returns; its last one takes back an earlier one, and no   *)
(* other attribute makes the rejected claims.                              *)
TakesBack(c) ==
  LET said == [i \in DOMAIN History(c) |-> History(c)[i].turn]
      last == Last(said)
      States(t, claims) ==
        /\ t.source = "user" /\ ~t.marked /\ ~t.blank /\ t.claims = claims
        /\ t.facts = <<[claims |-> claims, slot |-> last.facts[1].slot]>>
  IN /\ c.kind = "conflict" /\ c.reject_any # {} /\ c.expect_any \cap c.reject_any = {}
     /\ ~c.probe.blank /\ c.probe.claims \cap c.reject_any = {}
     /\ Len(said) <= TopK /\ Len(said) <= MaxExisting
     /\ \A t \in Range(said) : Len(t.facts) <= 1
     /\ \E t \in Range(said) : States(t, c.reject_any)
     /\ States(last, c.expect_any) /\ last.facts[1].slot # UNSLOTTED
     /\ \A t \in Range(said) : Claims(t) \cap c.reject_any # {} => States(t, t.claims)

(* A conflict case tells the writers apart: while all records fit into one *)
(* recall, the naive store gives the model the retracted claim of every    *)
(* case, and the manager the current one alone; the stub model, which      *)
(* repeats it, fails and passes accordingly (_default_responder).          *)
ConflictTellsWritersApart ==
  \A a \in selected \cap {"naive", "manager"} : \A r \in Results(a) :
    TakesBack(r.case) =>
      /\ Passes(r.case, r.prompt) <=> a = "manager"
      /\ provider = "stub" => (r.passed <=> a = "manager")

(* Retired values are history, not clutter: while one listing of the       *)
(* manager holds all records of the case, it is scored on one record per   *)
(* attribute, however often its value moved (run_case scores live records  *)
(* only).                                                                  *)
RetiredIsNotClutter ==
  Ran("manager") => \A r \in Results("manager") :
    Cardinality(r.records) <= MaxExisting =>
      \A m, n \in r.stored : m.slot = n.slot /\ m.slot # UNSLOTTED => m = n

(* A sample keeps every kind of case the file has, so that no rate is      *)
(* taken over nothing (_sample_per_kind).                                  *)
SampleIsBalanced ==
  phase = "run" /\ limit >= 0 =>
    {c.kind : c \in Range(cases)} = {c.kind : c \in Range(file)}

(* What exit code 0 promises of a run whose last arm is the manager, read  *)
(* off the stores and replies themselves: under floors of 100 % no marker  *)
(* is in any of its stores, no rejected claim in any of its replies, and   *)
(* no floor is met by having nothing to measure (main).                    *)
GateIsSound ==
  phase = "passed" /\ "manager" \in selected /\ "mem0" \notin selected =>
    LET rs == Results("manager")
        of(kind) == {r \in rs : r.case.kind = kind}
    IN /\ floors.injection = 100 =>
            /\ \E r \in rs : r.case.poison # {}
            /\ \A r \in rs : r.case.poison \cap ClaimsOf(r.stored) = {}
       /\ floors.conflict = 100 =>
            /\ of("conflict") # {}
            /\ \A r \in of("conflict") : r.reply \cap r.case.reject_any = {}
       /\ floors.decision = 100 =>
            /\ of("decision_relevant") # {}
            /\ \A r \in of("decision_relevant") : r.reply \cap r.case.reject_any = {}
       /\ floors.precision = 100 =>
            \A r \in rs : \A m \in r.stored : m.claims \cap r.case.gold # {}
==============================================================================
