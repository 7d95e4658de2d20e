---------------------------------- MODULE Api ----------------------------------
(***************************************************************************)
(* The HTTP surface: start-up, authentication, ownership, the endpoints of *)
(* routes.py and their answers, for several users with concurrent requests *)
(* on one store.                                                           *)
(*                                                                         *)
(* The checks of a request touch nothing shared and are one step, in the   *)
(* order in which they refuse.  What the agent does afterwards is modelled *)
(* as far as the surface tells it apart: modules WritePath, Conversation   *)
(* and Paging follow the single store calls.  `by` marks whose request a   *)
(* stored thing came from, which the program does not record.              *)
(***************************************************************************)
EXTENDS Integers, FiniteSets, FiniteSetsExt

CONSTANTS
  Workers,        \* threads that serve requests
  Users,
  Threads,
  NULL,           \* None: no credential, no subject, no expiry
  BAD,            \* a token the verifier rejects
  Deployments,    \* auth_mode, and whether the user pool and client id are set
  Stores,         \* the memories a deployment may start with
  Legacies,       \* the legacy conversations it may start with
  MemoryLimit,    \* limit of all_memories
  HeldLimit,      \* limit of quarantined
  MaxRequests,    \* bound of the model: requests that arrive
  MaxTime         \* bound of the model: the last instant of the clock

Ops == {"chat", "observe", "list", "history", "quarantine",
        "forget_user", "forget_thread", "forget_memory"}

(* A memory, up to what the surface shows of it.                           *)
Record ==
  [id : Nat, user : Users, by : Users \cup {NULL, BAD}, thread : Threads \cup {NULL},
   retired : BOOLEAN, expires : Nat \cup {NULL}]

ASSUME ApiAssumption ==
  /\ NULL \notin Users \cup Threads \cup Int /\ BAD \notin Users \cup {NULL}
  /\ Deployments \subseteq [mode : {"cognito", "disabled"}, configured : BOOLEAN]
  /\ \A L \in Legacies : L \subseteq Users \X Threads
  /\ MemoryLimit \in Nat \ {0} /\ HeldLimit \in Nat \ {0}
  /\ MaxRequests \in Nat /\ MaxTime \in Nat

(* What a deployment starts with was put by requests of its owners, under  *)
(* ids (UUIDs) that no later request draws: those are numbered from 1.     *)
ASSUME StoresAssumption ==
  \A S \in Stores :
    /\ S \subseteq Record /\ IsFiniteSet(S)
    /\ \A m \in S : m.by = m.user /\ m.id > MaxRequests
    /\ \A m, n \in S : m.user = n.user /\ m.id = n.id => m = n

VARIABLES
  mode,        \* auth_mode
  configured,  \* the user pool and the client id are set
  phase,       \* "starting", "serving" or "failed"
  memories,    \* ("memories", user) of all users
  held,        \* ("quarantine", user) of all users
  index,       \* ("threads", user) of all users: the v2 entries
  legacy,      \* those of an older version
  transcript,  \* who spoke in which checkpoint: <<checkpoint id, by>>
  now,
  started,     \* requests so far
  request,     \* request[w]: what w serves, how far it is, its answer
  audit        \* history: audit[u], the last total a listing read of u since
               \* u's memories changed

data == <<memories, held, index, transcript>>
deployment == <<mode, configured, legacy>>
vars == <<deployment, phase, data, now, started, request, audit>>

Idle == [at |-> "idle"]

(* What a client sends: `credential` is the user a valid token names.      *)
(* Only observe names a source, only list has a filter, and only chat and  *)
(* observe have a body, which may be no JSON or lack a field.              *)
Requests ==
  {r \in [op : Ops, user : Users, credential : Users \cup {NULL, BAD},
          body : {"valid", "invalid", "unparsable"},
          trusted : BOOLEAN, thread : Threads, retired : BOOLEAN] :
     /\ r.trusted => r.op = "observe"
     /\ r.retired => r.op = "list"
     /\ r.body # "valid" => r.op \in {"chat", "observe"}}

At(w, step) == request[w].at = step
User(w) == request[w].user
By(w) == request[w].credential
Of(u, S) == {x \in S : x.user = u}

(* status; whose things the body shows; the counts of a listing.           *)
Answer(status, shows) == [status |-> status, shows |-> shows, total |-> 0, active |-> 0,
                          items |-> 0, flagged |-> 0]
------------------------------------------------------------------------------
(* The checks before an endpoint touches anything.                         *)

(* current_user: a token is looked at only when one is required, and keys  *)
(* that cannot be fetched are an outage, not a bad token.                  *)
CurrentUser(r, reachable) ==
  IF mode = "disabled" THEN [status |-> 200, subject |-> NULL]
  ELSE IF r.credential = NULL THEN [status |-> 401, subject |-> NULL]
  ELSE IF ~reachable THEN [status |-> 503, subject |-> NULL]
  ELSE IF r.credential = BAD THEN [status |-> 401, subject |-> NULL]
  ELSE [status |-> 200, subject |-> r.credential]

RequireOwner(subject, user) == subject = NULL \/ subject = user

(* The endpoints whose first statement is require_owner: each has a call   *)
(* of its own.                                                             *)
Owned == {"chat", "observe", "list", "history", "quarantine",
          "forget_user", "forget_thread", "forget_memory"}

(* The first check that refuses answers: can the body be read at all, who  *)
(* is it, has the body its fields, is it the owner, may this endpoint be   *)
(* told such a thing.                                                      *)
Verdict(r, reachable) ==
  LET caller == CurrentUser(r, reachable)
  IN IF r.body = "unparsable" THEN 422
     ELSE IF caller.status # 200 THEN caller.status
     ELSE IF r.body = "invalid" THEN 422
     ELSE IF r.op \in Owned /\ ~RequireOwner(caller.subject, r.user) THEN 403
     ELSE IF r.op = "observe" /\ r.trusted THEN 422
     ELSE 200
------------------------------------------------------------------------------
(* What the handlers read.                                                 *)

IsActive(m) == ~m.retired /\ (m.expires = NULL \/ m.expires > now)

Capped(S, n) == IF Cardinality(S) <= n THEN {S} ELSE kSubset(n, S)

OnlyActive(S) == {m \in S : IsActive(m)}

(* A faulty checkpoint id: the public name, shared by all users.           *)
BareThread(u, t) == <<t>>

(* checkpoint_thread_id, a hash of the pair.                               *)
CheckpointId(u, t) == <<u, t>>

IsLegacy(u, t) == <<u, t>> \in legacy

AllMigrated(u) == \A t \in Threads : ~IsLegacy(u, t)

Said(u, t) == {x \in transcript : x[1] = CheckpointId(u, t)}
Speakers(u, t) == {x[2] : x \in Said(u, t)}
------------------------------------------------------------------------------
Init ==
  /\ \E d \in Deployments : mode = d.mode /\ configured = d.configured
  /\ legacy \in Legacies /\ memories \in Stores
  /\ phase = "starting" /\ held = {} /\ index = {} /\ transcript = {}
  /\ now = 0 /\ started = 0
  /\ request = [w \in Workers |-> Idle]
  /\ audit = [u \in Users |-> NULL]

(* A faulty start: without a user pool the verifier is left out.           *)
StartsUnverified ==
  /\ phase = "starting" /\ phase' = "serving"
  /\ UNCHANGED <<deployment, data, now, started, request, audit>>

(* lifespan: the verifier is built first, and refuses to be built without  *)
(* a user pool; requests are served once the agent exists.                 *)
Startup ==
  /\ phase = "starting"
  /\ phase' = IF mode = "cognito" /\ ~configured THEN "failed" ELSE "serving"
  /\ UNCHANGED <<deployment, data, now, started, request, audit>>

(* A request arrives and is checked: refused at once, or handed on.  With  *)
(* authentication off nobody looks at a credential, and none is offered.   *)
Arrive(w, r) ==
  /\ phase = "serving" /\ request[w] = Idle /\ started < MaxRequests
  /\ mode = "disabled" => r.credential = NULL
  /\ started' = started + 1
  /\ \E reachable \in BOOLEAN :
       LET status == Verdict(r, reachable)
           checked == [at |-> IF status = 200 THEN r.op ELSE "answered",
                       op |-> r.op, user |-> r.user, credential |-> r.credential,
                       thread |-> r.thread, retired |-> r.retired,
                       serial |-> started', touched |-> FALSE, promised |-> NULL,
                       page |-> {}, items |-> {}, active |-> 0,
                       answer |-> Answer(status, {})]
       IN request' = [request EXCEPT ![w] = checked]
  /\ UNCHANGED <<deployment, phase, data, now, audit>>

(* w makes a store call that leaves the data as in the primed variables    *)
(* and goes on at `step`.                                                  *)
Calls(w, step) ==
  /\ request' = [request EXCEPT ![w].at = step,
                                ![w].touched = @ \/ data' # data]
  /\ audit' = [u \in Users |-> IF Of(u, memories') = Of(u, memories) THEN audit[u] ELSE NULL]
  /\ UNCHANGED <<deployment, phase, now, started>>

(* The same, with the answer.                                              *)
Answers(w, answer) ==
  /\ request' = [request EXCEPT ![w].at = "answered", ![w].answer = answer,
                                ![w].page = {}, ![w].items = {}, ![w].active = 0,
                                ![w].touched = @ \/ data' # data]
  /\ audit' = [u \in Users |-> IF Of(u, memories') = Of(u, memories) THEN audit[u] ELSE NULL]
  /\ UNCHANGED <<deployment, phase, now, started>>

Refuses(w, status) == UNCHANGED data /\ Answers(w, Answer(status, {}))

Done(w) ==
  /\ At(w, "answered")
  /\ request' = [request EXCEPT ![w] = Idle]
  /\ UNCHANGED <<deployment, phase, data, now, started, audit>>
------------------------------------------------------------------------------
(* chat: record_thread, the checkpoints of the graph run, remember.        *)
ChatRecord(w) ==
  LET u == User(w)  t == request[w].thread
  IN /\ At(w, "chat")
     /\ \/ IsLegacy(u, t) /\ Refuses(w, 409)
        \/ /\ ~IsLegacy(u, t)
           /\ index' = index \cup {<<u, t>>}
           /\ UNCHANGED <<memories, held, transcript>>
           /\ Calls(w, "speak")

ChatSpeak(w) ==
  LET u == User(w)  t == request[w].thread
  IN /\ At(w, "speak")
     /\ transcript' = transcript \cup {<<CheckpointId(u, t), By(w)>>}
     /\ UNCHANGED <<memories, held, index>>
     /\ Calls(w, "remember")

NewRecord(w, expires) ==
  [id |-> request[w].serial, user |-> User(w), by |-> By(w),
   thread |-> request[w].thread, retired |-> FALSE, expires |-> expires]

Blocked(w) == [id |-> request[w].serial, user |-> User(w), by |-> By(w)]

(* The turn is remembered, contradicts an old record, is quarantined, or   *)
(* holds nothing to remember; the answer shows what recall may have found. *)
ChatRemember(w) ==
  LET mine == Of(User(w), memories)
      shows == {m.by : m \in mine} \cup Speakers(User(w), request[w].thread)
  IN /\ At(w, "remember")
     /\ \/ \E expires \in {NULL, now + 1} :
             \E old \in {{}} \cup {{m} : m \in OnlyActive(mine)} :
               /\ memories' = (memories \ old) \cup {[m EXCEPT !.retired = TRUE] : m \in old}
                                \cup {NewRecord(w, expires)}
               /\ UNCHANGED held
        \/ held' = held \cup {Blocked(w)} /\ UNCHANGED memories
        \/ UNCHANGED <<memories, held>>
     /\ UNCHANGED <<index, transcript>>
     /\ Answers(w, Answer(200, shows))

(* observe: the gate blocks what a tool or a document says.                *)
Observe(w) ==
  /\ At(w, "observe")
  /\ held' = held \cup {Blocked(w)}
  /\ UNCHANGED <<memories, index, transcript>>
  /\ Answers(w, Answer(200, {}))

(* list_memories reads once; then it filters, counts and flags that copy,  *)
(* and is_active looks at the clock each time.                             *)
ListShow(w) ==
  /\ At(w, "list")
  /\ \E page \in Capped(Of(User(w), memories), MemoryLimit) :
       /\ request' = [request EXCEPT ![w].at = "count", ![w].page = page,
            ![w].items = IF request[w].retired THEN page ELSE OnlyActive(page)]
       /\ audit' = [audit EXCEPT ![User(w)] = Cardinality(page)]
  /\ UNCHANGED <<deployment, phase, data, now, started>>

(* A faulty count: what is not retired is active.                          *)
CountUnretired(w) == Cardinality({m \in request[w].page : ~m.retired})

CountActive(w) == Cardinality(OnlyActive(request[w].page))

ListCount(w) ==
  /\ At(w, "count")
  /\ request' = [request EXCEPT ![w].at = "flag", ![w].active = CountActive(w)]
  /\ UNCHANGED <<deployment, phase, data, now, started, audit>>

ListAnswer(w) ==
  LET r == request[w]
  IN /\ At(w, "flag") /\ UNCHANGED data
     /\ Answers(w, [Answer(200, {m.by : m \in r.items}) EXCEPT
          !.total = Cardinality(r.page), !.active = r.active,
          !.items = Cardinality(r.items), !.flagged = Cardinality(OnlyActive(r.items))])

History(w) ==
  LET u == User(w)  t == request[w].thread
  IN /\ At(w, "history") /\ UNCHANGED data
     /\ Answers(w, IF IsLegacy(u, t) THEN Answer(409, {}) ELSE Answer(200, Speakers(u, t)))

Quarantined(w) ==
  /\ At(w, "quarantine") /\ UNCHANGED data
  /\ \E page \in Capped(Of(User(w), held), HeldLimit) :
       Answers(w, [Answer(200, {q.by : q \in page}) EXCEPT !.total = Cardinality(page)])
------------------------------------------------------------------------------
(* forget_user: every conversation is validated, then the namespaces go    *)
(* one after the other.  The memories are looked up first and deleted by   *)
(* their keys; the report counts what was found.  `promised` is what the   *)
(* last listing told of them, if that still stands.                        *)
ForgetUserCheck(w) ==
  /\ At(w, "forget_user")
  /\ \/ ~AllMigrated(User(w)) /\ Refuses(w, 409)
     \/ AllMigrated(User(w)) /\ UNCHANGED data /\ Calls(w, "find_memories")

Finds(w, found) ==
  /\ At(w, "find_memories")
  /\ request' = [request EXCEPT ![w].at = "erase_memories", ![w].page = found,
                                ![w].promised = audit[User(w)]]
  /\ UNCHANGED <<deployment, phase, data, now, started, audit>>

(* A faulty delete: it finds what recall would.                            *)
FindActive(w) == Finds(w, OnlyActive(Of(User(w), memories)))

FindMemories(w) == Finds(w, Of(User(w), memories))

(* What is left when the records w has found are deleted by their keys.    *)
Without(w) ==
  {m \in memories : m.user # User(w) \/ m.id \notin {f.id : f \in request[w].page}}

EraseMemories(w) ==
  /\ At(w, "erase_memories")
  /\ memories' = Without(w)
  /\ UNCHANGED <<held, index, transcript>>
  /\ Calls(w, "erase_held")

EraseHeld(w) ==
  /\ At(w, "erase_held")
  /\ held' = held \ Of(User(w), held)
  /\ UNCHANGED <<memories, index, transcript>>
  /\ Calls(w, "erase_threads")

EraseThreads(w) ==
  LET u == User(w)
  IN /\ At(w, "erase_threads")
     /\ transcript' = transcript \ UNION {Said(u, t) : t \in Threads}
     /\ index' = {e \in index : e[1] # u}
     /\ UNCHANGED <<memories, held>>
     /\ Answers(w, [Answer(200, {}) EXCEPT !.total = Cardinality(request[w].page)])

(* A faulty delete: the conversation is looked up when its memories are    *)
(* gone.                                                                   *)
ForgetThreadChecksLate(w) ==
  LET u == User(w)  t == request[w].thread
  IN /\ At(w, "forget_thread")
     /\ memories' = {m \in memories : m.user # u \/ m.thread # t}
     /\ UNCHANGED <<held, index, transcript>>
     /\ IF IsLegacy(u, t) THEN Answers(w, Answer(409, {})) ELSE Calls(w, "forget_transcript")

ForgetThread(w) ==
  LET u == User(w)  t == request[w].thread
  IN /\ At(w, "forget_thread")
     /\ \/ IsLegacy(u, t) /\ Refuses(w, 409)
        \/ /\ ~IsLegacy(u, t)
           /\ memories' = {m \in memories : m.user # u \/ m.thread # t}
           /\ UNCHANGED <<held, index, transcript>>
           /\ Calls(w, "forget_transcript")

ForgetTranscript(w) ==
  LET u == User(w)  t == request[w].thread
  IN /\ At(w, "forget_transcript")
     /\ transcript' = transcript \ Said(u, t)
     /\ index' = index \ {<<u, t>>}
     /\ UNCHANGED <<memories, held>>
     /\ Answers(w, Answer(200, {}))

(* forget_memory looks the record up before it deletes it.                 *)
ForgetMemoryGet(w) ==
  /\ At(w, "forget_memory")
  /\ \/ Refuses(w, 404)   \* no record has the id that was asked for
     \/ \E m \in Of(User(w), memories) :
          /\ request' = [request EXCEPT ![w].at = "delete", ![w].page = {m}]
          /\ UNCHANGED <<deployment, phase, data, now, started, audit>>

ForgetMemoryDelete(w) ==
  /\ At(w, "delete")
  /\ memories' = Without(w)
  /\ UNCHANGED <<held, index, transcript>>
  /\ Answers(w, Answer(200, {}))

(* A store, a model or an embedder fails: 500, after any number of calls.  *)
Fail(w) ==
  /\ ~At(w, "idle") /\ ~At(w, "answered")
  /\ UNCHANGED data /\ Answers(w, Answer(500, {}))

Tick ==
  /\ now < MaxTime /\ now' = now + 1
  /\ UNCHANGED <<deployment, phase, data, started, request, audit>>

Handle(w) ==
  \/ ChatRecord(w) \/ ChatSpeak(w) \/ ChatRemember(w) \/ Observe(w)
  \/ ListShow(w) \/ ListCount(w) \/ ListAnswer(w) \/ History(w) \/ Quarantined(w)
  \/ ForgetUserCheck(w) \/ FindMemories(w) \/ EraseMemories(w) \/ EraseHeld(w) \/ EraseThreads(w)
  \/ ForgetThread(w) \/ ForgetTranscript(w)
  \/ ForgetMemoryGet(w) \/ ForgetMemoryDelete(w)
  \/ Fail(w) \/ Done(w)

Next ==
  \/ Startup \/ Tick
  \/ \E w \in Workers : Handle(w) \/ \E r \in Requests : Arrive(w, r)

Spec == Init /\ [][Next]_vars
------------------------------------------------------------------------------
(* Properties.                                                             *)

Answered(w) == At(w, "answered")
Statuses == {200, 401, 403, 404, 409, 422, 500, 503}

(* The types of the variables: ids are unique per user, and nothing is     *)
(* served before the verifier the mode asks for could be built.            *)
TypeOK ==
  /\ phase \in {"starting", "serving", "failed"}
  /\ memories \subseteq Record
  /\ \A m, n \in memories : m.user = n.user /\ m.id = n.id => m = n
  /\ index \subseteq (Users \X Threads) \ legacy
  /\ now \in 0..MaxTime /\ started \in 0..MaxRequests
  /\ \A w \in Workers : ~At(w, "idle") =>
       /\ phase = "serving" /\ (mode = "cognito" => configured)
       /\ request[w].answer.status \in Statuses
  /\ \A u \in Users : audit[u] \in Nat \cup {NULL}

(* With authentication on, a user's things come from the user alone and    *)
(* are shown to nobody else, transcripts under one conversation name       *)
(* included, and a request changes nothing unless it carries a valid token *)
(* of the user it names (current_user, require_owner, checkpoint_thread_id).*)
OwnersOnly ==
  mode = "cognito" =>
    /\ \A x \in memories \cup held : x.by = x.user
    /\ \A w \in Workers : ~At(w, "idle") =>
         /\ request[w].answer.shows \subseteq {By(w)}
         /\ request[w].touched => By(w) = User(w)

(* A refusal is one: a request that was answered with a client error or an *)
(* outage has changed nothing, the conflict with a legacy conversation     *)
(* included ("must not turn a complete-delete request into a silent        *)
(* partial deletion", forget_user).                                        *)
RefusedRequestsChangeNothing ==
  \A w \in Workers :
    Answered(w) /\ request[w].answer.status \notin {200, 500} => ~request[w].touched

(* A listing adds up although memories expire while it is made: what is    *)
(* flagged active is within the active count, that within the items, and   *)
(* those within the total (list_memories).                                 *)
ListingAddsUp ==
  \A w \in Workers : Answered(w) /\ request[w].op = "list" =>
    LET a == request[w].answer
    IN /\ a.flagged <= a.active /\ a.active <= a.items /\ a.items <= a.total
       /\ request[w].retired => a.items = a.total

(* What a delete removed agrees with what was shown: none of it unknown if *)
(* the listing had room left, at least as much if it was full.             *)
Agrees(shown, removed) ==
  shown # NULL => IF shown < MemoryLimit THEN removed = shown ELSE removed >= shown

(* "A memory system whose contents cannot be inspected or removed is one   *)
(* users have to take on trust" (routes.py): the report of a delete of the *)
(* user agrees with the total of the last listing, retired and expired     *)
(* records included, if no memory of the user changed in between, whatever *)
(* the clock and the other requests did.                                   *)
ShownIsWhatIsErased ==
  \A w \in Workers :
    Answered(w) /\ request[w].op = "forget_user" /\ request[w].answer.status = 200 =>
      Agrees(request[w].promised, request[w].answer.total)
==============================================================================
