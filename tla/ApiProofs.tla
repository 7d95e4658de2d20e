------------------------------- MODULE ApiProofs -------------------------------
(***************************************************************************)
(* What holds of the HTTP surface for any number of users, conversations   *)
(* and concurrent requests, any stores a deployment may start with and any *)
(* limits of a listing: proofs about Api's Spec.                           *)
(*                                                                         *)
(* The properties speak of answers.  The invariant they need follows a     *)
(* request from its arrival: whose it is, whether it has changed anything  *)
(* yet, and how what it has read relates to what is stored by now.         *)
(***************************************************************************)
EXTENDS Api, FiniteSetTheorems, TLAPS

Callers == Users \cup {NULL, BAD}

Steps == Ops \cup
  {"speak", "remember", "count", "flag", "find_memories", "erase_memories",
   "erase_held", "erase_threads", "forget_transcript", "delete", "answered"}

HeldRecord == [id : Nat, user : Users, by : Callers]

AnswerType ==
  [status : Statuses, shows : SUBSET Callers, total : Nat, active : Nat,
   items : Nat, flagged : Nat]

Serving ==
  [at : Steps, op : Ops, user : Users, credential : Callers, thread : Threads,
   retired : BOOLEAN, serial : Nat, touched : BOOLEAN, promised : Nat \cup {NULL},
   page : SUBSET Record,
   items : SUBSET Record, active : Nat, answer : AnswerType]

StoreOK ==
  /\ memories \subseteq Record /\ IsFiniteSet(memories)
  /\ held \subseteq HeldRecord /\ IsFiniteSet(held)
  /\ index \subseteq (Users \X Threads) \ legacy
  /\ transcript \subseteq (Users \X Threads) \X Callers

(* A worker is idle or serves a request of the types it was made with; all *)
(* of it was checked by a verifier that could be built.                    *)
RequestOK ==
  /\ DOMAIN request = Workers
  /\ \A w \in Workers : request[w] = Idle \/ request[w] \in Serving
  /\ \A w \in Workers : ~At(w, "idle") => phase = "serving"
  /\ phase \in {"starting", "serving", "failed"}
  /\ phase = "serving" => (mode = "cognito" => configured)
  /\ now \in 0..MaxTime /\ started \in 0..MaxRequests

(* A request draws an id of its own, and until it puts its record nobody   *)
(* has one under this id.                                                  *)
IdsOK ==
  /\ \A m, n \in memories : m.user = n.user /\ m.id = n.id => m = n
  /\ \A m \in memories : m.id <= started \/ m.id > MaxRequests
  /\ \A w \in Workers : ~At(w, "idle") =>
       /\ request[w].serial \in 1..started
       /\ request[w].at \in {"chat", "speak", "remember"} =>
            \A m \in memories : m.id # request[w].serial
       /\ \A v \in Workers : ~At(v, "idle") /\ request[v].serial = request[w].serial => v = w

(* Under authentication a request that has got past the checks is its      *)
(* owner's, and holds copies of the owner's records only.                  *)
OwnRequest(w) ==
  /\ ~At(w, "answered") => By(w) = User(w)
  /\ request[w].touched => By(w) = User(w)
  /\ request[w].answer.shows \subseteq {By(w)}
  /\ \A m \in request[w].page \cup request[w].items : m.by = User(w)

OwnersOK ==
  mode = "cognito" =>
    /\ \A x \in memories \cup held : x.by = x.user
    /\ \A x \in transcript : x[2] = x[1][1]
    /\ \A w \in Workers : ~At(w, "idle") => OwnRequest(w)

(* What may still be refused has changed nothing.                          *)
RefusalOK(w) ==
  /\ request[w].at \in Ops \cup {"count", "flag"} => ~request[w].touched
  /\ At(w, "answered") /\ request[w].answer.status \notin {200, 500} => ~request[w].touched

(* A listing under way: what it counted before is still in order, however  *)
(* many of its records have expired since.                                 *)
Listing(w) ==
  LET r == request[w] IN
  /\ r.at \in Ops => r.op = r.at
  /\ r.at \in {"count", "flag"} =>
       /\ r.op = "list" /\ IsFiniteSet(r.page) /\ r.items \subseteq r.page
       /\ r.retired => r.items = r.page
  /\ r.at = "count" => OnlyActive(r.page) \subseteq r.items
  /\ r.at = "flag" =>
       /\ Cardinality(OnlyActive(r.page)) <= r.active
       /\ r.active <= Cardinality(r.items)
  /\ r.at \notin Ops \cup {"count", "flag", "answered"} => r.op # "list"

(* The answer of a listing adds up.                                        *)
Added(w) ==
  At(w, "answered") /\ request[w].op = "list" =>
    LET a == request[w].answer
    IN /\ a.flagged <= a.active /\ a.active <= a.items /\ a.items <= a.total
       /\ request[w].retired => a.items = a.total

AnswersOK ==
  \A w \in Workers : ~At(w, "idle") => RefusalOK(w) /\ Listing(w) /\ Added(w)

(* A total that was listed agrees with what is stored.                     *)
AuditOK ==
  /\ audit \in [Users -> Nat \cup {NULL}]
  /\ \A u \in Users : Agrees(audit[u], Cardinality(Of(u, memories)))

(* A delete of a user under way: what it has found, and will report, is    *)
(* what had been listed.                                                   *)
ErasingSteps == {"erase_memories", "erase_held", "erase_threads"}

Erasing(w) ==
  LET r == request[w] IN
  /\ r.at \in ErasingSteps =>
       Cardinality(r.page) \in Nat /\ Agrees(r.promised, Cardinality(r.page))
  /\ r.op = "forget_user" /\ r.at = "answered" /\ r.answer.status = 200 =>
       Agrees(r.promised, r.answer.total)
  /\ r.op = "forget_user" =>
       r.at \in ErasingSteps \cup {"forget_user", "find_memories", "answered"}
  /\ r.at \in ErasingSteps \cup {"find_memories"} => r.op = "forget_user"

ErasuresOK == \A w \in Workers : ~At(w, "idle") => Erasing(w)

IInv ==
  /\ StoreOK /\ RequestOK /\ IdsOK /\ OwnersOK /\ AnswersOK /\ AuditOK /\ ErasuresOK

(* What a request was made with does not change while it is served, and    *)
(* one step is of one request.                                             *)
SameClient(w) ==
  /\ DOMAIN request' = Workers
  /\ \A v \in Workers \ {w} : request'[v] = request[v]
  /\ request'[w].op = request[w].op /\ request'[w].user = request[w].user
  /\ request'[w].credential = request[w].credential
  /\ request'[w].thread = request[w].thread
  /\ request'[w].retired = request[w].retired
  /\ request'[w].serial = request[w].serial
------------------------------------------------------------------------------
(* The moves of a request.                                                 *)

LEMMA ServingIsNotIdle ==
  ASSUME RequestOK, NEW w \in Workers, ~At(w, "idle")
  PROVE  request[w] \in Serving
BY DEF RequestOK, At, Idle

(* A store call changes where the request is, and marks a change of data.  *)
LEMMA CallsMove ==
  ASSUME RequestOK, NEW w \in Workers, ~At(w, "idle"), NEW step \in Steps,
         Calls(w, step)
  PROVE  /\ request'[w] \in Serving /\ SameClient(w)
         /\ request'[w].at = step
         /\ request'[w].touched = (request[w].touched \/ data' # data)
         /\ request'[w].page = request[w].page /\ request'[w].items = request[w].items
         /\ request'[w].active = request[w].active
         /\ request'[w].answer = request[w].answer
         /\ request'[w].promised = request[w].promised
<1>1. request[w] \in Serving
  BY ServingIsNotIdle
<1> QED BY <1>1 DEF Calls, Serving, SameClient, RequestOK

LEMMA AnswersMove ==
  ASSUME RequestOK, NEW w \in Workers, ~At(w, "idle"), NEW answer \in AnswerType,
         Answers(w, answer)
  PROVE  /\ request'[w] \in Serving /\ SameClient(w)
         /\ request'[w].at = "answered"
         /\ request'[w].touched = (request[w].touched \/ data' # data)
         /\ request'[w].page = {} /\ request'[w].items = {}
         /\ request'[w].answer = answer
         /\ request'[w].promised = request[w].promised
<1>1. request[w] \in Serving
  BY ServingIsNotIdle
<1> QED BY ZenonT(60), <1>1 DEF Answers, Serving, SameClient, RequestOK, Steps
------------------------------------------------------------------------------
(* What the handlers read.                                                 *)

LEMMA CappedPage ==
  ASSUME NEW S, IsFiniteSet(S), NEW n \in Nat, NEW page \in Capped(S, n)
  PROVE  /\ page \subseteq S /\ IsFiniteSet(page)
         /\ Cardinality(page) \in Nat /\ Cardinality(S) \in Nat
         /\ Agrees(Cardinality(page), Cardinality(S)) \/ n # MemoryLimit
<1>1. page \subseteq S
  BY DEF Capped, kSubset
<1>2. /\ IsFiniteSet(page) /\ Cardinality(page) \in Nat /\ Cardinality(S) \in Nat
      /\ Cardinality(page) <= Cardinality(S)
  BY <1>1, FS_Subset, FS_CardinalityType
<1>3. Cardinality(page) < n => page = S
  BY <1>2 DEF Capped, kSubset
<1>4. n = MemoryLimit => Agrees(Cardinality(page), Cardinality(S))
  BY <1>2, <1>3 DEF Agrees
<1> QED BY <1>1, <1>2, <1>4

LEMMA OfUser ==
  ASSUME NEW S, NEW u
  PROVE  Of(u, S) \subseteq S
BY DEF Of

LEMMA AnswerTyped ==
  ASSUME NEW status \in Statuses, NEW shows \in SUBSET Callers
  PROVE  Answer(status, shows) \in AnswerType
BY DEF Answer, AnswerType

LEMMA SpeakersAreCallers ==
  ASSUME StoreOK, NEW u, NEW t
  PROVE  Speakers(u, t) \subseteq Callers
BY DEF StoreOK, Speakers, Said

(* What a chat may show: the owner's records and the speakers.             *)
LEMMA ChatShows ==
  ASSUME StoreOK, NEW u, NEW t
  PROVE  {m.by : m \in Of(u, memories)} \cup Speakers(u, t) \subseteq Callers
BY SpeakersAreCallers, OfUser DEF StoreOK, Record, Callers

LEMMA HeldPage ==
  ASSUME StoreOK, NEW u, NEW page \in Capped(Of(u, held), HeldLimit)
  PROVE  /\ page \subseteq Of(u, held) /\ page \subseteq HeldRecord
         /\ Cardinality(page) \in Nat
<1>1. IsFiniteSet(Of(u, held))
  BY OfUser, FS_Subset DEF StoreOK
<1> QED BY <1>1, OfUser, CappedPage, ApiAssumption DEF StoreOK

LEMMA ListedPage ==
  ASSUME StoreOK, NEW u, NEW page \in Capped(Of(u, memories), MemoryLimit)
  PROVE  /\ page \subseteq Of(u, memories) /\ page \subseteq Record
         /\ IsFiniteSet(page) /\ Cardinality(page) \in Nat
         /\ Agrees(Cardinality(page), Cardinality(Of(u, memories)))
<1>1. IsFiniteSet(Of(u, memories))
  BY OfUser, FS_Subset DEF StoreOK
<1> QED BY <1>1, OfUser, CappedPage, ApiAssumption DEF StoreOK

(* The answer of a listing has its type: its parts are finite.             *)
LEMMA ListAnswerTyped ==
  ASSUME IInv, NEW w \in Workers, At(w, "flag")
  PROVE  [Answer(200, {m.by : m \in request[w].items}) EXCEPT
            !.total = Cardinality(request[w].page), !.active = request[w].active,
            !.items = Cardinality(request[w].items),
            !.flagged = Cardinality(OnlyActive(request[w].items))] \in AnswerType
<1> DEFINE r == request[w]
<1>1. r \in Serving /\ ~At(w, "idle")
  BY DEF IInv, RequestOK, At, Idle
<1>2. IsFiniteSet(r.page) /\ r.items \subseteq r.page
  BY <1>1 DEF IInv, AnswersOK, Listing, At
<1>3. OnlyActive(r.items) \subseteq r.items
  BY DEF OnlyActive
<1>4. /\ Cardinality(r.page) \in Nat /\ Cardinality(r.items) \in Nat
      /\ Cardinality(OnlyActive(r.items)) \in Nat
  BY <1>2, <1>3, FS_Subset, FS_CardinalityType
<1>5. {m.by : m \in r.items} \subseteq Callers
  BY <1>1 DEF Serving, Record, Callers
<1>6. r.active \in Nat
  BY <1>1 DEF Serving
<1> QED BY ZenonT(60), <1>4, <1>5, <1>6 DEF Answer, AnswerType, Statuses

(* The report of a delete of the user.                                     *)
Report(w) == [Answer(200, {}) EXCEPT !.total = Cardinality(request[w].page)]

LEMMA ReportTyped ==
  ASSUME IInv, NEW w \in Workers, At(w, "erase_threads")
  PROVE  /\ Report(w) \in AnswerType
         /\ Report(w).status = 200 /\ Report(w).shows = {}
         /\ Report(w).total = Cardinality(request[w].page)
<1>1. Cardinality(request[w].page) \in Nat
  BY DEF IInv, ErasuresOK, Erasing, ErasingSteps, At
<1> QED BY ZenonT(60), <1>1 DEF Report, Answer, AnswerType, Statuses
------------------------------------------------------------------------------
(* Every step of a request moves that request only.                        *)
Moved(w) ==
  /\ ~At(w, "idle")
  /\ DOMAIN request' = Workers
  /\ \A v \in Workers \ {w} : request'[v] = request[v]
  /\ request'[w] = Idle \/ (request'[w] \in Serving /\ SameClient(w))
  /\ UNCHANGED <<mode, configured, legacy, phase, now, started>>

LEMMA CallsMoves ==
  ASSUME RequestOK, NEW w \in Workers, ~At(w, "idle"), NEW step \in Steps,
         Calls(w, step)
  PROVE  Moved(w)
<1>1. request'[w] \in Serving /\ SameClient(w)
  BY CallsMove
<1> QED BY <1>1 DEF Moved, SameClient, Calls, deployment

LEMMA AnswersMoves ==
  ASSUME RequestOK, NEW w \in Workers, ~At(w, "idle"), NEW answer \in AnswerType,
         Answers(w, answer)
  PROVE  Moved(w)
<1>1. request'[w] \in Serving /\ SameClient(w)
  BY AnswersMove
<1> QED BY <1>1 DEF Moved, SameClient, Answers, deployment

LEMMA RefusesMoves ==
  ASSUME RequestOK, NEW w \in Workers, ~At(w, "idle"), NEW status \in Statuses,
         Refuses(w, status)
  PROVE  Moved(w)
<1>1. Answer(status, {}) \in AnswerType
  BY AnswerTyped
<1> QED BY <1>1, AnswersMoves DEF Refuses

LEMMA HandleMoves ==
  ASSUME IInv, NEW w \in Workers, Handle(w)
  PROVE  Moved(w)
<1> USE DEF IInv
<1>1. CASE ChatRecord(w)
  BY <1>1, CallsMoves, RefusesMoves DEF ChatRecord, At, Steps, Statuses
<1>2. CASE ChatSpeak(w)
  BY <1>2, CallsMoves DEF ChatSpeak, At, Steps
<1>3. CASE ChatRemember(w)
  <2> DEFINE shows == {m.by : m \in Of(User(w), memories)}
                        \cup Speakers(User(w), request[w].thread)
  <2>1. shows \in SUBSET Callers
    BY ChatShows
  <2>2. Answer(200, shows) \in AnswerType
    BY <2>1, AnswerTyped DEF Statuses
  <2>3. ~At(w, "idle") /\ Answers(w, Answer(200, shows))
    BY <1>3 DEF ChatRemember, At
  <2> QED BY <2>2, <2>3, AnswersMoves
<1>4. CASE Observe(w)
  BY <1>4, AnswerTyped, AnswersMoves DEF Observe, At, Statuses
<1>5. CASE ListShow(w)
  <2>1. request[w] \in Serving
    BY <1>5, ServingIsNotIdle DEF ListShow, At
  <2>2. PICK page \in Capped(Of(User(w), memories), MemoryLimit) :
          request' = [request EXCEPT ![w].at = "count", ![w].page = page,
            ![w].items = IF request[w].retired THEN page ELSE OnlyActive(page)]
    BY <1>5 DEF ListShow
  <2>3. page \in SUBSET Record /\ OnlyActive(page) \in SUBSET Record
    BY ListedPage DEF OnlyActive
  <2>4. request'[w] \in Serving /\ SameClient(w)
    BY <2>1, <2>2, <2>3 DEF Serving, SameClient, RequestOK, Steps
  <2> QED BY <1>5, <2>2, <2>4 DEF ListShow, At, Moved, SameClient, deployment
<1>6. CASE ListCount(w)
  <2>1. request[w] \in Serving /\ IsFiniteSet(request[w].page)
    BY <1>6, ServingIsNotIdle DEF ListCount, At, AnswersOK, Listing
  <2>2. OnlyActive(request[w].page) \in SUBSET request[w].page
    BY DEF OnlyActive
  <2>3. CountActive(w) \in Nat
    BY <2>1, <2>2, FS_Subset, FS_CardinalityType DEF CountActive
  <2> QED
    BY <1>6, <2>1, <2>3
    DEF ListCount, At, Serving, Moved, SameClient, RequestOK, Steps, deployment
<1>7. CASE ListAnswer(w)
  BY <1>7, ListAnswerTyped, AnswersMoves DEF ListAnswer, At
<1>8. CASE History(w)
  BY <1>8, SpeakersAreCallers, AnswerTyped, AnswersMoves DEF History, At, Statuses
<1>9. CASE Quarantined(w)
  <2>1. PICK page \in Capped(Of(User(w), held), HeldLimit) :
          Answers(w, [Answer(200, {q.by : q \in page}) EXCEPT !.total = Cardinality(page)])
    BY <1>9 DEF Quarantined
  <2>2. [Answer(200, {q.by : q \in page}) EXCEPT !.total = Cardinality(page)] \in AnswerType
    <3>1. page \subseteq HeldRecord /\ Cardinality(page) \in Nat
      BY HeldPage
    <3>2. {q.by : q \in page} \in SUBSET Callers
      BY <3>1 DEF HeldRecord
    <3> QED BY ZenonT(60), <3>1, <3>2 DEF Answer, AnswerType, Statuses
  <2> QED BY <1>9, <2>1, <2>2, AnswersMoves DEF Quarantined, At
<1>10. CASE ForgetUserCheck(w)
  BY <1>10, CallsMoves, RefusesMoves DEF ForgetUserCheck, At, Steps, Statuses
<1>11. CASE EraseMemories(w)
  BY <1>11, CallsMoves DEF EraseMemories, At, Steps
<1>12. CASE EraseHeld(w)
  BY <1>12, CallsMoves DEF EraseHeld, At, Steps
<1>13. CASE EraseThreads(w)
  BY <1>13, ReportTyped, AnswersMoves DEF EraseThreads, Report, At
<1>20. CASE FindMemories(w)
  <2>1. request[w] \in Serving /\ audit[User(w)] \in Nat \cup {NULL}
    BY <1>20, ServingIsNotIdle DEF FindMemories, Finds, At, AuditOK, Serving, User
  <2>2. Of(User(w), memories) \in SUBSET Record
    BY OfUser DEF StoreOK
  <2>3. request'[w] \in Serving /\ SameClient(w)
    BY <1>20, <2>1, <2>2 DEF FindMemories, Finds, Serving, SameClient, RequestOK, Steps
  <2> QED BY <1>20, <2>3 DEF FindMemories, Finds, At, Moved, SameClient, RequestOK, deployment
<1>14. CASE ForgetThread(w)
  BY <1>14, CallsMoves, RefusesMoves DEF ForgetThread, At, Steps, Statuses
<1>15. CASE ForgetTranscript(w)
  BY <1>15, AnswerTyped, AnswersMoves DEF ForgetTranscript, At, Statuses
<1>16. CASE ForgetMemoryGet(w)
  <2>1. CASE Refuses(w, 404)
    BY <1>16, <2>1, RefusesMoves DEF ForgetMemoryGet, At, Statuses
  <2>2. CASE ~Refuses(w, 404)
    BY <1>16, <2>2, ServingIsNotIdle, OfUser
    DEF ForgetMemoryGet, At, Serving, Moved, SameClient, RequestOK, StoreOK, Steps, deployment
  <2> QED BY <2>1, <2>2
<1>17. CASE ForgetMemoryDelete(w)
  BY <1>17, AnswerTyped, AnswersMoves DEF ForgetMemoryDelete, At, Statuses
<1>18. CASE Fail(w)
  BY <1>18, AnswerTyped, AnswersMoves DEF Fail, Statuses
<1>19. CASE Done(w)
  BY <1>19 DEF Done, At, Moved, RequestOK, deployment
<1> QED
  BY <1>1, <1>2, <1>3, <1>4, <1>5, <1>6, <1>7, <1>8, <1>9, <1>10, <1>11, <1>12,
     <1>13, <1>14, <1>15, <1>16, <1>17, <1>18, <1>19, <1>20
  DEF Handle
------------------------------------------------------------------------------
(* What a step of a request may do to the stored data and to the totals.   *)
Remembered(w) ==
  \E expires \in {NULL, now + 1} :
    \E old \in {{}} \cup {{m} : m \in Of(User(w), memories)} :
      memories' = (memories \ old) \cup {[m EXCEPT !.retired = TRUE] : m \in old}
                    \cup {NewRecord(w, expires)}

TotalsKept ==
  audit' = [u \in Users |-> IF Of(u, memories') = Of(u, memories) THEN audit[u] ELSE NULL]

Listed(w) ==
  /\ memories' = memories
  /\ \E page \in Capped(Of(User(w), memories), MemoryLimit) :
       audit' = [audit EXCEPT ![User(w)] = Cardinality(page)]

Effect(w) ==
  /\ memories' \subseteq memories \/ (At(w, "remember") /\ Remembered(w))
  /\ held' \subseteq held \/ held' = held \cup {Blocked(w)}
  /\ \/ index' \subseteq index
     \/ /\ index' = index \cup {<<User(w), request[w].thread>>}
        /\ ~IsLegacy(User(w), request[w].thread)
  /\ \/ transcript' \subseteq transcript
     \/ transcript' = transcript \cup {<<CheckpointId(User(w), request[w].thread), By(w)>>}
  /\ At(w, "answered") => UNCHANGED data
  /\ TotalsKept \/ Listed(w) \/ UNCHANGED <<memories, audit>>

LEMMA CallsKeepTotals ==
  ASSUME NEW w, NEW x, Calls(w, x) \/ Answers(w, x) \/ Refuses(w, x)
  PROVE  TotalsKept
BY DEF Calls, Answers, Refuses, TotalsKept

LEMMA HandleEffect ==
  ASSUME NEW w \in Workers, Handle(w)
  PROVE  Effect(w)
<1> USE CallsKeepTotals DEF Effect, At
<1>1. CASE ChatRecord(w)
  BY <1>1 DEF ChatRecord, Refuses, data
<1>2. CASE ChatSpeak(w)
  BY <1>2 DEF ChatSpeak
<1>3. CASE ChatRemember(w)
  <2>1. memories' \subseteq memories \/ Remembered(w)
    BY <1>3 DEF ChatRemember, Remembered, OnlyActive
  <2> QED BY <1>3, <2>1 DEF ChatRemember
<1>4. CASE Observe(w)
  BY <1>4 DEF Observe
<1>5. CASE ListShow(w)
  BY <1>5 DEF ListShow, Listed, data
<1>6. CASE ListCount(w) \/ ListAnswer(w) \/ History(w) \/ Quarantined(w) \/ Fail(w) \/ Done(w)
  BY ZenonT(60), <1>6 DEF ListCount, ListAnswer, History, Quarantined, Fail, Done, data
<1>7. CASE ForgetUserCheck(w)
  BY <1>7 DEF ForgetUserCheck, Refuses, data
<1>8. CASE EraseMemories(w)
  BY <1>8 DEF EraseMemories, Without
<1>15. CASE FindMemories(w)
  BY <1>15 DEF FindMemories, Finds, data
<1>9. CASE EraseHeld(w)
  BY <1>9 DEF EraseHeld
<1>10. CASE EraseThreads(w)
  BY <1>10 DEF EraseThreads
<1>11. CASE ForgetThread(w)
  BY <1>11 DEF ForgetThread, Refuses, data
<1>12. CASE ForgetTranscript(w)
  BY <1>12 DEF ForgetTranscript
<1>13. CASE ForgetMemoryGet(w)
  BY <1>13 DEF ForgetMemoryGet, Refuses, data
<1>14. CASE ForgetMemoryDelete(w)
  BY <1>14 DEF ForgetMemoryDelete, Without
<1> QED
  BY <1>1, <1>2, <1>3, <1>4, <1>5, <1>6, <1>7, <1>8, <1>9, <1>10, <1>11, <1>12,
     <1>13, <1>14, <1>15
  DEF Handle
------------------------------------------------------------------------------
(* The store.                                                              *)

LEMMA NewRecordTyped ==
  ASSUME IInv, NEW w \in Workers, ~At(w, "idle"), NEW expires \in {NULL, now + 1}
  PROVE  NewRecord(w, expires) \in Record /\ Blocked(w) \in HeldRecord
<1>1. request[w] \in Serving /\ now + 1 \in Nat
  BY ServingIsNotIdle DEF IInv, RequestOK
<1> QED BY <1>1
  DEF Serving, NewRecord, Blocked, Record, HeldRecord, User, By, Callers

(* A turn that remembers adds one record and retires at most one.          *)
LEMMA RememberedStore ==
  ASSUME IInv, NEW w \in Workers, ~At(w, "idle"), Remembered(w)
  PROVE  memories' \subseteq Record /\ IsFiniteSet(memories')
<1>1. PICK expires \in {NULL, now + 1},
           old \in {{}} \cup {{m} : m \in Of(User(w), memories)} :
        memories' = (memories \ old) \cup {[m EXCEPT !.retired = TRUE] : m \in old}
                      \cup {NewRecord(w, expires)}
  BY DEF Remembered
<1> DEFINE copies == {[m EXCEPT !.retired = TRUE] : m \in old}
<1>2. old \subseteq memories /\ memories \subseteq Record /\ IsFiniteSet(memories)
  BY OfUser DEF IInv, StoreOK
<1>3. copies \subseteq Record
  BY <1>2 DEF Record
<1>4. IsFiniteSet(copies)
  <2>1. CASE old = {}
    <3>1. copies = {}
      BY <2>1
    <3> QED BY <3>1, FS_EmptySet
  <2>2. CASE \E m \in memories : old = {m}
    <3>1. PICK m \in memories : old = {m}
      BY <2>2
    <3>2. copies = {[m EXCEPT !.retired = TRUE]}
      BY <3>1
    <3> QED BY <3>2, FS_Singleton
  <2> QED BY <2>1, <2>2, OfUser
<1>5. IsFiniteSet(memories \ old)
  BY <1>2, FS_Difference
<1>6. IsFiniteSet((memories \ old) \cup copies)
  BY <1>4, <1>5, FS_Union
<1>7. IsFiniteSet(memories')
  BY <1>1, <1>6, FS_AddElement
<1>8. memories' \subseteq Record
  BY <1>1, <1>2, <1>3, NewRecordTyped
<1> QED BY <1>7, <1>8

LEMMA HandleStore ==
  ASSUME IInv, NEW w \in Workers, Handle(w)
  PROVE  StoreOK'
<1>1. Moved(w) /\ Effect(w)
  BY HandleMoves, HandleEffect
<1>2. request[w] \in Serving
  BY <1>1, ServingIsNotIdle DEF IInv, Moved
<1>3. memories' \subseteq Record /\ IsFiniteSet(memories')
  BY <1>1, RememberedStore, FS_Subset DEF Effect, Moved, IInv, StoreOK
<1>4. held' \subseteq HeldRecord
  BY <1>1, NewRecordTyped DEF Effect, Moved, IInv, StoreOK
<1>5. IsFiniteSet(held')
  BY <1>1, FS_Subset, FS_AddElement DEF Effect, IInv, StoreOK
<1>6. index' \subseteq (Users \X Threads) \ legacy'
  BY <1>1, <1>2 DEF Effect, Moved, IInv, StoreOK, IsLegacy, Serving, User
<1>7. transcript' \subseteq (Users \X Threads) \X Callers
  BY <1>1, <1>2 DEF Effect, IInv, StoreOK, CheckpointId, Serving, User, By
<1> QED BY <1>3, <1>4, <1>5, <1>6, <1>7 DEF StoreOK
------------------------------------------------------------------------------
(* Requests and their ids.                                                 *)

LEMMA HandleRequest ==
  ASSUME IInv, NEW w \in Workers, Handle(w)
  PROVE  RequestOK'
<1>1. Moved(w)
  BY HandleMoves
<1> QED BY <1>1 DEF Moved, IInv, RequestOK, At, Idle

ChatSteps == {"chat", "speak", "remember"}

LEMMA AtAfter ==
  ASSUME RequestOK, NEW w \in Workers, ~At(w, "idle"), NEW x
  PROVE  /\ Calls(w, x) => request'[w].at = x
         /\ Answers(w, x) \/ Refuses(w, x) => request'[w].at = "answered"
<1>1. request[w] \in Serving
  BY ServingIsNotIdle
<1> QED BY <1>1 DEF Calls, Answers, Refuses, Serving, RequestOK

(* A chat puts its record in its last step, and no other request becomes a *)
(* chat.                                                                   *)
LEMMA ChatOrder ==
  ASSUME RequestOK, NEW w \in Workers, Handle(w), request'[w].at \in ChatSteps
  PROVE  request[w].at \in ChatSteps /\ UNCHANGED memories
<1> USE AtAfter DEF At, ChatSteps
<1>1. CASE ChatRecord(w)
  BY <1>1 DEF ChatRecord
<1>2. CASE ChatSpeak(w)
  BY <1>2 DEF ChatSpeak
<1>3. CASE ChatRemember(w) \/ Observe(w) \/ ListAnswer(w) \/ History(w)
             \/ Quarantined(w) \/ EraseThreads(w) \/ ForgetTranscript(w)
             \/ ForgetMemoryDelete(w) \/ Fail(w)
  <2>1. ~At(w, "idle") /\ \E answer : Answers(w, answer)
    BY <1>3
    DEF ChatRemember, Observe, ListAnswer, History, Quarantined, EraseThreads,
        ForgetTranscript, ForgetMemoryDelete, Fail
  <2> QED BY <2>1
<1>4. CASE ForgetUserCheck(w) \/ EraseMemories(w) \/ EraseHeld(w) \/ ForgetThread(w)
  BY <1>4 DEF ForgetUserCheck, EraseMemories, EraseHeld, ForgetThread
<1>5. CASE ListShow(w) \/ ListCount(w) \/ ForgetMemoryGet(w)
  <2>1. request[w] \in Serving
    BY <1>5, ServingIsNotIdle DEF ListShow, ListCount, ForgetMemoryGet
  <2>2. CASE ListShow(w) \/ ListCount(w)
    <3>1. CASE ListShow(w)
      <4>1. request'[w].at = "count"
        BY <2>1, <3>1 DEF ListShow, Serving, RequestOK
      <4> QED BY <4>1
    <3>2. CASE ListCount(w)
      <4>1. request'[w].at = "flag"
        BY <2>1, <3>2 DEF ListCount, Serving, RequestOK
      <4> QED BY <4>1
    <3> QED BY <2>2, <3>1, <3>2
  <2>3. CASE ForgetMemoryGet(w)
    <3>1. CASE Refuses(w, 404)
      BY <2>3, <3>1 DEF ForgetMemoryGet
    <3>2. CASE ~Refuses(w, 404)
      BY <2>1, <2>3, <3>2 DEF ForgetMemoryGet, Serving, RequestOK
    <3> QED BY <3>1, <3>2
  <2> QED BY <1>5, <2>2, <2>3
<1>6. CASE Done(w)
  BY <1>6 DEF Done, Idle, RequestOK
<1>7. CASE FindMemories(w)
  <2>1. request[w] \in Serving
    BY <1>7, ServingIsNotIdle DEF FindMemories, Finds
  <2>2. request'[w].at = "erase_memories"
    BY <1>7, <2>1 DEF FindMemories, Finds, Serving, RequestOK
  <2> QED BY <2>2
<1> QED BY <1>1, <1>2, <1>3, <1>4, <1>5, <1>6, <1>7 DEF Handle

(* The record a turn puts has an id of its own.                            *)
LEMMA RememberedIds ==
  ASSUME IInv, NEW w \in Workers, At(w, "remember"), Remembered(w)
  PROVE  /\ \A m, n \in memories' : m.user = n.user /\ m.id = n.id => m = n
         /\ \A m \in memories' :
              m.id = request[w].serial \/ \E o \in memories : m.id = o.id
<1>1. PICK expires \in {NULL, now + 1},
           old \in {{}} \cup {{m} : m \in Of(User(w), memories)} :
        memories' = (memories \ old) \cup {[m EXCEPT !.retired = TRUE] : m \in old}
                      \cup {NewRecord(w, expires)}
  BY DEF Remembered
<1> DEFINE new == NewRecord(w, expires)
           copy(o) == IF o \in old THEN [o EXCEPT !.retired = TRUE] ELSE o
<1>2. old \subseteq memories /\ memories \subseteq Record
  BY OfUser DEF IInv, StoreOK
<1>3. \A m \in memories' : m = new \/ \E o \in memories : m = copy(o)
  BY <1>1, <1>2
<1>4. \A o \in memories : copy(o).id = o.id /\ copy(o).user = o.user
  BY <1>2 DEF Record
<1>5. new.id = request[w].serial /\ \A o \in memories : o.id # new.id
  BY DEF NewRecord, IInv, IdsOK, At, ChatSteps
<1>6. \A m, n \in memories' : m.user = n.user /\ m.id = n.id => m = n
  <2> SUFFICES ASSUME NEW m \in memories', NEW n \in memories',
                      m.user = n.user, m.id = n.id
               PROVE  m = n
    OBVIOUS
  <2>1. CASE m = new \/ n = new
    BY <1>3, <1>4, <1>5, <2>1
  <2>2. CASE m # new /\ n # new
    <3>1. PICK o \in memories, p \in memories : m = copy(o) /\ n = copy(p)
      BY <1>3, <2>2
    <3>2. o = p
      BY <1>4, <3>1 DEF IInv, IdsOK
    <3> QED BY <3>1, <3>2
  <2> QED BY <2>1, <2>2
<1>7. \A m \in memories' :
        m.id = request[w].serial \/ \E o \in memories : m.id = o.id
  BY <1>3, <1>4, <1>5
<1> QED BY <1>6, <1>7

LEMMA HandleIds ==
  ASSUME IInv, NEW w \in Workers, Handle(w)
  PROVE  IdsOK'
<1>1. Moved(w) /\ Effect(w)
  BY HandleMoves, HandleEffect
<1> DEFINE live(v) == ~At(v, "idle")
<1>2. live(w) /\ request[w].serial \in 1..started /\ started \in 0..MaxRequests
  BY <1>1 DEF IInv, Moved, IdsOK, RequestOK
<1>3. \A m, n \in memories' : m.user = n.user /\ m.id = n.id => m = n
  BY <1>1, RememberedIds DEF Effect, IInv, IdsOK
<1>4. \A m \in memories' :
        (m.id = request[w].serial /\ At(w, "remember")) \/ \E o \in memories : m.id = o.id
  BY <1>1, RememberedIds DEF Effect
<1>5. \A m \in memories' : m.id <= started' \/ m.id > MaxRequests
  BY <1>1, <1>2, <1>4 DEF Moved, IInv, IdsOK
<1>6. \A v \in Workers : request'[v].at # "idle" =>
        /\ live(v) /\ request'[v].serial = request[v].serial
  BY <1>1 DEF Moved, SameClient, Idle, At
<1>7. ASSUME NEW v \in Workers, request'[v].at \in ChatSteps, NEW m \in memories'
      PROVE  m.id # request[v].serial
  <2>1. CASE v = w
    BY <1>7, <2>1, ChatOrder DEF IInv, IdsOK, ChatSteps, At
  <2>2. CASE v # w
    <3>1. request[v].at \in ChatSteps /\ live(v)
      BY <1>1, <1>7, <2>2 DEF Moved, At, ChatSteps
    <3>2. request[v].serial # request[w].serial
      BY <1>2, <2>2, <3>1 DEF IInv, IdsOK
    <3> QED BY <1>4, <3>1, <3>2 DEF IInv, IdsOK, ChatSteps
  <2> QED BY <2>1, <2>2
<1> QED
  BY <1>1, <1>2, <1>3, <1>5, <1>6, <1>7 DEF IdsOK, IInv, Moved, At, ChatSteps
------------------------------------------------------------------------------
(* Ownership.                                                              *)

LEMMA OwnCalls ==
  ASSUME IInv, mode = "cognito", NEW w \in Workers, ~At(w, "idle"), ~At(w, "answered"),
         NEW step \in Steps, Calls(w, step)
  PROVE  OwnRequest(w)'
<1>1. OwnRequest(w)
  BY DEF IInv, OwnersOK
<1>2. /\ request'[w].credential = request[w].credential
      /\ request'[w].user = request[w].user
      /\ request'[w].page = request[w].page /\ request'[w].items = request[w].items
      /\ request'[w].answer = request[w].answer
  BY CallsMove DEF IInv, SameClient
<1> QED BY <1>1, <1>2 DEF OwnRequest, At, By, User

LEMMA OwnAnswers ==
  ASSUME IInv, mode = "cognito", NEW w \in Workers, ~At(w, "idle"), ~At(w, "answered"),
         NEW answer \in AnswerType, answer.shows \subseteq {By(w)}, Answers(w, answer)
  PROVE  OwnRequest(w)'
<1>1. By(w) = User(w)
  BY DEF IInv, OwnersOK, OwnRequest
<1>2. /\ request'[w].credential = request[w].credential
      /\ request'[w].user = request[w].user
      /\ request'[w].page = {} /\ request'[w].items = {}
      /\ request'[w].answer = answer
  BY AnswersMove DEF IInv, SameClient
<1> QED BY <1>1, <1>2 DEF OwnRequest, By, User

(* An answer that shows nothing.                                           *)
LEMMA OwnEmpty ==
  ASSUME IInv, mode = "cognito", NEW w \in Workers, ~At(w, "idle"), ~At(w, "answered"),
         NEW status \in Statuses,
         Answers(w, Answer(status, {})) \/ Refuses(w, status)
  PROVE  OwnRequest(w)'
<1>1. Answer(status, {}) \in AnswerType /\ Answer(status, {}).shows = {}
  BY AnswerTyped DEF Answer
<1> QED BY <1>1, OwnAnswers DEF Refuses

(* What a user's own records and transcripts show is the user.             *)
LEMMA OwnThings ==
  ASSUME IInv, mode = "cognito", NEW w \in Workers, ~At(w, "idle"), ~At(w, "answered")
  PROVE  /\ By(w) = User(w)
         /\ \A m \in Of(User(w), memories) : m.by = User(w)
         /\ \A q \in Of(User(w), held) : q.by = User(w)
         /\ \A t : Speakers(User(w), t) \subseteq {By(w)}
<1>1. By(w) = User(w)
  BY DEF IInv, OwnersOK, OwnRequest
<1>2. \A t : Speakers(User(w), t) \subseteq {User(w)}
  BY DEF IInv, OwnersOK, Speakers, Said, CheckpointId
<1> QED BY <1>1, <1>2 DEF IInv, OwnersOK, Of

LEMMA HandleOwnRequest ==
  ASSUME IInv, mode = "cognito", NEW w \in Workers, Handle(w), ~Done(w)
  PROVE  OwnRequest(w)'
<1> USE DEF At
<1>1. CASE ChatRecord(w)
  BY <1>1, OwnCalls, OwnEmpty DEF ChatRecord, Steps, Statuses
<1>2. CASE ChatSpeak(w)
  BY <1>2, OwnCalls DEF ChatSpeak, Steps
<1>3. CASE ChatRemember(w)
  <2> DEFINE shows == {m.by : m \in Of(User(w), memories)}
                        \cup Speakers(User(w), request[w].thread)
  <2>1. ~At(w, "idle") /\ ~At(w, "answered") /\ Answers(w, Answer(200, shows))
    BY <1>3 DEF ChatRemember
  <2>2. shows \in SUBSET Callers
    BY ChatShows DEF IInv
  <2>3. shows \subseteq {By(w)}
    BY <2>1, OwnThings
  <2>4. Answer(200, shows) \in AnswerType
    BY <2>2, AnswerTyped DEF Statuses
  <2>5. Answer(200, shows).shows \subseteq {By(w)}
    BY <2>3 DEF Answer
  <2> QED BY <2>1, <2>4, <2>5, OwnAnswers
<1>4. CASE Observe(w)
  BY <1>4, OwnEmpty DEF Observe, Statuses
<1>5. CASE ListShow(w)
  <2>1. request[w] \in Serving /\ ~At(w, "idle") /\ ~At(w, "answered")
    BY <1>5, ServingIsNotIdle DEF ListShow, IInv
  <2>2. PICK page \in Capped(Of(User(w), memories), MemoryLimit) :
          request' = [request EXCEPT ![w].at = "count", ![w].page = page,
            ![w].items = IF request[w].retired THEN page ELSE OnlyActive(page)]
    BY <1>5 DEF ListShow
  <2>3. \A m \in page \cup OnlyActive(page) : m.by = User(w)
    BY <2>1, ListedPage, OwnThings DEF OnlyActive, IInv
  <2>4. /\ request'[w].page = page
        /\ request'[w].items \subseteq page \cup OnlyActive(page)
        /\ request'[w].user = request[w].user
        /\ request'[w].credential = request[w].credential
        /\ request'[w].answer = request[w].answer
    BY <2>1, <2>2 DEF Serving, IInv, RequestOK
  <2>5. OwnRequest(w) /\ By(w) = User(w)
    BY <2>1, OwnThings DEF IInv, OwnersOK
  <2> QED BY <2>3, <2>4, <2>5 DEF OwnRequest, By, User
<1>6. CASE ListCount(w)
  <2>1. request[w] \in Serving /\ ~At(w, "idle") /\ ~At(w, "answered")
    BY <1>6, ServingIsNotIdle DEF ListCount, IInv
  <2>2. /\ request'[w].page = request[w].page /\ request'[w].items = request[w].items
        /\ request'[w].user = request[w].user
        /\ request'[w].credential = request[w].credential
        /\ request'[w].answer = request[w].answer
    BY <1>6, <2>1 DEF ListCount, Serving, IInv, RequestOK
  <2> QED BY <2>1, <2>2 DEF IInv, OwnersOK, OwnRequest, By, User
<1>7. CASE ListAnswer(w)
  <2> DEFINE answer == [Answer(200, {m.by : m \in request[w].items}) EXCEPT
            !.total = Cardinality(request[w].page), !.active = request[w].active,
            !.items = Cardinality(request[w].items),
            !.flagged = Cardinality(OnlyActive(request[w].items))]
  <2>1. answer \in AnswerType /\ ~At(w, "idle") /\ ~At(w, "answered") /\ Answers(w, answer)
    BY <1>7, ListAnswerTyped DEF ListAnswer
  <2>2. {m.by : m \in request[w].items} \subseteq {By(w)}
    BY <2>1 DEF IInv, OwnersOK, OwnRequest
  <2>3. answer.shows \subseteq {By(w)}
    BY <2>2 DEF Answer
  <2> QED BY <2>1, <2>3, OwnAnswers
<1>8. CASE History(w)
  <2>1. ~At(w, "idle") /\ ~At(w, "answered")
    BY <1>8 DEF History
  <2>2. CASE Answers(w, Answer(409, {}))
    BY <2>1, <2>2, OwnEmpty DEF Statuses
  <2>3. CASE Answers(w, Answer(200, Speakers(User(w), request[w].thread)))
    <3> DEFINE shows == Speakers(User(w), request[w].thread)
    <3>1. shows \in SUBSET Callers /\ shows \subseteq {By(w)}
      BY <2>1, SpeakersAreCallers, OwnThings DEF IInv
    <3>2. Answer(200, shows) \in AnswerType
      BY <3>1, AnswerTyped DEF Statuses
    <3>3. Answer(200, shows).shows \subseteq {By(w)}
      BY <3>1 DEF Answer
    <3> QED BY <2>1, <2>3, <3>2, <3>3, OwnAnswers
  <2> QED BY <1>8, <2>2, <2>3 DEF History
<1>9. CASE Quarantined(w)
  <2>1. PICK page \in Capped(Of(User(w), held), HeldLimit) :
          Answers(w, [Answer(200, {q.by : q \in page}) EXCEPT !.total = Cardinality(page)])
    BY <1>9 DEF Quarantined
  <2> DEFINE answer == [Answer(200, {q.by : q \in page}) EXCEPT !.total = Cardinality(page)]
  <2>2. page \subseteq HeldRecord /\ page \subseteq Of(User(w), held)
        /\ Cardinality(page) \in Nat
    BY HeldPage DEF IInv
  <2>3. ~At(w, "idle") /\ ~At(w, "answered")
    BY <1>9 DEF Quarantined
  <2>4. {q.by : q \in page} \in SUBSET Callers
    BY <2>2 DEF HeldRecord
  <2>5. {q.by : q \in page} \subseteq {By(w)}
    BY <2>2, <2>3, OwnThings
  <2>6. answer \in AnswerType /\ answer.shows \subseteq {By(w)}
    BY ZenonT(60), <2>2, <2>4, <2>5 DEF Answer, AnswerType, Statuses
  <2> QED BY <2>1, <2>3, <2>6, OwnAnswers
<1>10. CASE ForgetUserCheck(w)
  BY <1>10, OwnCalls, OwnEmpty DEF ForgetUserCheck, Steps, Statuses
<1>11. CASE EraseMemories(w) \/ EraseHeld(w)
  BY <1>11, OwnCalls DEF EraseMemories, EraseHeld, Steps
<1>12. CASE ForgetTranscript(w) \/ ForgetMemoryDelete(w) \/ Fail(w)
  BY <1>12, OwnEmpty DEF ForgetTranscript, ForgetMemoryDelete, Fail, Statuses
<1>15. CASE EraseThreads(w)
  BY <1>15, ReportTyped, OwnAnswers DEF EraseThreads, Report
<1>16. CASE FindMemories(w)
  <2>1. request[w] \in Serving /\ ~At(w, "idle") /\ ~At(w, "answered")
    BY <1>16, ServingIsNotIdle DEF FindMemories, Finds, IInv
  <2>2. /\ request'[w].page = Of(User(w), memories)
        /\ request'[w].items = request[w].items
        /\ request'[w].user = request[w].user
        /\ request'[w].credential = request[w].credential
        /\ request'[w].answer = request[w].answer
    BY <1>16, <2>1 DEF FindMemories, Finds, Serving, IInv, RequestOK
  <2>3. /\ OwnRequest(w) /\ By(w) = User(w)
        /\ \A m \in Of(User(w), memories) : m.by = User(w)
    BY <2>1, OwnThings DEF IInv, OwnersOK
  <2> QED BY <2>2, <2>3 DEF OwnRequest, By, User
<1>13. CASE ForgetThread(w)
  BY <1>13, OwnCalls, OwnEmpty DEF ForgetThread, Steps, Statuses
<1>14. CASE ForgetMemoryGet(w)
  <2>1. ~At(w, "idle") /\ ~At(w, "answered")
    BY <1>14 DEF ForgetMemoryGet
  <2>2. CASE Refuses(w, 404)
    BY <2>1, <2>2, OwnEmpty DEF Statuses
  <2>3. ASSUME NEW m \in Of(User(w), memories),
               request' = [request EXCEPT ![w].at = "delete", ![w].page = {m}]
        PROVE  OwnRequest(w)'
    <3>1. request[w] \in Serving
      BY <2>1, ServingIsNotIdle DEF IInv
    <3>2. /\ request'[w].page = {m} /\ request'[w].items = request[w].items
          /\ request'[w].user = request[w].user
          /\ request'[w].credential = request[w].credential
          /\ request'[w].answer = request[w].answer
      BY <2>3, <3>1 DEF Serving, IInv, RequestOK
    <3>3. OwnRequest(w) /\ By(w) = User(w) /\ m.by = User(w)
      BY <2>1, OwnThings DEF IInv, OwnersOK
    <3> QED BY <3>2, <3>3 DEF OwnRequest, By, User
  <2> QED BY <1>14, <2>2, <2>3 DEF ForgetMemoryGet
<1> QED
  BY <1>1, <1>2, <1>3, <1>4, <1>5, <1>6, <1>7, <1>8, <1>9, <1>10, <1>11, <1>12,
     <1>13, <1>14, <1>15, <1>16
  DEF Handle

LEMMA HandleOwners ==
  ASSUME IInv, NEW w \in Workers, Handle(w)
  PROVE  OwnersOK'
<1> SUFFICES ASSUME mode' = "cognito" PROVE OwnersOK'
  BY DEF OwnersOK
<1>1. Moved(w) /\ Effect(w) /\ mode = "cognito"
  BY HandleMoves, HandleEffect DEF Moved
<1>2. ~At(w, "answered") => By(w) = User(w)
  BY <1>1, OwnThings DEF Moved
<1>3. \A m \in memories' : m.by = m.user
  <2>1. CASE memories' \subseteq memories
    BY <1>1, <2>1 DEF IInv, OwnersOK
  <2>2. CASE At(w, "remember") /\ Remembered(w)
    <3>1. PICK expires \in {NULL, now + 1},
               old \in {{}} \cup {{m} : m \in Of(User(w), memories)} :
            memories' = (memories \ old) \cup {[m EXCEPT !.retired = TRUE] : m \in old}
                          \cup {NewRecord(w, expires)}
      BY <2>2 DEF Remembered
    <3>2. old \subseteq memories /\ memories \subseteq Record
      BY OfUser DEF IInv, StoreOK
    <3>3. \A m \in old : LET r == [m EXCEPT !.retired = TRUE] IN r.by = r.user
      BY <1>1, <3>2 DEF IInv, OwnersOK, Record
    <3>4. NewRecord(w, expires).by = NewRecord(w, expires).user
      BY <1>2, <2>2 DEF NewRecord, At
    <3>5. \A m \in memories : m.by = m.user
      BY <1>1 DEF IInv, OwnersOK
    <3> QED BY <3>1, <3>3, <3>4, <3>5
  <2> QED BY <1>1, <2>1, <2>2 DEF Effect
<1>4. \A q \in held' : q.by = q.user
  BY <1>1, <1>2 DEF Effect, data, IInv, OwnersOK, Blocked
<1>5. \A x \in transcript' : x[2] = x[1][1]
  BY <1>1, <1>2 DEF Effect, data, IInv, OwnersOK, CheckpointId
<1>6. ASSUME NEW v \in Workers, request'[v].at # "idle"
      PROVE  OwnRequest(v)'
  <2>1. CASE v = w
    <3>1. ~Done(w)
      BY <1>6, <2>1 DEF Done, IInv, RequestOK, Idle
    <3> QED BY <1>1, <2>1, <3>1, HandleOwnRequest
  <2>2. CASE v # w
    <3>1. request'[v] = request[v] /\ OwnRequest(v)
      BY <1>1, <1>6, <2>2 DEF Moved, IInv, OwnersOK, At
    <3> QED BY <3>1 DEF OwnRequest, At, By, User
  <2> QED BY <2>1, <2>2
<1> QED BY <1>3, <1>4, <1>5, <1>6 DEF OwnersOK, At
------------------------------------------------------------------------------
(* Answers: what is refused, and what a listing counts.                    *)

AnswerOK(w) == RefusalOK(w) /\ Listing(w) /\ Added(w)

(* Past the checks of its handler a request is no listing and is not       *)
(* refused any more.                                                       *)
LEMMA CallsAnswer ==
  ASSUME IInv, NEW w \in Workers, ~At(w, "idle"), request[w].op # "list",
         NEW step \in Steps \ (Ops \cup {"count", "flag", "answered"}), Calls(w, step)
  PROVE  AnswerOK(w)'
<1>1. request'[w].at = step /\ request'[w].op # "list"
  BY CallsMove DEF IInv, SameClient
<1> QED BY <1>1 DEF AnswerOK, RefusalOK, Listing, Added, At, Steps, Ops

LEMMA PlainAnswer ==
  ASSUME IInv, NEW w \in Workers, ~At(w, "idle"),
         NEW status \in Statuses, NEW shows \in SUBSET Callers,
         Answers(w, Answer(status, shows)),
         status \in {200, 500} \/ (UNCHANGED data /\ ~request[w].touched)
  PROVE  AnswerOK(w)'
<1> DEFINE answer == Answer(status, shows)
<1>1. answer \in AnswerType
  BY AnswerTyped
<1>2. /\ request'[w].at = "answered" /\ request'[w].answer = answer
      /\ request'[w].touched = (request[w].touched \/ data' # data)
  BY <1>1, AnswersMove DEF IInv
<1>3. /\ answer.status = status
      /\ answer.total = 0 /\ answer.active = 0 /\ answer.items = 0 /\ answer.flagged = 0
  BY DEF Answer
<1>4. RefusalOK(w)'
  <2>1. status \in {200, 500} \/ ~request'[w].touched
    BY <1>2
  <2> QED BY <1>2, <1>3, <2>1 DEF RefusalOK, Ops
<1>5. Listing(w)'
  BY <1>2 DEF Listing, Ops
<1>6. Added(w)'
  BY <1>2, <1>3 DEF Added
<1> QED BY <1>4, <1>5, <1>6 DEF AnswerOK

(* What a handler refuses it refuses before it has changed anything.       *)
LEMMA RefusedAnswer ==
  ASSUME IInv, NEW w \in Workers, request[w].at \in Ops,
         NEW status \in Statuses,
         Refuses(w, status) \/ (UNCHANGED data /\ Answers(w, Answer(status, {})))
  PROVE  AnswerOK(w)'
<1>1. ~At(w, "idle") /\ ~request[w].touched
  BY DEF At, Ops, IInv, AnswersOK, RefusalOK
<1> QED BY <1>1, PlainAnswer DEF Refuses

LEMMA SmallerActive ==
  ASSUME NEW S, IsFiniteSet(S), NEW T, T \subseteq S
  PROVE  /\ Cardinality(T) \in Nat /\ Cardinality(S) \in Nat
         /\ Cardinality(T) <= Cardinality(S)
BY FS_Subset, FS_CardinalityType

LEMMA HandleAnswer ==
  ASSUME IInv, NEW w \in Workers, Handle(w), ~Done(w)
  PROVE  AnswerOK(w)'
<1> DEFINE r == request[w]
<1>0. ~At(w, "idle") => r \in Serving /\ AnswerOK(w)
  BY ServingIsNotIdle DEF IInv, AnswersOK, AnswerOK
<1>1. CASE ChatRecord(w)
  <2>1. r.at \in Ops /\ r.op # "list" /\ ~At(w, "idle")
    BY <1>0, <1>1 DEF ChatRecord, At, Ops, AnswerOK, Listing
  <2> QED BY <1>1, <2>1, CallsAnswer, RefusedAnswer DEF ChatRecord, Steps, Ops, Statuses
<1>2. CASE ChatSpeak(w)
  <2>1. r.op # "list" /\ ~At(w, "idle")
    BY <1>0, <1>2 DEF ChatSpeak, At, Ops, AnswerOK, Listing
  <2> QED BY <1>2, <2>1, CallsAnswer DEF ChatSpeak, Steps, Ops
<1>3. CASE ChatRemember(w)
  <2> DEFINE shows == {m.by : m \in Of(User(w), memories)}
                        \cup Speakers(User(w), request[w].thread)
  <2>1. ~At(w, "idle") /\ Answers(w, Answer(200, shows))
    BY <1>3 DEF ChatRemember, At
  <2>2. shows \in SUBSET Callers
    BY ChatShows DEF IInv
  <2> QED BY <2>1, <2>2, PlainAnswer DEF Statuses
<1>15. CASE EraseThreads(w)
  <2>1. AnswerOK(w) /\ ~At(w, "idle") /\ At(w, "erase_threads")
    BY <1>0, <1>15 DEF EraseThreads, At
  <2>2. /\ request'[w].at = "answered" /\ request'[w].answer.status = 200
        /\ request'[w].op = r.op
    <3>1. Answers(w, Report(w))
      BY <1>15 DEF EraseThreads, Report
    <3>2. request'[w].answer = Report(w) /\ Report(w).status = 200
      BY <2>1, <3>1, ReportTyped, AnswersMove DEF IInv
    <3>3. request'[w].at = "answered" /\ request'[w].op = r.op
      BY <2>1, <3>1, ReportTyped, AnswersMove DEF IInv, SameClient
    <3> QED BY <3>2, <3>3
  <2>3. r.op # "list"
    BY <2>1 DEF AnswerOK, Listing, At, Ops
  <2> QED BY <2>2, <2>3 DEF AnswerOK, RefusalOK, Listing, Added, At, Ops
<1>16. CASE FindMemories(w)
  <2>1. r \in Serving /\ AnswerOK(w) /\ At(w, "find_memories")
    BY <1>0, <1>16 DEF FindMemories, Finds, At
  <2>2. request'[w].at = "erase_memories" /\ request'[w].op = r.op
    BY <1>16, <2>1 DEF FindMemories, Finds, Serving, IInv, RequestOK
  <2>3. r.op # "list"
    BY <2>1 DEF AnswerOK, Listing, At, Ops
  <2> QED BY <2>2, <2>3 DEF AnswerOK, RefusalOK, Listing, Added, At, Ops
<1>4. CASE Observe(w) \/ ForgetTranscript(w) \/ ForgetMemoryDelete(w)
  <2>1. ~At(w, "idle") /\ Answers(w, Answer(200, {}))
    BY <1>4 DEF Observe, ForgetTranscript, ForgetMemoryDelete, At
  <2> QED BY <2>1, PlainAnswer DEF Statuses
<1>5. CASE ListShow(w)
  <2>1. r \in Serving /\ AnswerOK(w) /\ At(w, "list")
    BY <1>0, <1>5 DEF ListShow, At
  <2>2. PICK page \in Capped(Of(User(w), memories), MemoryLimit) :
          request' = [request EXCEPT ![w].at = "count", ![w].page = page,
            ![w].items = IF request[w].retired THEN page ELSE OnlyActive(page)]
    BY <1>5 DEF ListShow
  <2>3. /\ request'[w].at = "count" /\ request'[w].op = r.op
        /\ request'[w].touched = r.touched /\ request'[w].retired = r.retired
        /\ request'[w].page = page
        /\ request'[w].items = IF r.retired THEN page ELSE OnlyActive(page)
    BY <2>1, <2>2 DEF Serving, IInv, RequestOK
  <2>4. IsFiniteSet(page)
    BY ListedPage DEF IInv
  <2>5. OnlyActive(page) \subseteq page /\ OnlyActive(page)' = OnlyActive(page)
    BY <1>5 DEF ListShow, OnlyActive, IsActive
  <2>6. r.op = "list" /\ ~r.touched
    BY <2>1 DEF AnswerOK, Listing, RefusalOK, At, Ops
  <2>7. RefusalOK(w)' /\ Added(w)'
    BY <2>3, <2>6 DEF RefusalOK, Added, At
  <2>8. Listing(w)'
    BY <1>5, <2>3, <2>4, <2>5, <2>6 DEF Listing, Ops, OnlyActive, IsActive, ListShow
  <2> QED BY <2>7, <2>8 DEF AnswerOK
<1>6. CASE ListCount(w)
  <2>1. r \in Serving /\ AnswerOK(w) /\ At(w, "count")
    BY <1>0, <1>6 DEF ListCount, At
  <2>2. /\ request'[w].at = "flag" /\ request'[w].op = r.op
        /\ request'[w].touched = r.touched /\ request'[w].retired = r.retired
        /\ request'[w].page = r.page /\ request'[w].items = r.items
        /\ request'[w].active = Cardinality(OnlyActive(r.page))
    BY <1>6, <2>1 DEF ListCount, CountActive, Serving, IInv, RequestOK
  <2>3. /\ r.op = "list" /\ IsFiniteSet(r.page) /\ r.items \subseteq r.page
        /\ OnlyActive(r.page) \subseteq r.items /\ ~r.touched
        /\ r.retired => r.items = r.page
    BY <2>1 DEF AnswerOK, Listing, RefusalOK, At
  <2>4. OnlyActive(r.page)' = {m \in request'[w].page : IsActive(m)}
    BY <1>6 DEF ListCount, OnlyActive, IsActive
  <2>5. /\ Cardinality(OnlyActive(r.page)) \in Nat
        /\ Cardinality(OnlyActive(r.page)) <= Cardinality(r.items)
    <3>1. IsFiniteSet(r.items)
      BY <2>3, FS_Subset
    <3> QED BY <2>3, <3>1, SmallerActive
  <2>6. RefusalOK(w)' /\ Added(w)'
    BY <2>2, <2>3 DEF RefusalOK, Added, At
  <2>7. Listing(w)'
    BY <2>2, <2>3, <2>4, <2>5 DEF Listing, Ops, OnlyActive
  <2> QED BY <2>6, <2>7 DEF AnswerOK
<1>7. CASE ListAnswer(w)
  <2> DEFINE answer == [Answer(200, {m.by : m \in request[w].items}) EXCEPT
            !.total = Cardinality(request[w].page), !.active = request[w].active,
            !.items = Cardinality(request[w].items),
            !.flagged = Cardinality(OnlyActive(request[w].items))]
  <2>1. r \in Serving /\ AnswerOK(w) /\ At(w, "flag")
    BY <1>0, <1>7 DEF ListAnswer, At
  <2>2. answer \in AnswerType /\ Answers(w, answer) /\ ~At(w, "idle")
    BY <1>7, <2>1, ListAnswerTyped DEF ListAnswer, At
  <2>3. /\ request'[w].at = "answered" /\ request'[w].answer = answer
        /\ request'[w].retired = r.retired
    BY <2>2, AnswersMove DEF IInv, SameClient
  <2>4. /\ answer.status = 200 /\ answer.total = Cardinality(r.page)
        /\ answer.active = r.active /\ answer.items = Cardinality(r.items)
        /\ answer.flagged = Cardinality(OnlyActive(r.items))
    BY DEF Answer
  <2>5. /\ IsFiniteSet(r.page) /\ r.items \subseteq r.page
        /\ Cardinality(OnlyActive(r.page)) <= r.active
        /\ r.active <= Cardinality(r.items)
        /\ r.retired => r.items = r.page
    BY <2>1 DEF AnswerOK, Listing, At
  <2>6. OnlyActive(r.items) \subseteq OnlyActive(r.page) /\ OnlyActive(r.page) \subseteq r.page
    BY <2>5 DEF OnlyActive
  <2>7. IsFiniteSet(OnlyActive(r.page))
    BY <2>5, <2>6, FS_Subset
  <2>8. /\ Cardinality(OnlyActive(r.items)) \in Nat /\ Cardinality(OnlyActive(r.page)) \in Nat
        /\ Cardinality(OnlyActive(r.items)) <= Cardinality(OnlyActive(r.page))
    BY <2>6, <2>7, SmallerActive
  <2>9. /\ Cardinality(r.items) <= Cardinality(r.page) /\ Cardinality(r.items) \in Nat
    BY <2>5, SmallerActive
  <2>10. answer.flagged <= answer.active
    BY <2>1, <2>4, <2>5, <2>8 DEF Serving
  <2>11. Added(w)'
    BY <2>3, <2>4, <2>5, <2>9, <2>10 DEF Added
  <2>12. RefusalOK(w)' /\ Listing(w)'
    BY <2>3, <2>4 DEF RefusalOK, Listing, At, Ops
  <2> QED BY <2>11, <2>12 DEF AnswerOK
<1>8. CASE History(w)
  <2>1. r.at \in Ops /\ ~At(w, "idle")
    BY <1>8 DEF History, At, Ops
  <2>2. CASE IsLegacy(User(w), r.thread)
    BY <1>8, <2>1, <2>2, RefusedAnswer DEF History, Statuses
  <2>3. CASE ~IsLegacy(User(w), r.thread)
    <3> DEFINE shows == Speakers(User(w), r.thread)
    <3>1. shows \in SUBSET Callers
      BY SpeakersAreCallers DEF IInv
    <3>2. Answers(w, Answer(200, shows))
      BY <1>8, <2>3 DEF History
    <3> QED BY <2>1, <3>1, <3>2, PlainAnswer DEF Statuses
  <2> QED BY <2>2, <2>3
<1>9. CASE Quarantined(w)
  <2>1. PICK page \in Capped(Of(User(w), held), HeldLimit) :
          Answers(w, [Answer(200, {q.by : q \in page}) EXCEPT !.total = Cardinality(page)])
    BY <1>9 DEF Quarantined
  <2> DEFINE answer == [Answer(200, {q.by : q \in page}) EXCEPT !.total = Cardinality(page)]
  <2>2. page \subseteq HeldRecord /\ Cardinality(page) \in Nat
    BY HeldPage DEF IInv
  <2>3. {q.by : q \in page} \in SUBSET Callers
    BY <2>2 DEF HeldRecord
  <2>4. answer \in AnswerType /\ answer.status = 200
    BY ZenonT(60), <2>2, <2>3 DEF Answer, AnswerType, Statuses
  <2>5. AnswerOK(w) /\ ~At(w, "idle") /\ At(w, "quarantine")
    BY <1>0, <1>9 DEF Quarantined, At
  <2>6. /\ request'[w].at = "answered" /\ request'[w].answer = answer
        /\ request'[w].op = r.op
    BY <2>1, <2>4, <2>5, AnswersMove DEF IInv, SameClient
  <2>7. r.op # "list"
    BY <2>5 DEF AnswerOK, Listing, At, Ops
  <2> QED BY <2>4, <2>6, <2>7 DEF AnswerOK, RefusalOK, Listing, Added, At, Ops
<1>10. CASE ForgetUserCheck(w)
  <2>1. r.at \in Ops /\ r.op # "list" /\ ~At(w, "idle")
    BY <1>0, <1>10 DEF ForgetUserCheck, At, Ops, AnswerOK, Listing
  <2> QED BY <1>10, <2>1, CallsAnswer, RefusedAnswer DEF ForgetUserCheck, Steps, Ops, Statuses
<1>11. CASE EraseMemories(w) \/ EraseHeld(w)
  <2>1. r.op # "list" /\ ~At(w, "idle")
    BY <1>0, <1>11 DEF EraseMemories, EraseHeld, At, Ops, AnswerOK, Listing
  <2> QED BY <1>11, <2>1, CallsAnswer DEF EraseMemories, EraseHeld, Steps, Ops
<1>12. CASE ForgetThread(w)
  <2>1. r.at \in Ops /\ r.op # "list" /\ ~At(w, "idle")
    BY <1>0, <1>12 DEF ForgetThread, At, Ops, AnswerOK, Listing
  <2> QED BY <1>12, <2>1, CallsAnswer, RefusedAnswer DEF ForgetThread, Steps, Ops, Statuses
<1>13. CASE ForgetMemoryGet(w)
  <2>1. r \in Serving /\ AnswerOK(w) /\ At(w, "forget_memory")
    BY <1>0, <1>13 DEF ForgetMemoryGet, At
  <2>2. CASE Refuses(w, 404)
    BY <2>1, <2>2, RefusedAnswer DEF Ops, Statuses, At
  <2>3. CASE ~Refuses(w, 404)
    <3>1. request'[w].at = "delete" /\ request'[w].op = r.op
      BY <1>13, <2>1, <2>3 DEF ForgetMemoryGet, Serving, IInv, RequestOK
    <3>2. r.op # "list"
      BY <2>1 DEF AnswerOK, Listing, At, Ops
    <3> QED BY <3>1, <3>2 DEF AnswerOK, RefusalOK, Listing, Added, At, Ops
  <2> QED BY <2>2, <2>3
<1>14. CASE Fail(w)
  BY <1>14, PlainAnswer DEF Fail, Statuses
<1> QED
  BY <1>1, <1>2, <1>3, <1>4, <1>5, <1>6, <1>7, <1>8, <1>9, <1>10, <1>11, <1>12,
     <1>13, <1>14, <1>15, <1>16
  DEF Handle

LEMMA HandleAnswers ==
  ASSUME IInv, NEW w \in Workers, Handle(w)
  PROVE  AnswersOK'
<1>1. Moved(w)
  BY HandleMoves
<1>2. ASSUME NEW v \in Workers, request'[v].at # "idle"
      PROVE  AnswerOK(v)'
  <2>1. CASE v = w
    <3>1. ~Done(w)
      BY <1>2, <2>1 DEF Done, IInv, RequestOK, Idle
    <3> QED BY <2>1, <3>1, HandleAnswer
  <2>2. CASE v # w
    <3>1. request'[v] = request[v] /\ now' = now /\ AnswerOK(v)
      BY <1>1, <1>2, <2>2 DEF Moved, IInv, AnswersOK, AnswerOK, At
    <3> QED
      BY <3>1 DEF AnswerOK, RefusalOK, Listing, Added, At, OnlyActive, IsActive
  <2> QED BY <2>1, <2>2
<1> QED BY <1>2 DEF AnswersOK, AnswerOK, At
------------------------------------------------------------------------------
(* The totals that were shown.                                             *)

LEMMA HandleAudit ==
  ASSUME IInv, NEW w \in Workers, Handle(w)
  PROVE  AuditOK'
<1>1. Moved(w) /\ Effect(w)
  BY HandleMoves, HandleEffect
<1>2. CASE TotalsKept
  BY <1>2 DEF TotalsKept, IInv, AuditOK, Agrees
<1>3. CASE Listed(w)
  <2>1. PICK page \in Capped(Of(User(w), memories), MemoryLimit) :
          audit' = [audit EXCEPT ![User(w)] = Cardinality(page)]
    BY <1>3 DEF Listed
  <2>2. /\ Cardinality(page) \in Nat
        /\ Agrees(Cardinality(page), Cardinality(Of(User(w), memories)))
    BY ListedPage DEF IInv
  <2> QED
    BY <1>3, <2>1, <2>2 DEF Listed, IInv, AuditOK
<1>4. CASE UNCHANGED <<memories, audit>>
  BY <1>4 DEF IInv, AuditOK
<1> QED BY <1>1, <1>2, <1>3, <1>4 DEF Effect

(* Only a delete of a user enters the steps of one.                        *)
LEMMA HandleEnters ==
  ASSUME IInv, NEW w \in Workers, Handle(w),
         request'[w].at \in ErasingSteps \cup {"find_memories"}
  PROVE  request[w].op = "forget_user"
<1> USE AtAfter DEF At, ErasingSteps
<1>1. ~At(w, "idle") /\ request[w] \in Serving /\ RequestOK
  BY HandleMoves, ServingIsNotIdle DEF Moved, IInv
<1>3. ForgetUserCheck(w) \/ FindMemories(w) \/ EraseMemories(w) \/ EraseHeld(w)
  <2>1. CASE ChatRecord(w) \/ ChatSpeak(w) \/ ForgetThread(w)
    BY <1>1, <2>1 DEF ChatRecord, ChatSpeak, ForgetThread
  <2>2. CASE ChatRemember(w) \/ Observe(w) \/ ListAnswer(w) \/ History(w)
               \/ Quarantined(w) \/ EraseThreads(w) \/ ForgetTranscript(w)
               \/ ForgetMemoryDelete(w) \/ Fail(w)
    <3>1. \E answer : Answers(w, answer)
      BY <2>2
      DEF ChatRemember, Observe, ListAnswer, History, Quarantined, EraseThreads,
          ForgetTranscript, ForgetMemoryDelete, Fail
    <3> QED BY <1>1, <3>1
  <2>3. CASE ListShow(w)
    <3>1. request'[w].at = "count"
      BY <1>1, <2>3 DEF ListShow, Serving, RequestOK
    <3> QED BY <3>1
  <2>4. CASE ListCount(w)
    <3>1. request'[w].at = "flag"
      BY <1>1, <2>4 DEF ListCount, Serving, RequestOK
    <3> QED BY <3>1
  <2>5. CASE ForgetMemoryGet(w)
    <3>1. CASE Refuses(w, 404)
      BY <1>1, <3>1
    <3>2. CASE ~Refuses(w, 404)
      <4>1. request'[w].at = "delete"
        BY <1>1, <2>5, <3>2 DEF ForgetMemoryGet, Serving, RequestOK
      <4> QED BY <4>1
    <3> QED BY <3>1, <3>2
  <2>6. CASE Done(w)
    BY <1>1, <2>6 DEF Done, Idle, RequestOK
  <2> QED BY <2>1, <2>2, <2>3, <2>4, <2>5, <2>6 DEF Handle
<1> QED
  BY <1>1, <1>3
  DEF ForgetUserCheck, FindMemories, Finds, EraseMemories, EraseHeld, IInv, AnswersOK,
      Listing, ErasuresOK, Erasing, Ops

(* A request that is no delete of a user, or whose answer is a refusal,    *)
(* has nothing to agree with.                                              *)
LEMMA OtherErasing ==
  ASSUME IInv, NEW w \in Workers, ~At(w, "idle"),
         SameClient(w), request[w].op # "forget_user",
         request'[w].at \notin ErasingSteps \cup {"find_memories"}
  PROVE  Erasing(w)'
<1>1. request'[w].op # "forget_user"
  BY DEF SameClient
<1> QED BY <1>1 DEF Erasing

LEMMA RefusedErasing ==
  ASSUME IInv, NEW w \in Workers, ~At(w, "idle"), NEW status \in Statuses \ {200},
         Answers(w, Answer(status, {})) \/ Refuses(w, status)
  PROVE  Erasing(w)'
<1>1. Answer(status, {}) \in AnswerType /\ Answer(status, {}).status = status
  BY AnswerTyped DEF Answer
<1>2. request'[w].at = "answered" /\ request'[w].answer.status = status
  BY <1>1, AnswersMove DEF IInv, Refuses
<1> QED BY <1>2 DEF Erasing, ErasingSteps

(* The next store call of a delete that has found the memories.            *)
LEMMA CallsErasing ==
  ASSUME IInv, NEW w \in Workers, request[w].at \in {"erase_memories", "erase_held"},
         NEW step \in ErasingSteps, Calls(w, step)
  PROVE  Erasing(w)'
<1>1. ~At(w, "idle") /\ step \in Steps
  BY DEF At, ErasingSteps, Steps
<1>2. /\ request'[w].at = step /\ request'[w].page = request[w].page
      /\ request'[w].promised = request[w].promised
  BY <1>1, CallsMove DEF IInv
<1>3. /\ Cardinality(request[w].page) \in Nat
      /\ Agrees(request[w].promised, Cardinality(request[w].page))
      /\ request[w].op = "forget_user"
  BY <1>1 DEF IInv, ErasuresOK, Erasing, ErasingSteps
<1>6. request'[w].op = "forget_user"
  BY <1>1, <1>3, CallsMove DEF IInv, SameClient
<1>4. /\ request'[w].at \in ErasingSteps /\ request'[w].at # "answered"
      /\ Cardinality(request'[w].page) \in Nat
      /\ Agrees(request'[w].promised, Cardinality(request'[w].page))
  BY <1>2, <1>3 DEF ErasingSteps
<1>5. Agrees(request[w].promised, Cardinality(request[w].page))'
  BY <1>4 DEF Agrees
<1> QED BY <1>4, <1>5, <1>6 DEF Erasing

(* Steps of other requests than a delete of a user.                        *)
LEMMA OtherSteps ==
  ASSUME IInv, NEW w \in Workers, Handle(w), ~Done(w)
  PROVE  \/ request[w].op # "forget_user"
         \/ ForgetUserCheck(w) \/ FindMemories(w) \/ EraseMemories(w)
         \/ EraseHeld(w) \/ EraseThreads(w) \/ Fail(w)
<1>1. ~At(w, "idle")
  BY HandleMoves DEF Moved
<1>2. /\ request[w].op = "forget_user" =>
           request[w].at \in ErasingSteps \cup {"forget_user", "find_memories", "answered"}
  BY <1>1 DEF IInv, ErasuresOK, Erasing
<1> QED
  BY <1>2
  DEF Handle, ErasingSteps, At, ChatRecord, ChatSpeak, ChatRemember, Observe, ListShow,
      ListCount, ListAnswer, History, Quarantined, ForgetThread, ForgetTranscript,
      ForgetMemoryGet, ForgetMemoryDelete

LEMMA HandleErasing ==
  ASSUME IInv, NEW w \in Workers, Handle(w), ~Done(w), request'[w].at # "idle"
  PROVE  Erasing(w)'
<1> DEFINE r == request[w]
<1>1. ~At(w, "idle") /\ r \in Serving /\ SameClient(w)
  BY HandleMoves, ServingIsNotIdle DEF Moved, IInv, Idle
<1>2. CASE r.op # "forget_user"
  <2>1. request'[w].at \notin ErasingSteps \cup {"find_memories"}
    BY <1>1, <1>2, HandleEnters
  <2> QED BY <1>1, <1>2, <2>1, OtherErasing
<1>3. CASE ForgetUserCheck(w)
  <2>1. CASE Refuses(w, 409)
    BY <1>1, <2>1, RefusedErasing DEF Statuses
  <2>2. CASE Calls(w, "find_memories")
    <3>1. request'[w].at = "find_memories"
      BY <1>1, <2>2, CallsMove DEF IInv, Steps
    <3>2. request'[w].op = "forget_user"
      BY <1>1, <1>3, <3>1, HandleEnters DEF SameClient
    <3> QED BY <3>1, <3>2 DEF Erasing, ErasingSteps
  <2> QED BY <1>3, <2>1, <2>2 DEF ForgetUserCheck
<1>4. CASE FindMemories(w)
  <2>1. PICK found : found = Of(User(w), memories)
    OBVIOUS
  <2>2. /\ request'[w].at = "erase_memories" /\ request'[w].page = found
        /\ request'[w].promised = audit[User(w)]
    BY <1>1, <1>4, <2>1 DEF FindMemories, Finds, Serving, IInv, RequestOK
  <2>3. User(w) \in Users /\ Cardinality(found) \in Nat
    BY <1>1, <2>1, OfUser, FS_Subset, FS_CardinalityType DEF Serving, User, IInv, StoreOK
  <2>4. Agrees(audit[User(w)], Cardinality(found))
    BY <2>1, <2>3 DEF IInv, AuditOK
  <2>5. Agrees(request[w].promised, Cardinality(request[w].page))'
    BY <2>2, <2>4 DEF Agrees
  <2>6. request'[w].op = "forget_user"
    BY <1>1, <1>4, <2>2, HandleEnters DEF SameClient, ErasingSteps
  <2> QED BY <2>2, <2>3, <2>5, <2>6 DEF Erasing, ErasingSteps
<1>5. CASE EraseMemories(w) \/ EraseHeld(w)
  BY <1>5, CallsErasing DEF EraseMemories, EraseHeld, At, ErasingSteps
<1>6. CASE EraseThreads(w)
  <2>1. At(w, "erase_threads") /\ Answers(w, Report(w))
    BY <1>6 DEF EraseThreads, Report
  <2>2. /\ request'[w].at = "answered" /\ request'[w].promised = r.promised
        /\ request'[w].answer.total = Cardinality(r.page)
    BY <1>1, <2>1, ReportTyped, AnswersMove DEF IInv
  <2>3. Agrees(r.promised, Cardinality(r.page))
    BY <1>1, <2>1 DEF IInv, ErasuresOK, Erasing, ErasingSteps, At
  <2>4. Agrees(request[w].promised, request[w].answer.total)'
    BY <2>2, <2>3 DEF Agrees
  <2> QED BY <2>2, <2>4 DEF Erasing, ErasingSteps
<1>7. CASE Fail(w)
  BY <1>1, <1>7, RefusedErasing DEF Fail, Statuses
<1> QED BY <1>2, <1>3, <1>4, <1>5, <1>6, <1>7, OtherSteps

LEMMA HandleErasures ==
  ASSUME IInv, NEW w \in Workers, Handle(w)
  PROVE  ErasuresOK'
<1>1. Moved(w)
  BY HandleMoves
<1>2. ASSUME NEW v \in Workers, request'[v].at # "idle"
      PROVE  Erasing(v)'
  <2>1. CASE v = w
    <3>1. ~Done(w)
      BY <1>2, <2>1 DEF Done, IInv, RequestOK, Idle
    <3> QED BY <1>2, <2>1, <3>1, HandleErasing
  <2>2. CASE v # w
    <3>1. request'[v] = request[v] /\ Erasing(v)
      BY <1>1, <1>2, <2>2 DEF Moved, IInv, ErasuresOK, At
    <3> QED BY <3>1 DEF Erasing, Agrees
  <2> QED BY <2>1, <2>2
<1> QED BY <1>2 DEF ErasuresOK, At
------------------------------------------------------------------------------
(* Arrivals, start-up and the clock.                                       *)

(* What a request looks like when the checks are through with it.          *)
LEMMA ArrivesAs ==
  ASSUME IInv, NEW w \in Workers, NEW r \in Requests, Arrive(w, r)
  PROVE  /\ request'[w] \in Serving
         /\ DOMAIN request' = Workers
         /\ \A v \in Workers \ {w} : request'[v] = request[v]
         /\ \E reachable \in BOOLEAN :
              /\ request'[w].at = IF Verdict(r, reachable) = 200 THEN r.op ELSE "answered"
              /\ request'[w].answer = Answer(Verdict(r, reachable), {})
         /\ request'[w].op = r.op /\ request'[w].user = r.user
         /\ request'[w].credential = r.credential
         /\ request'[w].serial = started' /\ request'[w].touched = FALSE
         /\ request'[w].promised = NULL
         /\ request'[w].page = {} /\ request'[w].items = {}
<1>1. PICK reachable \in BOOLEAN :
        request' = [request EXCEPT ![w] =
          [at |-> IF Verdict(r, reachable) = 200 THEN r.op ELSE "answered",
           op |-> r.op, user |-> r.user, credential |-> r.credential,
           thread |-> r.thread, retired |-> r.retired,
           serial |-> started', touched |-> FALSE, promised |-> NULL,
           page |-> {}, items |-> {}, active |-> 0,
           answer |-> Answer(Verdict(r, reachable), {})]]
  BY DEF Arrive
<1>2. Verdict(r, reachable) \in Statuses
  BY DEF Verdict, CurrentUser, Statuses
<1>3. Answer(Verdict(r, reachable), {}) \in AnswerType
  BY <1>2, AnswerTyped
<1>4. started' \in Nat
  BY DEF Arrive, IInv, RequestOK
<1>5. /\ r.op \in Ops /\ r.user \in Users /\ r.credential \in Callers
      /\ r.thread \in Threads /\ r.retired \in BOOLEAN
  BY DEF Requests, Callers
<1>6. request'[w] \in Serving
  BY <1>1, <1>3, <1>4, <1>5 DEF IInv, RequestOK, Serving, Steps
<1> QED BY <1>1, <1>6 DEF IInv, RequestOK

(* Under authentication only the owner of a valid token gets through.      *)
LEMMA OnlyOwnersPass ==
  ASSUME mode = "cognito", NEW r \in Requests, NEW reachable \in BOOLEAN,
         Verdict(r, reachable) = 200
  PROVE  r.credential = r.user
<1>1. CurrentUser(r, reachable).status = 200
  BY DEF Verdict, CurrentUser
<1>2. CurrentUser(r, reachable).subject = r.credential /\ r.credential # NULL
  BY <1>1 DEF CurrentUser
<1>3. r.op \in Owned
  BY DEF Owned, Requests, Ops
<1>4. RequireOwner(CurrentUser(r, reachable).subject, r.user)
  BY <1>1, <1>3 DEF Verdict
<1> QED BY <1>2, <1>4 DEF RequireOwner

LEMMA ArriveInv ==
  ASSUME IInv, NEW w \in Workers, NEW r \in Requests, Arrive(w, r)
  PROVE  IInv'
<1>1. /\ UNCHANGED <<mode, configured, legacy, phase, memories, held, index, transcript,
                     now, audit>>
      /\ started' = started + 1 /\ started' \in 1..MaxRequests /\ started \in Nat
      /\ phase = "serving" /\ request[w] = Idle
  BY ApiAssumption DEF Arrive, deployment, data, IInv, RequestOK
<1>2. StoreOK' /\ AuditOK'
  BY <1>1 DEF IInv, StoreOK, AuditOK, Agrees
<1>3. /\ request'[w] \in Serving /\ DOMAIN request' = Workers
      /\ request'[w].op = r.op /\ request'[w].user = r.user
      /\ request'[w].credential = r.credential
      /\ request'[w].serial = started' /\ request'[w].touched = FALSE
      /\ request'[w].page = {} /\ request'[w].items = {}
  BY ZenonT(60), ArrivesAs
<1>4. \A v \in Workers \ {w} : request'[v] = request[v]
  BY ArrivesAs
<1>5. RequestOK'
  BY <1>1, <1>3, <1>4 DEF IInv, RequestOK, At
<1>6. IdsOK'
  <2>1. \A v \in Workers \ {w} : request'[v] = request[v]
    BY <1>4
  <2>2. request'[w].serial = started'
    BY <1>3
  <2>3. \A v \in Workers \ {w} : request'[v].at # "idle" =>
          /\ request'[v].serial \in 1..started
          /\ request'[v].at \in ChatSteps => \A m \in memories : m.id # request'[v].serial
    BY <2>1 DEF IInv, IdsOK, At, ChatSteps
  <2>4. \A m \in memories : m.id # started'
    <3>1. \A m \in memories : m.id \in Nat /\ (m.id <= started \/ m.id > MaxRequests)
      BY DEF IInv, IdsOK, StoreOK, Record
    <3> QED BY <1>1, <3>1, ApiAssumption
  <2>5. \A m \in memories : m.id <= started' \/ m.id > MaxRequests
    BY <1>1 DEF IInv, IdsOK, StoreOK, Record
  <2>6. \A u, v \in Workers :
          request'[u].at # "idle" /\ request'[v].at # "idle"
            /\ request'[v].serial = request'[u].serial => v = u
    BY <1>1, <2>1, <2>2, <2>3 DEF IInv, IdsOK, At
  <2> QED BY <1>1, <2>2, <2>3, <2>4, <2>5, <2>6 DEF IInv, IdsOK, At, ChatSteps
<1>7. OwnersOK'
  <2> SUFFICES ASSUME mode = "cognito" PROVE OwnersOK'
    BY <1>1 DEF OwnersOK
  <2>1. OwnRequest(w)'
    <3>1. PICK reachable \in BOOLEAN :
            /\ request'[w].at = IF Verdict(r, reachable) = 200 THEN r.op ELSE "answered"
            /\ request'[w].answer = Answer(Verdict(r, reachable), {})
      BY ArrivesAs
    <3>2. request'[w].at # "answered" => r.credential = r.user
      BY <3>1, OnlyOwnersPass
    <3>3. /\ request'[w].user = r.user /\ request'[w].credential = r.credential
          /\ request'[w].touched = FALSE
          /\ request'[w].page = {} /\ request'[w].items = {}
          /\ request'[w].answer.shows = {}
      BY <1>3, <3>1 DEF Answer
    <3> QED BY <3>2, <3>3 DEF OwnRequest, At, By, User
  <2>2. \A v \in Workers \ {w} : request'[v].at # "idle" => OwnRequest(v)'
    BY <1>4 DEF IInv, OwnersOK, OwnRequest, At, By, User
  <2> QED BY <1>1, <2>1, <2>2 DEF IInv, OwnersOK, At
<1>8. AnswersOK'
  <2>1. AnswerOK(w)'
    <3>1. PICK reachable \in BOOLEAN :
            /\ request'[w].at = IF Verdict(r, reachable) = 200 THEN r.op ELSE "answered"
            /\ request'[w].answer = Answer(Verdict(r, reachable), {})
      BY ArrivesAs
    <3>2. request'[w].at \in Ops \cup {"answered"} /\ r.op \in Ops
      BY <3>1 DEF Requests
    <3>3. request'[w].at \in Ops => request'[w].at = r.op
      BY <3>1 DEF Ops
    <3>4. /\ request'[w].answer.total = 0 /\ request'[w].answer.active = 0
          /\ request'[w].answer.items = 0 /\ request'[w].answer.flagged = 0
      BY <3>1 DEF Answer
    <3>5. request'[w].touched = FALSE /\ request'[w].op = r.op
      BY <1>3
    <3> QED
      BY <3>2, <3>3, <3>4, <3>5 DEF AnswerOK, RefusalOK, Listing, Added, At, Ops
  <2>2. ASSUME NEW v \in Workers \ {w}, request'[v].at # "idle"
        PROVE  AnswerOK(v)'
    <3>1. request'[v] = request[v] /\ AnswerOK(v)
      BY <1>4, <2>2 DEF IInv, AnswersOK, AnswerOK, At
    <3> QED
      BY <1>1, <3>1 DEF AnswerOK, RefusalOK, Listing, Added, At, OnlyActive, IsActive
  <2> QED BY <2>1, <2>2 DEF AnswersOK, AnswerOK, At
<1>9. ErasuresOK'
  <2>1. Erasing(w)'
    <3>1. PICK reachable \in BOOLEAN :
            request'[w].at = IF Verdict(r, reachable) = 200 THEN r.op ELSE "answered"
      BY ArrivesAs
    <3>2. request'[w].op = r.op /\ r.op \in Ops /\ request'[w].promised = NULL
      BY <1>3, ArrivesAs DEF Requests
    <3>3. Agrees(request'[w].promised, request'[w].answer.total)
      BY <3>2 DEF Agrees
    <3>4. Agrees(request[w].promised, request[w].answer.total)'
      BY <3>3 DEF Agrees
    <3>5. /\ request'[w].at \notin ErasingSteps \cup {"find_memories"}
          /\ request'[w].op = "forget_user" => request'[w].at \in {"forget_user", "answered"}
      BY <3>1, <3>2 DEF Ops, ErasingSteps
    <3> QED BY <3>4, <3>5 DEF Erasing
  <2>2. ASSUME NEW v \in Workers \ {w}, request'[v].at # "idle"
        PROVE  Erasing(v)'
    <3>1. request'[v] = request[v] /\ Erasing(v)
      BY <1>4, <2>2 DEF IInv, ErasuresOK, At
    <3> QED BY <3>1 DEF Erasing, Agrees
  <2> QED BY <2>1, <2>2 DEF ErasuresOK, At
<1> QED BY <1>2, <1>5, <1>6, <1>7, <1>8, <1>9 DEF IInv

(* Nothing is stored or answered by the clock, but what is active shrinks. *)
LEMMA TickInv ==
  ASSUME IInv, Tick
  PROVE  IInv'
<1>1. /\ UNCHANGED <<mode, configured, legacy, phase, memories, held, index, transcript,
                     started, request, audit>>
      /\ now' = now + 1 /\ now \in Nat /\ now' \in 0..MaxTime
  BY ApiAssumption DEF Tick, deployment, data, IInv, RequestOK
<1>2. StoreOK' /\ AuditOK' /\ RequestOK' /\ IdsOK' /\ ErasuresOK'
  <2>1. StoreOK' /\ RequestOK' /\ IdsOK'
    BY <1>1 DEF IInv, StoreOK, RequestOK, IdsOK, At
  <2>2. AuditOK' /\ ErasuresOK'
    BY <1>1 DEF IInv, AuditOK, ErasuresOK, Erasing, Agrees, At
  <2> QED BY <2>1, <2>2
<1>3. OwnersOK'
  BY <1>1 DEF IInv, OwnersOK, OwnRequest, At, By, User
<1>4. ASSUME NEW w \in Workers, ~At(w, "idle")
      PROVE  AnswerOK(w)'
  <2> DEFINE r == request[w]
  <2>1. r \in Serving /\ AnswerOK(w)
    BY <1>4, ServingIsNotIdle DEF IInv, AnswersOK, AnswerOK
  <2>2. OnlyActive(r.page)' \subseteq OnlyActive(r.page) /\ OnlyActive(r.page) \subseteq r.page
    BY <1>1, <2>1, ApiAssumption DEF OnlyActive, IsActive, Serving, Record
  <2>3. r.at = "flag" => Cardinality(OnlyActive(r.page)') <= r.active
    <3> SUFFICES ASSUME r.at = "flag" PROVE Cardinality(OnlyActive(r.page)') <= r.active
      OBVIOUS
    <3>1. IsFiniteSet(OnlyActive(r.page))
      BY <2>1, <2>2, FS_Subset DEF AnswerOK, Listing
    <3>2. /\ Cardinality(OnlyActive(r.page)') \in Nat
          /\ Cardinality(OnlyActive(r.page)) \in Nat
          /\ Cardinality(OnlyActive(r.page)') <= Cardinality(OnlyActive(r.page))
      BY <2>2, <3>1, SmallerActive
    <3> QED BY <2>1, <3>2 DEF AnswerOK, Listing, Serving
  <2>4. Listing(w)'
    BY <1>1, <2>1, <2>2, <2>3 DEF AnswerOK, Listing
  <2>5. RefusalOK(w)' /\ Added(w)'
    BY <1>1, <2>1 DEF AnswerOK, RefusalOK, Added, At
  <2> QED BY <2>4, <2>5 DEF AnswerOK
<1>5. AnswersOK'
  BY <1>1, <1>4 DEF AnswersOK, AnswerOK, At
<1> QED BY <1>2, <1>3, <1>5 DEF IInv

(* Stuttering, and a start-up: no request has been taken up.               *)
LEMMA QuietInv ==
  ASSUME IInv,
         UNCHANGED <<mode, configured, legacy, memories, held, index, transcript, now,
                     started, request, audit>>,
         \/ UNCHANGED phase
         \/ /\ phase = "starting"
            /\ phase' = IF mode = "cognito" /\ ~configured THEN "failed" ELSE "serving"
  PROVE  IInv'
<1>1. RequestOK'
  BY DEF IInv, RequestOK, At
<1>2. StoreOK' /\ AuditOK' /\ IdsOK' /\ ErasuresOK'
  <2>1. StoreOK' /\ IdsOK'
    BY DEF IInv, StoreOK, IdsOK, At
  <2>2. AuditOK' /\ ErasuresOK'
    BY DEF IInv, AuditOK, ErasuresOK, Erasing, Agrees, At
  <2> QED BY <2>1, <2>2
<1>3. OwnersOK'
  BY DEF IInv, OwnersOK, OwnRequest, At, By, User
<1>4. AnswersOK'
  BY ZenonT(60) DEF IInv, AnswersOK, RefusalOK, Listing, Added, At, OnlyActive, IsActive
<1> QED BY <1>1, <1>2, <1>3, <1>4 DEF IInv

LEMMA InitInv == Init => IInv
<1> SUFFICES ASSUME Init PROVE IInv
  OBVIOUS
<1>1. \A w \in Workers : request[w] = Idle /\ At(w, "idle")
  BY DEF Init, At, Idle
<1>2. StoreOK
  BY StoresAssumption, ApiAssumption, FS_EmptySet DEF Init, StoreOK
<1>3. RequestOK
  BY <1>1, ApiAssumption DEF Init, RequestOK
<1>4. IdsOK
  BY <1>1, StoresAssumption DEF Init, IdsOK
<1>5. OwnersOK /\ AnswersOK
  BY <1>1, StoresAssumption DEF Init, OwnersOK, AnswersOK
<1>6. AuditOK /\ ErasuresOK
  BY <1>1 DEF Init, AuditOK, Agrees, ErasuresOK
<1> QED BY <1>2, <1>3, <1>4, <1>5, <1>6 DEF IInv

(* The inductive invariant of the HTTP surface.                            *)
THEOREM Invariance == Spec => []IInv
<1>1. IInv /\ [Next]_vars => IInv'
  <2> SUFFICES ASSUME IInv, [Next]_vars PROVE IInv'
    OBVIOUS
  <2>1. CASE UNCHANGED vars
    BY <2>1, QuietInv DEF vars, deployment, data
  <2>2. CASE Startup
    BY <2>2, QuietInv DEF Startup, deployment, data
  <2>3. CASE Tick
    BY <2>3, TickInv
  <2>4. ASSUME NEW w \in Workers, Handle(w) PROVE IInv'
    BY <2>4, HandleStore, HandleRequest, HandleIds, HandleOwners, HandleAnswers, HandleAudit,
       HandleErasures
    DEF IInv
  <2>5. ASSUME NEW w \in Workers, NEW r \in Requests, Arrive(w, r) PROVE IInv'
    BY <2>5, ArriveInv
  <2> QED BY <2>1, <2>2, <2>3, <2>4, <2>5 DEF Next
<1> QED BY InitInv, <1>1, PTL DEF Spec

(* Ids stay unique per user, no legacy conversation gets an entry, and     *)
(* nothing is served before the verifier of main.py's lifespan exists.     *)
THEOREM TypeCorrect == Spec => []TypeOK
<1>1. IInv => TypeOK
  <2> SUFFICES ASSUME IInv PROVE TypeOK
    OBVIOUS
  <2>1. \A w \in Workers : ~At(w, "idle") => request[w].answer.status \in Statuses
    BY ServingIsNotIdle DEF IInv, Serving, AnswerType
  <2> QED BY <2>1 DEF IInv, StoreOK, RequestOK, IdsOK, AuditOK, TypeOK
<1> QED BY Invariance, <1>1, PTL

(* With authentication on nobody is shown or changes what is another's,    *)
(* whatever requests overlap (current_user, require_owner).                *)
THEOREM OwnershipIsKept == Spec => []OwnersOnly
<1>1. IInv => OwnersOnly
  BY DEF IInv, OwnersOK, OwnRequest, OwnersOnly
<1> QED BY Invariance, <1>1, PTL

(* A 4xx or 503 answer means that the request changed nothing.             *)
THEOREM RefusalsAreClean == Spec => []RefusedRequestsChangeNothing
<1>1. IInv => RefusedRequestsChangeNothing
  BY DEF IInv, AnswersOK, RefusalOK, RefusedRequestsChangeNothing, Answered, At
<1> QED BY Invariance, <1>1, PTL

(* The counts of list_memories are in order although its records expire    *)
(* between one look at the clock and the next.                             *)
THEOREM ListingsAddUp == Spec => []ListingAddsUp
<1>1. IInv => ListingAddsUp
  BY DEF IInv, AnswersOK, Added, ListingAddsUp, Answered, At
<1> QED BY Invariance, <1>1, PTL

(* The report of forget_user agrees with what list_memories had shown,     *)
(* unless a record of the user was put or deleted in between.              *)
THEOREM TotalsAreTrue == Spec => []ShownIsWhatIsErased
<1>1. IInv => ShownIsWhatIsErased
  BY DEF IInv, ErasuresOK, Erasing, ShownIsWhatIsErased, Answered, At
<1> QED BY Invariance, <1>1, PTL
==============================================================================
