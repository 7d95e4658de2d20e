--------------------------- MODULE ConversationProofs ---------------------------
(***************************************************************************)
(* What holds of a user's conversations for any number of workers and      *)
(* conversations: proofs about Conversation's Spec.                        *)
(*                                                                         *)
(* Some properties hold however requests overlap.  Others fail then, as    *)
(* the runs show, and hold of requests that are served one at a time, or   *)
(* of a delete that runs alone.  One invariant covers all three: its parts *)
(* say of each request what it may rely on, and under which condition.     *)
(***************************************************************************)
EXTENDS Conversation, SequenceTheorems, TLAPS

Steps == {"idle"} \cup ChatSteps \cup ForgetThreadSteps \cup ForgetUserSteps

(* Keys of memories and of quarantined texts.                              *)
Keys == (Nat \X Nat) \cup Nat

Serves ==
  [at : Steps, thread : Threads \cup {NULL}, turn : Nat, messages : Seq(Message),
   known : SUBSET Record, puts : 0..MaxPuts, todo : SUBSET Keys, threads : SUBSET Threads]

OnThread == ChatSteps \cup ForgetThreadSteps \cup {"user_index"}

TypeInv ==
  /\ index \in [Threads -> {"absent", "v2", "legacy"}]
  /\ memories \in SUBSET Record /\ quarantine \in SUBSET Nat
  /\ transcript \in [Threads -> Seq(Message)]
  /\ cut \in SUBSET Workers /\ started \in Nat
  /\ request \in [Workers -> Serves]
  /\ returned \in [Threads -> SUBSET Nat] /\ alone \in SUBSET Workers
  /\ \A w \in Workers :
       /\ At(w, "idle") => Idle(w)
       /\ request[w].at \in OnThread => request[w].thread \in Threads

(* Every reply in s follows its message.                                   *)
Paired(s) ==
  \A i \in DOMAIN s : s[i].type = "ai" => i > 1 /\ s[i - 1] = Human(s[i].turn)

Asked == {"input", "recall", "respond"}
Replied == {"remember", "learn", "save"}

(* What a graph run carries is paired as well, and ends with the user's    *)
(* message until the reply is appended: nobody else writes to it.          *)
PairedOK ==
  /\ \A t \in Threads : Paired(transcript[t])
  /\ \A w \in Workers : LET r == request[w] IN
       /\ Paired(r.messages)
       /\ r.at \in Asked => r.messages # <<>> /\ r.messages[Len(r.messages)] = Human(r.turn)

(* A delete was let in when there was no legacy entry in its way, and none *)
(* has become one.                                                         *)
LegacyOK ==
  \A w \in Workers :
    /\ request[w].at \in ForgetUserSteps => \A t \in Threads : ~IsLegacy(t)
    /\ request[w].at \in ForgetThreadSteps => ~IsLegacy(Thread(w))

OneWorker == \A v, w \in Workers : v = w

(* No other request is under way as long as w's is.                        *)
Undisturbed(w) == OneWorker \/ w \in alone

AloneOK ==
  \A w \in alone : /\ request[w].at \in ForgetThreadSteps \cup ForgetUserSteps
                   /\ \A v \in Workers \ {w} : Idle(v)

(* An undisturbed delete knows all that is left of memories, quarantined   *)
(* texts and index entries.                                                *)
KnowsAll(w) ==
  LET r == request[w] IN
  /\ r.at = "thread_memories" => LearnedFrom(r.thread) \subseteq r.todo
  /\ r.at \in {"thread_index", "thread_forgotten"} => LearnedFrom(r.thread) = {}
  /\ r.at = "thread_forgotten" => index[r.thread] = "absent"
  /\ r.at = "user_memories" => {m.id : m \in memories} \subseteq r.todo
  /\ r.at \in {"user_quarantine", "user_index", "user_threads"} => memories = {}
  /\ r.at = "user_quarantine" => quarantine \subseteq r.todo
  /\ r.at \in {"user_index", "user_threads"} => quarantine = {}
  /\ r.at \in ForgetUserSteps => \A t \in Threads : index[t] # "absent" => t \in r.threads

EraseOK == \A w \in Workers : Undisturbed(w) => KnowsAll(w)

(* With one worker, what a chat carries is what its transcript holds, and  *)
(* a transcript goes before the entry it is found by.                      *)
ChatKnows(w) ==
  LET r == request[w]  text == transcript[r.thread] IN
  /\ r.at \in ChatSteps => index[r.thread] = "v2"
  /\ r.at = "input" => Range(text) \subseteq Range(r.messages)
  /\ r.at \in {"recall", "respond"} \cup Replied =>
       text = r.messages /\ Human(r.turn) \in Range(r.messages)
  /\ r.at \in Replied => Ai(r.turn) \in Range(r.messages)
  /\ r.at \in {"thread_index", "thread_forgotten", "user_index"} => text = <<>>

SoloOK ==
  OneWorker =>
    /\ cut = {} /\ TranscriptIndexed /\ ReturnedTurnIsKept
    /\ \A w \in Workers : ChatKnows(w)

IInv ==
  TypeInv /\ PairedOK /\ LegacyOK /\ AloneOK /\ EraseOK /\ SoloOK
------------------------------------------------------------------------------
LEMMA MessageTypes ==
  ASSUME NEW n \in Nat
  PROVE  Human(n) \in Message /\ Ai(n) \in Message
BY DEF Human, Ai, Message

LEMMA NoRequestType == NoRequest \in Serves
BY BoundsAssumption, EmptySeq DEF NoRequest, Serves, Steps

LEMMA PutType ==
  ASSUME NEW S \in SUBSET Record, NEW m \in Record
  PROVE  Put(S, m) \in SUBSET Record
BY DEF Put

LEMMA KeysOfMemories ==
  ASSUME TypeInv
  PROVE  {m.id : m \in memories} \subseteq Keys /\ \A t : LearnedFrom(t) \subseteq Keys
BY DEF TypeInv, Record, Keys, LearnedFrom

(* A request that is replaced by one of the right types leaves the other   *)
(* requests alone.                                                         *)
LEMMA GotoType ==
  ASSUME TypeInv, NEW w \in Workers, NEW r \in Serves, Goto(w, r),
         r.at = "idle" => r = NoRequest,
         r.at \in OnThread => r.thread \in Threads
  PROVE  /\ request' \in [Workers -> Serves] /\ request'[w] = r
         /\ \A v \in Workers \ {w} : request'[v] = request[v]
         /\ \A v \in Workers :
              /\ request'[v].at = "idle" => request'[v] = NoRequest
              /\ request'[v].at \in OnThread => request'[v].thread \in Threads
BY DEF Goto, TypeInv, At, Idle

LEMMA RecordThreadType ==
  ASSUME TypeInv, NEW w \in Workers, NEW t \in Threads, RecordThread(w, t)
  PROVE  TypeInv'
<1> DEFINE r == [NoRequest EXCEPT !.at = "load", !.thread = t, !.turn = started]
<1>1. r \in Serves /\ r.at = "load" /\ r.thread = t
  BY NoRequestType DEF Serves, Steps, ChatSteps, TypeInv
<1>2. Goto(w, r)
  BY DEF RecordThread
<1>3. alone' \in SUBSET Workers /\ started' \in Nat
  BY DEF RecordThread, Begin, TypeInv
<1>4. index' \in [Threads -> {"absent", "v2", "legacy"}]
  BY DEF RecordThread, Indexed, TypeInv
<1>5. UNCHANGED <<memories, quarantine, transcript, cut, returned>>
  BY DEF RecordThread, saved
<1> QED BY <1>1, <1>2, <1>3, <1>4, <1>5, GotoType DEF TypeInv, At, Idle

LEMMA LoadType ==
  ASSUME TypeInv, NEW w \in Workers, LoadCheckpoint(w)
  PROVE  TypeInv'
<1> DEFINE r == [request[w] EXCEPT !.at = "input",
                   !.messages = Append(Carried(w), Human(request[w].turn))]
<1>1. request[w] \in Serves /\ Thread(w) \in Threads
  BY DEF LoadCheckpoint, TypeInv, At, OnThread, ChatSteps, Thread
<1>2. Append(Carried(w), Human(request[w].turn)) \in Seq(Message)
  BY <1>1, MessageTypes, AppendProperties DEF Carried, TypeInv, Serves
<1>3. r \in Serves /\ r.at = "input" /\ r.thread = Thread(w)
  BY <1>1, <1>2 DEF Serves, Steps, ChatSteps, Thread
<1>4. Goto(w, r) /\ UNCHANGED <<stored, saved, started, history>>
  BY DEF LoadCheckpoint
<1> QED
  BY <1>1, <1>3, <1>4, GotoType DEF TypeInv, At, Idle, stored, saved, history
LEMMA SaveMessagesType ==
  ASSUME TypeInv, NEW w \in Workers, Thread(w) \in Threads,
         NEW messages \in Seq(Message), SaveMessages(w, messages)
  PROVE  transcript' \in [Threads -> Seq(Message)] /\ cut' \in SUBSET Workers
BY DEF TypeInv, SaveMessages

LEMMA SaveSameType ==
  ASSUME TypeInv, NEW w \in Workers, Thread(w) \in Threads, SaveSameMessages(w)
  PROVE  transcript' \in [Threads -> Seq(Message)] /\ cut' \in SUBSET Workers
<1>1. request[w].messages \in Seq(Message) /\ <<>> \in Seq(Message)
  BY EmptySeq DEF TypeInv, Serves
<1> QED BY <1>1 DEF TypeInv, SaveSameMessages

LEMMA SaveInputType ==
  ASSUME TypeInv, NEW w \in Workers, SaveInput(w)
  PROVE  TypeInv'
<1>1. request[w] \in Serves /\ Thread(w) \in Threads
  BY DEF SaveInput, TypeInv, At, OnThread, ChatSteps, Thread
<1>2. transcript' \in [Threads -> Seq(Message)] /\ cut' \in SUBSET Workers
  BY <1>1, SaveMessagesType DEF SaveInput, Serves
<1>3. [request[w] EXCEPT !.at = "recall"] \in Serves
  BY <1>1 DEF Serves, Steps, ChatSteps
<1> QED
  BY <1>1, <1>2, <1>3, GotoType
  DEF SaveInput, TypeInv, At, Idle, stored, history, Thread, Serves

LEMMA RecallType ==
  ASSUME TypeInv, NEW w \in Workers, RecallNode(w)
  PROVE  TypeInv'
<1>1. request[w] \in Serves /\ Thread(w) \in Threads
  BY DEF RecallNode, TypeInv, At, OnThread, ChatSteps, Thread
<1>2. transcript' \in [Threads -> Seq(Message)] /\ cut' \in SUBSET Workers
  BY <1>1, SaveSameType DEF RecallNode
<1>3. [request[w] EXCEPT !.at = "respond"] \in Serves
  BY <1>1 DEF Serves, Steps, ChatSteps
<1> QED
  BY <1>1, <1>2, <1>3, GotoType
  DEF RecallNode, TypeInv, At, Idle, stored, history, Thread, Serves

LEMMA RespondType ==
  ASSUME TypeInv, NEW w \in Workers, RespondNode(w)
  PROVE  TypeInv'
<1> DEFINE messages == Append(Answered(w), Ai(request[w].turn))
           r == [request[w] EXCEPT !.at = "remember", !.messages = messages]
<1>1. request[w] \in Serves /\ Thread(w) \in Threads
  BY DEF RespondNode, TypeInv, At, OnThread, ChatSteps, Thread
<1>2. messages \in Seq(Message)
  BY <1>1, MessageTypes, AppendProperties DEF Answered, Serves
<1>3. transcript' \in [Threads -> Seq(Message)] /\ cut' \in SUBSET Workers
  BY <1>1, <1>2, SaveMessagesType DEF RespondNode
<1>4. r \in Serves /\ r.at = "remember" /\ r.thread = Thread(w)
  BY <1>1, <1>2 DEF Serves, Steps, ChatSteps, Thread
<1>5. Goto(w, r) /\ UNCHANGED <<stored, started, history>>
  BY DEF RespondNode
<1> QED
  BY <1>1, <1>3, <1>4, <1>5, GotoType DEF TypeInv, At, Idle, stored, history

LEMMA RememberReadType ==
  ASSUME TypeInv, NEW w \in Workers, RememberRead(w)
  PROVE  TypeInv'
<1> DEFINE r == [request[w] EXCEPT !.at = "learn", !.known = memories]
<1>1. request[w] \in Serves /\ Thread(w) \in Threads
  BY DEF RememberRead, TypeInv, At, OnThread, ChatSteps, Thread
<1>2. r \in Serves /\ r.at = "learn" /\ r.thread = Thread(w)
  BY <1>1 DEF Serves, Steps, ChatSteps, Thread, TypeInv
<1>3. Goto(w, r) /\ UNCHANGED <<stored, saved, started, history>>
  BY DEF RememberRead
<1> QED
  BY <1>1, <1>2, <1>3, GotoType DEF TypeInv, At, Idle, stored, saved, history

LEMMA RememberPutType ==
  ASSUME TypeInv, NEW w \in Workers, RememberPut(w)
  PROVE  TypeInv'
<1> DEFINE new == [id |-> <<request[w].turn, request[w].puts>>, thread_id |-> Stamp(w)]
<1>1. request[w] \in Serves /\ Thread(w) \in Threads
  BY DEF RememberPut, TypeInv, At, OnThread, ChatSteps, Thread
<1>2. new \in Record
  BY <1>1 DEF Record, Serves, Stamp
<1>3. PICK m \in request[w].known \cup {new} :
        /\ memories' = Put(memories, m)
        /\ Goto(w, [request[w] EXCEPT !.known = @ \cup {m}, !.puts = @ + 1])
  BY DEF RememberPut
<1>4. m \in Record
  BY <1>1, <1>2 DEF Serves
<1>5. memories' \in SUBSET Record
  BY <1>3, <1>4, PutType DEF TypeInv
<1>6. request[w].puts + 1 \in 0..MaxPuts
  BY <1>1, BoundsAssumption DEF RememberPut, Serves
<1> DEFINE r == [request[w] EXCEPT !.known = @ \cup {m}, !.puts = @ + 1]
<1>7. r \in Serves /\ r.at = request[w].at /\ r.thread = Thread(w)
  BY <1>1, <1>4, <1>6 DEF Serves, Thread
<1>8. r.at # "idle" /\ UNCHANGED <<index, quarantine, saved, started, history>>
  BY <1>1, <1>7 DEF RememberPut, At
<1> QED
  BY <1>1, <1>3, <1>5, <1>7, <1>8, GotoType DEF TypeInv, At, Idle, saved, history

LEMMA RememberBlockedType ==
  ASSUME TypeInv, NEW w \in Workers, RememberBlocked(w)
  PROVE  TypeInv'
<1>1. request[w] \in Serves /\ Thread(w) \in Threads
  BY DEF RememberBlocked, TypeInv, At, OnThread, ChatSteps, Thread
<1>2. quarantine' \in SUBSET Nat
  BY <1>1 DEF RememberBlocked, TypeInv, Serves
<1>3. [request[w] EXCEPT !.at = "save"] \in Serves
  BY <1>1 DEF Serves, Steps, ChatSteps
<1> QED
  BY <1>1, <1>2, <1>3, GotoType
  DEF RememberBlocked, TypeInv, At, Idle, saved, history, Thread, Serves

LEMMA ReturnReplyType ==
  ASSUME TypeInv, NEW w \in Workers, ReturnReply(w)
  PROVE  TypeInv'
<1>1. request[w] \in Serves /\ Thread(w) \in Threads
  BY DEF ReturnReply, TypeInv, At, OnThread, ChatSteps, Thread
<1>2. transcript' \in [Threads -> Seq(Message)] /\ cut' \in SUBSET Workers
  BY <1>1, SaveSameType DEF ReturnReply
<1>3. returned' \in [Threads -> SUBSET Nat]
  BY <1>1 DEF ReturnReply, TypeInv, Serves
<1>4. NoRequest.at = "idle"
  BY DEF NoRequest
<1> QED
  BY <1>1, <1>2, <1>3, <1>4, NoRequestType, GotoType
  DEF ReturnReply, TypeInv, At, Idle, stored, OnThread, ChatSteps, ForgetThreadSteps

LEMMA ObserveType ==
  ASSUME TypeInv, NEW w \in Workers, Observe(w)
  PROVE  TypeInv'
BY DEF Observe, Begin, TypeInv, At, Idle, saved
------------------------------------------------------------------------------
LEMMA ForgetThreadType ==
  ASSUME TypeInv, NEW w \in Workers, NEW t \in Threads, ForgetThread(w, t)
  PROVE  TypeInv'
<1> DEFINE r == [NoRequest EXCEPT !.at = "thread_memories", !.thread = t,
                                  !.todo = LearnedFrom(t)]
<1>1. LearnedFrom(t) \in SUBSET Keys
  BY KeysOfMemories
<1>2. r \in Serves /\ r.at = "thread_memories" /\ r.thread = t
  BY <1>1, NoRequestType DEF Serves, Steps, ForgetThreadSteps
<1>3. Goto(w, r) /\ UNCHANGED <<stored, saved, returned>>
  BY DEF ForgetThread
<1>4. alone' \in SUBSET Workers /\ started' \in Nat
  BY DEF ForgetThread, Begin, TypeInv
<1> QED BY <1>2, <1>3, <1>4, GotoType DEF TypeInv, At, Idle, stored, saved

LEMMA ForgetUserType ==
  ASSUME TypeInv, NEW w \in Workers, ForgetUser(w)
  PROVE  TypeInv'
<1> DEFINE r == [NoRequest EXCEPT !.at = "list_memories",
                   !.threads = {t \in Threads : index[t] # "absent"}]
<1>1. r \in Serves /\ r.at = "list_memories"
  BY NoRequestType DEF Serves, Steps, ForgetUserSteps
<1>2. Goto(w, r) /\ UNCHANGED <<stored, saved, returned>>
  BY DEF ForgetUser
<1>3. alone' \in SUBSET Workers /\ started' \in Nat
  BY DEF ForgetUser, Begin, TypeInv
<1> QED
  BY <1>1, <1>2, <1>3, GotoType
  DEF TypeInv, At, Idle, stored, saved, OnThread, ChatSteps, ForgetThreadSteps

LEMMA ListType ==
  ASSUME TypeInv, NEW w \in Workers, ListMemories(w) \/ ListQuarantine(w)
  PROVE  TypeInv'
<1>1. request[w] \in Serves
  BY DEF TypeInv
<1>2. {m.id : m \in memories} \in SUBSET Keys /\ quarantine \in SUBSET Keys
  BY KeysOfMemories DEF TypeInv, Keys
<1>3. UNCHANGED <<stored, saved, started, history>>
  BY DEF ListMemories, ListQuarantine
<1>4. CASE ListMemories(w)
  <2> DEFINE r == [request[w] EXCEPT !.at = "user_memories",
                                     !.todo = AllKeys({m.id : m \in memories})]
  <2>1. r \in Serves /\ r.at = "user_memories"
    BY <1>1, <1>2 DEF Serves, Steps, ForgetUserSteps, AllKeys
  <2>2. Goto(w, r)
    BY <1>4 DEF ListMemories
  <2> QED
    BY <1>3, <2>1, <2>2, GotoType
    DEF TypeInv, At, Idle, stored, saved, history, OnThread, ChatSteps, ForgetThreadSteps
<1>5. CASE ListQuarantine(w)
  <2> DEFINE r == [request[w] EXCEPT !.at = "user_quarantine", !.todo = quarantine]
  <2>1. r \in Serves /\ r.at = "user_quarantine"
    BY <1>1, <1>2 DEF Serves, Steps, ForgetUserSteps
  <2>2. Goto(w, r)
    BY <1>5 DEF ListQuarantine
  <2> QED
    BY <1>3, <2>1, <2>2, GotoType
    DEF TypeInv, At, Idle, stored, saved, history, OnThread, ChatSteps, ForgetThreadSteps
<1> QED BY <1>4, <1>5

LEMMA DeleteKeyType ==
  ASSUME TypeInv, NEW w \in Workers, NEW k,
         DeleteMemory(w, k) \/ DeleteQuarantined(w, k)
  PROVE  TypeInv'
<1> DEFINE r == [request[w] EXCEPT !.todo = Remaining(w, k)]
<1>1. request[w] \in Serves /\ Goto(w, r)
  BY DEF TypeInv, DeleteMemory, DeleteQuarantined
<1>2. r \in Serves /\ r.at = request[w].at /\ r.thread = request[w].thread
  BY <1>1 DEF Serves, Remaining
<1>3. r.at # "idle" /\ (r.at \in OnThread => r.thread \in Threads)
  BY <1>2 DEF TypeInv, DeleteMemory, DeleteQuarantined, At
<1>4. memories' \in SUBSET Record /\ quarantine' \in SUBSET Nat
  BY DEF TypeInv, DeleteMemory, DeleteQuarantined
<1>5. UNCHANGED <<index, saved, started, history>>
  BY DEF DeleteMemory, DeleteQuarantined
<1> QED
  BY <1>1, <1>2, <1>3, <1>4, <1>5, GotoType DEF TypeInv, At, Idle, saved, history

LEMMA DropType ==
  ASSUME TypeInv, NEW t \in Threads, DropCheckpoints(t)
  PROVE  /\ transcript' \in [Threads -> Seq(Message)] /\ cut' \in SUBSET Workers
         /\ returned' \in [Threads -> SUBSET Nat]
<1>1. <<>> \in Seq(Message)
  BY EmptySeq
<1> QED BY <1>1 DEF TypeInv, DropCheckpoints, WithoutCheckpoints

LEMMA DeleteTranscriptType ==
  ASSUME TypeInv, NEW w \in Workers, DeleteTranscript(w)
  PROVE  TypeInv'
<1>1. request[w] \in Serves /\ UNCHANGED <<stored, started, alone>>
  BY DEF TypeInv, DeleteTranscript
<1>2. CASE At(w, "thread_memories") /\ DropCheckpoints(Thread(w))
           /\ Goto(w, [request[w] EXCEPT !.at = "thread_index"])
  <2>1. Thread(w) \in Threads
    BY <1>2 DEF TypeInv, At, OnThread, ForgetThreadSteps, Thread
  <2>2. [request[w] EXCEPT !.at = "thread_index"] \in Serves
    BY <1>1 DEF Serves, Steps, ForgetThreadSteps
  <2> QED
    BY <1>1, <1>2, <2>1, <2>2, DropType, GotoType
    DEF TypeInv, At, Idle, stored, Thread, Serves
<1>3. ASSUME NEW t \in request[w].threads, DropCheckpoints(t),
             Goto(w, [request[w] EXCEPT !.at = "user_index", !.thread = t])
      PROVE  TypeInv'
  <2>1. t \in Threads
    BY <1>1 DEF Serves
  <2>2. [request[w] EXCEPT !.at = "user_index", !.thread = t] \in Serves
    BY <1>1, <2>1 DEF Serves, Steps, ForgetUserSteps
  <2> QED
    BY <1>1, <1>3, <2>1, <2>2, DropType, GotoType
    DEF TypeInv, At, Idle, stored, Serves
<1> QED BY <1>2, <1>3 DEF DeleteTranscript

LEMMA DeleteIndexType ==
  ASSUME TypeInv, NEW w \in Workers, DeleteIndexEntry(w)
  PROVE  TypeInv'
<1>1. request[w] \in Serves /\ Thread(w) \in Threads
  BY DEF TypeInv, DeleteIndexEntry, At, OnThread, ForgetThreadSteps, Thread
<1>2. /\ index' \in [Threads -> {"absent", "v2", "legacy"}]
      /\ UNCHANGED <<memories, quarantine, saved, started, history>>
  BY DEF DeleteIndexEntry, TypeInv
<1>3. CASE Goto(w, [request[w] EXCEPT !.at = "thread_forgotten"])
  <2>1. [request[w] EXCEPT !.at = "thread_forgotten"] \in Serves
    BY <1>1 DEF Serves, Steps, ForgetThreadSteps
  <2> QED
    BY <1>1, <1>2, <1>3, <2>1, GotoType
    DEF TypeInv, At, Idle, saved, history, Thread, Serves
<1>4. CASE Goto(w, [request[w] EXCEPT !.at = "user_threads", !.threads = @ \ {Thread(w)}])
  <2>1. [request[w] EXCEPT !.at = "user_threads", !.threads = @ \ {Thread(w)}] \in Serves
    BY <1>1 DEF Serves, Steps, ForgetUserSteps
  <2> QED
    BY <1>1, <1>2, <1>4, <2>1, GotoType
    DEF TypeInv, At, Idle, saved, history, Thread, Serves
<1> QED BY <1>3, <1>4 DEF DeleteIndexEntry

LEMMA LeaveType ==
  ASSUME TypeInv, NEW w \in Workers, ReturnReport(w) \/ Abort(w)
  PROVE  TypeInv'
<1>1. /\ Goto(w, NoRequest) /\ alone' = alone \ {w}
      /\ UNCHANGED <<stored, saved, started, returned>>
  BY DEF ReturnReport, Abort
<1>2. NoRequest \in Serves /\ NoRequest.at = "idle" /\ NoRequest.at \notin OnThread
  BY NoRequestType DEF NoRequest, OnThread, ChatSteps, ForgetThreadSteps
<1> QED BY <1>1, <1>2, GotoType DEF TypeInv, At, Idle, stored, saved

LEMMA StepType == TypeInv /\ [Next]_vars => TypeInv'
<1> SUFFICES ASSUME TypeInv, [Next]_vars PROVE TypeInv'
  OBVIOUS
<1>1. CASE UNCHANGED vars
  BY <1>1 DEF TypeInv, vars, stored, saved, history, At, Idle
<1>2. ASSUME NEW w \in Workers, Requested(w) PROVE TypeInv'
  BY <1>2, RecordThreadType, ForgetThreadType, ObserveType, ForgetUserType DEF Requested
<1>3. ASSUME NEW w \in Workers, ChatStep(w) PROVE TypeInv'
  BY <1>3, LoadType, SaveInputType, RecallType, RespondType, RememberReadType,
     RememberPutType, RememberBlockedType, ReturnReplyType
  DEF ChatStep
<1>4. ASSUME NEW w \in Workers, DeleteStep(w) PROVE TypeInv'
  BY <1>4, ListType, DeleteKeyType, DeleteTranscriptType, DeleteIndexType, LeaveType
  DEF DeleteStep
<1>5. ASSUME NEW w \in Workers, Abort(w) PROVE TypeInv'
  BY <1>5, LeaveType
<1> QED BY <1>1, <1>2, <1>3, <1>4, <1>5 DEF Next
------------------------------------------------------------------------------
(* Steps of one request.                                                   *)

LEMMA GotoValue ==
  ASSUME TypeInv, NEW w \in Workers, NEW r, Goto(w, r)
  PROVE  request'[w] = r /\ \A v \in Workers \ {w} : request'[v] = request[v]
BY DEF TypeInv, Goto

(* Whoever moves within a request is not idle and moves nobody else; a     *)
(* chat is not a delete, and a delete stays one until it leaves.           *)
LEMMA ChatMoves ==
  ASSUME TypeInv, NEW w \in Workers, ChatStep(w)
  PROVE  /\ request[w].at \in ChatSteps /\ alone' = alone
         /\ \A v \in Workers \ {w} : request'[v] = request[v]
<1>1. request[w].at \in ChatSteps
  BY DEF ChatStep, LoadCheckpoint, SaveInput, RecallNode, RespondNode, RememberRead,
         RememberPut, RememberBlocked, ReturnReply, At, ChatSteps
<1>2. alone' = alone
  BY DEF ChatStep, LoadCheckpoint, SaveInput, RecallNode, RespondNode, RememberRead,
         RememberPut, RememberBlocked, ReturnReply, history
<1>3. \E r : Goto(w, r)
  BY DEF ChatStep, LoadCheckpoint, SaveInput, RecallNode, RespondNode, RememberRead,
         RememberPut, RememberBlocked, ReturnReply
<1> QED BY <1>1, <1>2, <1>3, GotoValue

LEMMA ChatStays ==
  ASSUME TypeInv, NEW w \in Workers, ChatStep(w)
  PROVE  request'[w].at \in ChatSteps \cup {"idle"}
<1>0. request[w] \in Serves /\ request \in [Workers -> Serves]
  BY DEF TypeInv
<1>1. CASE LoadCheckpoint(w) \/ SaveInput(w)
  BY ZenonT(60), <1>0, <1>1 DEF LoadCheckpoint, SaveInput, Serves, Goto, ChatSteps
<1>2. CASE RecallNode(w) \/ RespondNode(w)
  BY <1>0, <1>2 DEF RecallNode, RespondNode, Serves, Goto, ChatSteps
<1>3. CASE RememberRead(w) \/ RememberBlocked(w)
  BY ZenonT(60), <1>0, <1>3 DEF RememberRead, RememberBlocked, Serves, Goto, ChatSteps
<1>4. CASE RememberPut(w)
  BY <1>0, <1>4 DEF RememberPut, At, Serves, Goto, ChatSteps
<1>5. CASE ReturnReply(w)
  BY <1>0, <1>5 DEF ReturnReply, NoRequest, Goto
<1> QED BY <1>1, <1>2, <1>3, <1>4, <1>5 DEF ChatStep

Forgets == ForgetThreadSteps \cup ForgetUserSteps

LEMMA DeleteMoves ==
  ASSUME TypeInv, NEW w \in Workers, DeleteStep(w)
  PROVE  /\ request[w].at \in Forgets
         /\ \A v \in Workers \ {w} : request'[v] = request[v]
         /\ \/ alone' = alone /\ request'[w].at \in Forgets
            \/ alone' = alone \ {w} /\ request'[w] = NoRequest
<1>1. request[w].at \in Forgets
  BY DEF DeleteStep, ListMemories, ListQuarantine, DeleteMemory, DeleteQuarantined,
         DeleteTranscript, DeleteIndexEntry, ReturnReport, ThreadForgotten, UserForgotten,
         AtThreads, At, Forgets, ForgetThreadSteps, ForgetUserSteps
<1>2. \E r : Goto(w, r)
  BY DEF DeleteStep, ListMemories, ListQuarantine, DeleteMemory, DeleteQuarantined,
         DeleteTranscript, DeleteIndexEntry, ReturnReport
<1>3. request[w] \in Serves /\ request \in [Workers -> Serves]
  BY DEF TypeInv
<1>4. CASE ListMemories(w) \/ ListQuarantine(w)
  <2>1. alone' = alone
    BY <1>4 DEF ListMemories, ListQuarantine, history
  <2>2. request'[w].at \in {"user_memories", "user_quarantine"}
    BY ZenonT(60), <1>3, <1>4 DEF ListMemories, ListQuarantine, Serves, Goto
  <2> QED BY <1>1, <1>2, <2>1, <2>2, GotoValue DEF Forgets, ForgetUserSteps
<1>5. ASSUME NEW k, DeleteMemory(w, k) \/ DeleteQuarantined(w, k)
      PROVE  alone' = alone /\ request'[w].at \in Forgets
  BY <1>1, <1>3, <1>5, GotoValue DEF DeleteMemory, DeleteQuarantined, history, Serves
<1>6. CASE DeleteTranscript(w) \/ DeleteIndexEntry(w)
  <2>1. alone' = alone
    BY <1>6 DEF DeleteTranscript, DeleteIndexEntry, history
  <2>2. CASE DeleteTranscript(w)
    <3>1. request'[w].at \in {"thread_index", "user_index"}
      BY <1>3, <2>2 DEF DeleteTranscript, Serves, Goto
    <3> QED
      BY <1>1, <1>2, <2>1, <3>1, GotoValue DEF Forgets, ForgetThreadSteps, ForgetUserSteps
  <2>3. CASE DeleteIndexEntry(w)
    <3>1. request'[w].at \in {"thread_forgotten", "user_threads"}
      BY ZenonT(60), <1>3, <2>3 DEF DeleteIndexEntry, Serves, Goto
    <3> QED
      BY <1>1, <1>2, <2>1, <3>1, GotoValue DEF Forgets, ForgetThreadSteps, ForgetUserSteps
  <2> QED BY <1>6, <2>2, <2>3
<1>7. CASE ReturnReport(w)
  BY <1>1, <1>2, <1>7, GotoValue DEF ReturnReport
<1> QED BY <1>1, <1>2, <1>4, <1>5, <1>6, <1>7, GotoValue DEF DeleteStep

LEMMA AbortMoves ==
  ASSUME TypeInv, NEW w \in Workers, Abort(w)
  PROVE  /\ ~Idle(w) /\ request'[w] = NoRequest /\ alone' = alone \ {w}
         /\ \A v \in Workers \ {w} : request'[v] = request[v]
BY GotoValue DEF Abort

(* Whoever asks was idle; who is alone after that is the asking worker,    *)
(* with a delete, and all were idle.                                       *)
LEMMA RequestedMoves ==
  ASSUME TypeInv, NEW w \in Workers, Requested(w)
  PROVE  /\ Idle(w) /\ \A v \in Workers \ {w} : request'[v] = request[v]
         /\ \/ alone' = {}
            \/ /\ alone' = {w} /\ \A v \in Workers : Idle(v)
               /\ request'[w].at \in Forgets
<1>1. CASE \E t \in Threads : RecordThread(w, t)
  BY <1>1, GotoValue DEF RecordThread, Begin
<1>2. ASSUME NEW t \in Threads, ForgetThread(w, t)
      PROVE  /\ Idle(w) /\ \A v \in Workers \ {w} : request'[v] = request[v]
             /\ (alone' = {} \/ ((\A v \in Workers : Idle(v)) /\ alone' = {w}))
             /\ request'[w].at = "thread_memories"
  BY <1>2 DEF ForgetThread, Begin, NoRequest, Goto, TypeInv
<1>3. CASE Observe(w)
  BY <1>3 DEF Observe, Begin
<1>4. ASSUME ForgetUser(w)
      PROVE  /\ Idle(w) /\ \A v \in Workers \ {w} : request'[v] = request[v]
             /\ (alone' = {} \/ ((\A v \in Workers : Idle(v)) /\ alone' = {w}))
             /\ request'[w].at = "list_memories"
  BY <1>4 DEF ForgetUser, Begin, NoRequest, Goto, TypeInv
<1> QED
  BY <1>1, <1>2, <1>3, <1>4 DEF Requested, Forgets, ForgetThreadSteps, ForgetUserSteps
------------------------------------------------------------------------------
(* Replies and their messages.                                             *)

LEMMA AskPaired ==
  ASSUME NEW s \in Seq(Message), Paired(s), NEW n \in Nat
  PROVE  LET q == Append(s, Human(n))
         IN Paired(q) /\ q # <<>> /\ q[Len(q)] = Human(n)
<1> DEFINE q == Append(s, Human(n))
<1>1. Human(n) \in Message /\ Human(n).type = "human"
  BY MessageTypes DEF Human
<1>2. /\ Len(q) = Len(s) + 1 /\ q[Len(q)] = Human(n) /\ q \in Seq(Message)
      /\ \A i \in 1..Len(s) : q[i] = s[i]
  BY <1>1, AppendProperties
<1>3. Paired(q)
  BY <1>1, <1>2, LenProperties DEF Paired
<1> QED BY <1>2, <1>3, LenProperties, EmptySeq

LEMMA ReplyPaired ==
  ASSUME NEW s \in Seq(Message), Paired(s), NEW n \in Nat, s # <<>>, s[Len(s)] = Human(n)
  PROVE  Paired(Append(s, Ai(n)))
<1> DEFINE q == Append(s, Ai(n))
<1>1. Ai(n) \in Message /\ Ai(n).turn = n
  BY MessageTypes DEF Ai
<1>2. /\ Len(q) = Len(s) + 1 /\ q[Len(q)] = Ai(n) /\ q \in Seq(Message)
      /\ \A i \in 1..Len(s) : q[i] = s[i]
  BY <1>1, AppendProperties
<1>3. Len(s) \in Nat /\ Len(s) > 0 /\ DOMAIN s = 1..Len(s) /\ DOMAIN q = 1..Len(q)
  BY <1>2, LenProperties, EmptySeq
<1>4. ASSUME NEW i \in DOMAIN q, q[i].type = "ai"
      PROVE  i > 1 /\ q[i - 1] = Human(q[i].turn)
  <2>1. CASE i = Len(q)
    <3>1. i - 1 = Len(s) /\ Len(s) \in 1..Len(s)
      BY <1>2, <1>3, <2>1
    <3>2. q[i - 1] = Human(n) /\ q[i].turn = n
      BY <1>1, <1>2, <2>1, <3>1
    <3>3. i > 1
      BY <1>2, <1>3, <2>1
    <3> QED BY <3>2, <3>3
  <2>2. CASE i # Len(q)
    <3>1. i \in 1..Len(s) /\ q[i] = s[i]
      BY <1>2, <1>3, <2>2
    <3>2. i > 1 /\ s[i - 1] = Human(s[i].turn)
      BY <1>3, <1>4, <3>1 DEF Paired
    <3> QED BY <1>2, <1>3, <3>1, <3>2
  <2> QED BY <2>1, <2>2
<1> QED BY <1>4 DEF Paired

LEMMA NothingPaired == Paired(<<>>) /\ NoRequest.messages = <<>> /\ NoRequest.at = "idle"
BY DEF Paired, NoRequest

(* What the checkpoint after a node holds.                                 *)
LEMMA SaveSamePaired ==
  ASSUME TypeInv, PairedOK, NEW w \in Workers, SaveSameMessages(w)
  PROVE  \A t \in Threads : Paired(transcript'[t])
BY NothingPaired DEF TypeInv, PairedOK, SaveSameMessages

LEMMA DropPaired ==
  ASSUME TypeInv, PairedOK, NEW t \in Threads, DropCheckpoints(t)
  PROVE  \A u \in Threads : Paired(transcript'[u])
BY NothingPaired DEF TypeInv, PairedOK, DropCheckpoints, WithoutCheckpoints

LEMMA PairedKept ==
  ASSUME PairedOK, NEW w \in Workers,
         \A v \in Workers \ {w} : request'[v] = request[v],
         \A t \in Threads : Paired(transcript'[t]),
         Paired(request'[w].messages),
         request'[w].at \in Asked =>
           /\ request'[w].messages # <<>>
           /\ request'[w].messages[Len(request'[w].messages)] = Human(request'[w].turn)
  PROVE  PairedOK'
BY DEF PairedOK

LEMMA ChatPaired ==
  ASSUME TypeInv, PairedOK, NEW w \in Workers, ChatStep(w)
  PROVE  PairedOK'
<1>1. /\ request[w] \in Serves /\ Thread(w) \in Threads
      /\ request \in [Workers -> Serves]
      /\ \A v \in Workers \ {w} : request'[v] = request[v]
  BY ChatMoves DEF TypeInv, OnThread, Thread
<1>2. CASE LoadCheckpoint(w)
  <2>1. Carried(w) \in Seq(Message) /\ Paired(Carried(w)) /\ request[w].turn \in Nat
    BY <1>1 DEF Carried, TypeInv, PairedOK, Serves
  <2>2. /\ request'[w].messages = Append(Carried(w), Human(request[w].turn))
        /\ request'[w].turn = request[w].turn
    BY <1>1, <1>2 DEF LoadCheckpoint, Serves, Goto
  <2>3. transcript' = transcript
    BY <1>2 DEF LoadCheckpoint, saved
  <2> DEFINE q == Append(Carried(w), Human(request[w].turn))
  <2>4. Paired(q) /\ q # <<>> /\ q[Len(q)] = Human(request[w].turn)
    BY <2>1, AskPaired
  <2>5. \A t \in Threads : Paired(transcript'[t])
    BY <2>3 DEF PairedOK
  <2> QED BY <1>1, <2>2, <2>4, <2>5, PairedKept
<1>3. CASE SaveInput(w)
  <2>1. request'[w] = [request[w] EXCEPT !.at = "recall"] /\ At(w, "input")
    BY <1>3, GotoValue DEF SaveInput
  <2>2. \A t \in Threads : Paired(transcript'[t])
    BY <1>1, <1>3 DEF SaveInput, SaveMessages, PairedOK, TypeInv
  <2> QED BY <1>1, <2>1, <2>2, PairedKept DEF PairedOK, At, Asked, Serves
<1>4. CASE RecallNode(w)
  <2>1. request'[w] = [request[w] EXCEPT !.at = "respond"] /\ At(w, "recall")
    BY <1>4, GotoValue DEF RecallNode
  <2>2. \A t \in Threads : Paired(transcript'[t])
    BY <1>4, SaveSamePaired DEF RecallNode
  <2> QED BY <1>1, <2>1, <2>2, PairedKept DEF PairedOK, At, Asked, Serves
<1>5. CASE RespondNode(w)
  <2> DEFINE messages == Append(request[w].messages, Ai(request[w].turn))
  <2>1. Paired(messages)
    BY <1>1, <1>5, ReplyPaired DEF RespondNode, At, PairedOK, Asked, Serves
  <2>2. request'[w].messages = messages /\ request'[w].at = "remember"
    BY <1>1, <1>5 DEF RespondNode, Answered, Serves, Goto
  <2>3. \A t \in Threads : Paired(transcript'[t])
    BY <1>1, <1>5, <2>1 DEF RespondNode, SaveMessages, Answered, PairedOK, TypeInv
  <2> QED BY <1>1, <2>1, <2>2, <2>3, PairedKept DEF Asked
<1>6. CASE RememberRead(w) \/ RememberPut(w) \/ RememberBlocked(w)
  <2>1. /\ request'[w].messages = request[w].messages
        /\ request'[w].at \in {"learn", "save"}
    BY ZenonT(60), <1>1, <1>6 DEF RememberRead, RememberPut, RememberBlocked, At, Serves, Goto
  <2>2. transcript' = transcript
    BY <1>6 DEF RememberRead, RememberPut, RememberBlocked, saved
  <2> QED BY <1>1, <2>1, <2>2, PairedKept DEF Asked, PairedOK
<1>7. CASE ReturnReply(w)
  BY <1>1, <1>7, SaveSamePaired, GotoValue, NothingPaired, PairedKept DEF ReturnReply, Asked
<1> QED BY <1>2, <1>3, <1>4, <1>5, <1>6, <1>7 DEF ChatStep

LEMMA DeletePaired ==
  ASSUME TypeInv, PairedOK, NEW w \in Workers, DeleteStep(w)
  PROVE  PairedOK'
<1>1. /\ request[w] \in Serves /\ request'[w].at \notin Asked
      /\ request \in [Workers -> Serves]
      /\ \A v \in Workers \ {w} : request'[v] = request[v]
  BY DeleteMoves, NothingPaired
  DEF TypeInv, Forgets, ForgetThreadSteps, ForgetUserSteps, Asked
<1>2. CASE DeleteTranscript(w)
  <2>1. request'[w].messages = request[w].messages
    BY <1>1, <1>2 DEF DeleteTranscript, Serves, Goto
  <2>2. \E t \in Threads : DropCheckpoints(t)
    BY <1>1, <1>2 DEF DeleteTranscript, TypeInv, At, OnThread, ForgetThreadSteps, Thread, Serves
  <2> QED BY <1>1, <2>1, <2>2, DropPaired, PairedKept DEF PairedOK
<1>3. CASE ~DeleteTranscript(w)
  <2>1. transcript' = transcript
    BY <1>3 DEF DeleteStep, ListMemories, ListQuarantine, DeleteMemory, DeleteQuarantined,
                DeleteIndexEntry, ReturnReport, saved
  <2>2. request'[w].messages \in {request[w].messages, <<>>}
    <3>1. CASE ListMemories(w) \/ ListQuarantine(w)
      BY <1>1, <3>1 DEF ListMemories, ListQuarantine, Serves, Goto
    <3>2. ASSUME NEW k, DeleteMemory(w, k) \/ DeleteQuarantined(w, k)
          PROVE  request'[w].messages = request[w].messages
      BY <1>1, <3>2 DEF DeleteMemory, DeleteQuarantined, Serves, Goto
    <3>3. CASE DeleteIndexEntry(w)
      BY <1>1, <3>3 DEF DeleteIndexEntry, Serves, Goto
    <3>4. CASE ReturnReport(w)
      BY <1>1, <3>4, NothingPaired DEF ReturnReport, Goto
    <3> QED BY <1>3, <3>1, <3>2, <3>3, <3>4 DEF DeleteStep
  <2> QED BY <1>1, <2>1, <2>2, NothingPaired, PairedKept DEF PairedOK
<1> QED BY <1>2, <1>3

LEMMA StepPaired == TypeInv /\ PairedOK /\ [Next]_vars => PairedOK'
<1> SUFFICES ASSUME TypeInv, PairedOK, [Next]_vars PROVE PairedOK'
  OBVIOUS
<1>1. CASE UNCHANGED vars
  BY <1>1 DEF PairedOK, Paired, Human, vars, saved
<1>2. ASSUME NEW w \in Workers, Requested(w) PROVE PairedOK'
  <2>0. request \in [Workers -> Serves]
    BY DEF TypeInv
  <2>1. transcript' = transcript /\ Idle(w)
        /\ \A v \in Workers \ {w} : request'[v] = request[v]
    BY <1>2, RequestedMoves DEF Requested, RecordThread, ForgetThread, Observe, ForgetUser, saved
  <2>2. request'[w].messages = <<>> /\ request'[w].at \notin Asked
    <3>1. CASE \E t \in Threads : RecordThread(w, t)
      BY <2>0, <3>1 DEF RecordThread, NoRequest, Asked, Goto
    <3>2. CASE \E t \in Threads : ForgetThread(w, t)
      BY <2>0, <3>2 DEF ForgetThread, NoRequest, Asked, Goto
    <3>3. CASE ForgetUser(w)
      BY <2>0, <3>3 DEF ForgetUser, NoRequest, Asked, Goto
    <3>4. CASE Observe(w)
      BY <2>1, <3>4 DEF Observe, NoRequest, Asked, Idle
    <3> QED BY <1>2, <3>1, <3>2, <3>3, <3>4 DEF Requested
  <2> QED BY <2>1, <2>2, NothingPaired, PairedKept DEF PairedOK
<1>3. ASSUME NEW w \in Workers, ChatStep(w) PROVE PairedOK'
  BY <1>3, ChatPaired
<1>4. ASSUME NEW w \in Workers, DeleteStep(w) PROVE PairedOK'
  BY <1>4, DeletePaired
<1>5. ASSUME NEW w \in Workers, Abort(w) PROVE PairedOK'
  <2>1. transcript' = transcript
    BY <1>5 DEF Abort, saved
  <2> QED BY <1>5, <2>1, AbortMoves, NothingPaired, PairedKept DEF PairedOK, Asked
<1> QED BY <1>1, <1>2, <1>3, <1>4, <1>5 DEF Next
------------------------------------------------------------------------------
(* Legacy entries.                                                         *)

LEMMA LegacyShrinks ==
  ASSUME TypeInv, [Next]_vars, NEW t \in Threads, index'[t] = "legacy"
  PROVE  IsLegacy(t)
<1>1. CASE index' = index
  BY <1>1 DEF IsLegacy
<1>2. CASE index' # index
  <2>1. PICK w \in Workers : (\E u \in Threads : RecordThread(w, u)) \/ DeleteIndexEntry(w)
    BY <1>2
    DEF Next, Requested, ChatStep, DeleteStep, ForgetThread, Observe, ForgetUser,
        LoadCheckpoint, SaveInput, RecallNode, RespondNode, RememberRead, RememberPut,
        RememberBlocked, ReturnReply, ListMemories, ListQuarantine, DeleteMemory,
        DeleteQuarantined, DeleteTranscript, ReturnReport, Abort, vars, stored
  <2> QED BY <2>1 DEF RecordThread, DeleteIndexEntry, Indexed, IsLegacy, TypeInv
<1> QED BY <1>1, <1>2

(* A delete under way began with its checks and keeps its conversation.    *)
LEMMA DeleteSince ==
  ASSUME TypeInv, NEW w \in Workers,
         Requested(w) \/ ChatStep(w) \/ DeleteStep(w) \/ Abort(w),
         request'[w].at \in Forgets
  PROVE  /\ request'[w].at \in ForgetUserSteps =>
              request[w].at \in ForgetUserSteps \/ ForgetUser(w)
         /\ request'[w].at \in ForgetThreadSteps =>
              \/ request[w].at \in ForgetThreadSteps /\ request'[w].thread = request[w].thread
              \/ \E t \in Threads : ForgetThread(w, t) /\ request'[w].thread = t
<1>1. request[w] \in Serves /\ request \in [Workers -> Serves]
  BY DEF TypeInv
<1>2. CASE Requested(w)
  <2>1. ASSUME NEW t \in Threads, RecordThread(w, t) PROVE request'[w].at = "load"
    BY <1>1, <2>1 DEF RecordThread, NoRequest, Goto
  <2>2. ASSUME NEW t \in Threads, ForgetThread(w, t)
        PROVE  request'[w].at = "thread_memories" /\ request'[w].thread = t
    BY <1>1, <2>2 DEF ForgetThread, NoRequest, Goto
  <2>3. ASSUME Observe(w) PROVE request'[w].at = "idle"
    BY <1>1, <2>3 DEF Observe, Begin, Idle, NoRequest
  <2>4. ASSUME ForgetUser(w) PROVE request'[w].at = "list_memories"
    BY <1>1, <2>4 DEF ForgetUser, NoRequest, Goto
  <2> QED
    BY <1>2, <2>1, <2>2, <2>3, <2>4
    DEF Requested, Forgets, ForgetThreadSteps, ForgetUserSteps
<1>3. CASE ChatStep(w)
  <2>1. request'[w].at \in ChatSteps \cup {"idle"}
    BY <1>3, ChatStays
  <2> QED BY <2>1 DEF Forgets, ForgetThreadSteps, ForgetUserSteps, ChatSteps
<1>4. CASE DeleteStep(w)
  <2>1. CASE ListMemories(w)
    BY <1>1, <2>1 DEF ListMemories, At, Serves, Goto, ForgetThreadSteps, ForgetUserSteps
  <2>2. CASE ListQuarantine(w)
    BY <1>1, <2>2 DEF ListQuarantine, At, Serves, Goto, ForgetThreadSteps, ForgetUserSteps
  <2>3. ASSUME NEW k, DeleteMemory(w, k) \/ DeleteQuarantined(w, k)
        PROVE  /\ request'[w].at = request[w].at
               /\ request'[w].thread = request[w].thread
    BY <1>1, <2>3 DEF DeleteMemory, DeleteQuarantined, Serves, Goto
  <2>4. CASE DeleteTranscript(w)
    <3>1. CASE At(w, "thread_memories")
               /\ Goto(w, [request[w] EXCEPT !.at = "thread_index"])
      BY <1>1, <3>1 DEF At, Serves, Goto, ForgetThreadSteps, ForgetUserSteps
    <3>2. ASSUME NEW t, AtThreads(w),
                 Goto(w, [request[w] EXCEPT !.at = "user_index", !.thread = t])
          PROVE  request'[w].at = "user_index" /\ request[w].at \in ForgetUserSteps
      BY <1>1, <3>2 DEF AtThreads, At, Serves, Goto, ForgetUserSteps
    <3> QED BY <2>4, <3>1, <3>2 DEF DeleteTranscript, ForgetThreadSteps
  <2>5. CASE DeleteIndexEntry(w)
    <3>1. CASE At(w, "thread_index")
               /\ Goto(w, [request[w] EXCEPT !.at = "thread_forgotten"])
      BY <1>1, <3>1 DEF At, Serves, Goto, ForgetThreadSteps, ForgetUserSteps
    <3>2. CASE At(w, "user_index")
               /\ Goto(w, [request[w] EXCEPT !.at = "user_threads",
                                             !.threads = @ \ {Thread(w)}])
      BY <1>1, <3>2 DEF At, Serves, Goto, ForgetThreadSteps, ForgetUserSteps
    <3> QED BY <2>5, <3>1, <3>2 DEF DeleteIndexEntry
  <2>6. CASE ReturnReport(w)
    BY <1>1, <2>6 DEF ReturnReport, NoRequest, Goto, Forgets, ForgetThreadSteps, ForgetUserSteps
  <2> QED
    BY <1>4, <2>1, <2>2, <2>3, <2>4, <2>5, <2>6
    DEF DeleteStep, ForgetThreadSteps, ForgetUserSteps, Forgets
<1>5. CASE Abort(w)
  BY <1>1, <1>5 DEF Abort, NoRequest, Goto, Forgets, ForgetThreadSteps, ForgetUserSteps
<1> QED BY <1>2, <1>3, <1>4, <1>5

LEMMA StepLegacy == TypeInv /\ LegacyOK /\ [Next]_vars => LegacyOK'
<1> SUFFICES ASSUME TypeInv, LegacyOK, [Next]_vars PROVE LegacyOK'
  OBVIOUS
<1> SUFFICES ASSUME NEW v \in Workers, request'[v].at \in Forgets
             PROVE  /\ request'[v].at \in ForgetUserSteps =>
                         \A t \in Threads : ~IsLegacy(t)
                    /\ request'[v].at \in ForgetThreadSteps =>
                         request'[v].thread \in Threads /\ ~IsLegacy(request'[v].thread)
  <2>1. \A t \in Threads : index'[t] = "legacy" => IsLegacy(t)
    BY LegacyShrinks
  <2> QED BY <2>1 DEF LegacyOK, Forgets, IsLegacy, Thread
<1>1. CASE request'[v] = request[v]
  BY <1>1 DEF LegacyOK, TypeInv, OnThread, Thread
<1>2. CASE request'[v] # request[v]
  <2>1. PICK w \in Workers : Requested(w) \/ ChatStep(w) \/ DeleteStep(w) \/ Abort(w)
    BY <1>2 DEF Next, vars
  <2>2. v = w
    BY <1>2, <2>1, RequestedMoves, ChatMoves, DeleteMoves, AbortMoves
  <2>3. /\ request'[v].at \in ForgetUserSteps =>
             request[v].at \in ForgetUserSteps \/ ForgetUser(v)
        /\ request'[v].at \in ForgetThreadSteps =>
             \/ request[v].at \in ForgetThreadSteps /\ request'[v].thread = request[v].thread
             \/ \E t \in Threads : ForgetThread(v, t) /\ request'[v].thread = t
    BY <2>1, <2>2, DeleteSince
  <2>4. request[v].at \in ForgetThreadSteps => request[v].thread \in Threads
    BY DEF TypeInv, OnThread
  <2> QED BY <2>3, <2>4 DEF LegacyOK, ForgetUser, ForgetThread, Thread
<1> QED BY <1>1, <1>2
------------------------------------------------------------------------------
(* Deletes that are alone.                                                 *)

LEMMA BusyMoves ==
  ASSUME TypeInv, NEW w \in Workers, ChatStep(w) \/ DeleteStep(w) \/ Abort(w)
  PROVE  request[w] # NoRequest
<1>1. NoRequest.at = "idle"
  BY DEF NoRequest
<1>2. ASSUME ChatStep(w) PROVE request[w] # NoRequest
  BY <1>1, <1>2, ChatMoves DEF ChatSteps
<1>3. ASSUME DeleteStep(w) PROVE request[w] # NoRequest
  <2>1. request[w].at \in Forgets
    BY <1>3, DeleteMoves
  <2> QED BY <1>1, <2>1 DEF Forgets, ForgetThreadSteps, ForgetUserSteps
<1>4. ASSUME Abort(w) PROVE request[w] # NoRequest
  BY <1>4, AbortMoves DEF Idle
<1> QED BY <1>2, <1>3, <1>4

LEMMA AloneShrinks ==
  ASSUME TypeInv, NEW w \in Workers, ChatStep(w) \/ DeleteStep(w) \/ Abort(w)
  PROVE  alone' \subseteq alone
<1>1. ASSUME ChatStep(w) PROVE alone' \subseteq alone
  BY <1>1, ChatMoves
<1>2. ASSUME DeleteStep(w) PROVE alone' \subseteq alone
  <2>1. alone' = alone \/ alone' = alone \ {w}
    BY <1>2, DeleteMoves
  <2> QED BY <2>1
<1>3. ASSUME Abort(w) PROVE alone' \subseteq alone
  BY <1>3, AbortMoves
<1> QED BY <1>1, <1>2, <1>3

LEMMA StepAlone == TypeInv /\ AloneOK /\ [Next]_vars => AloneOK'
<1> SUFFICES ASSUME TypeInv, AloneOK, [Next]_vars, NEW v \in alone'
             PROVE  /\ request'[v].at \in Forgets
                    /\ \A u \in Workers \ {v} : request'[u] = NoRequest
  BY DEF AloneOK, Forgets, Idle
<1> USE DEF Idle
<1>1. CASE UNCHANGED vars
  BY <1>1 DEF AloneOK, Forgets, vars, history
<1>2. ASSUME NEW w \in Workers, Requested(w)
      PROVE  /\ request'[v].at \in Forgets
             /\ \A u \in Workers \ {v} : request'[u] = NoRequest
  BY <1>2, RequestedMoves
<1>3. ASSUME NEW w \in Workers, ChatStep(w) \/ DeleteStep(w) \/ Abort(w)
      PROVE  /\ request'[v].at \in Forgets
             /\ \A u \in Workers \ {v} : request'[u] = NoRequest
  <2>1. request[w] # NoRequest
    BY <1>3, BusyMoves
  <2>2. v \in alone
    BY <1>3, AloneShrinks
  <2>3. v = w /\ request[w].at \in Forgets
    BY <2>1, <2>2 DEF AloneOK, Forgets
  <2>4. DeleteStep(w) /\ request'[w].at \in Forgets
    BY <1>3, <2>3, ChatMoves, DeleteMoves, AbortMoves
    DEF Forgets, ForgetThreadSteps, ForgetUserSteps, ChatSteps
  <2>5. \A u \in Workers \ {v} : request[u] = NoRequest /\ request'[u] = request[u]
    BY <2>2, <2>3, <2>4, DeleteMoves DEF AloneOK
  <2> QED BY <2>3, <2>4, <2>5
<1> QED BY <1>1, <1>2, <1>3 DEF Next

(* Who is undisturbed after a step took it, or began with it.              *)
LEMMA OnlyItsOwn ==
  ASSUME TypeInv, AloneOK, NEW w \in Workers,
         Requested(w) \/ ChatStep(w) \/ DeleteStep(w) \/ Abort(w),
         NEW v \in Workers, Undisturbed(v)'
  PROVE  v = w /\ (Undisturbed(w) \/ Idle(w))
<1>1. CASE OneWorker
  BY <1>1 DEF OneWorker, Undisturbed
<1>2. CASE ~OneWorker
  <2>1. v \in alone'
    BY <1>2 DEF OneWorker, Undisturbed
  <2>2. CASE Requested(w)
    BY <2>1, <2>2, RequestedMoves
  <2>3. CASE ChatStep(w) \/ DeleteStep(w) \/ Abort(w)
    <3>1. ~Idle(w)
      BY <2>3, BusyMoves DEF Idle
    <3>2. v \in alone
      BY <2>1, <2>3, AloneShrinks
    <3> QED BY <3>1, <3>2 DEF AloneOK, Undisturbed
  <2> QED BY <2>2, <2>3
<1> QED BY <1>1, <1>2
------------------------------------------------------------------------------
(* What an undisturbed delete knows.                                       *)

LEMMA ForgetsKnow ==
  ASSUME TypeInv, NEW w \in Workers, Idle(w), Requested(w)
  PROVE  KnowsAll(w)'
<1>1. request \in [Workers -> Serves]
  BY DEF TypeInv
<1>2. ASSUME NEW t \in Threads, RecordThread(w, t) PROVE KnowsAll(w)'
  <2>1. request'[w].at = "load"
    BY <1>1, <1>2 DEF RecordThread, NoRequest, Goto
  <2> QED BY <2>1 DEF KnowsAll, ForgetUserSteps
<1>3. ASSUME NEW t \in Threads, ForgetThread(w, t) PROVE KnowsAll(w)'
  <2>1. /\ request'[w].at = "thread_memories" /\ request'[w].thread = t
        /\ request'[w].todo = LearnedFrom(t)
    BY <1>1, <1>3 DEF ForgetThread, NoRequest, Goto
  <2>2. memories' = memories
    BY <1>3 DEF ForgetThread, stored
  <2> QED BY <2>1, <2>2 DEF KnowsAll, ForgetUserSteps, LearnedFrom
<1>4. ASSUME Observe(w) PROVE KnowsAll(w)'
  <2>1. request'[w].at = "idle"
    BY <1>4 DEF Observe, Idle, NoRequest
  <2> QED BY <2>1 DEF KnowsAll, ForgetUserSteps
<1>5. ASSUME ForgetUser(w) PROVE KnowsAll(w)'
  <2>1. /\ request'[w].at = "list_memories"
        /\ request'[w].threads = {t \in Threads : index[t] # "absent"}
    BY <1>1, <1>5 DEF ForgetUser, NoRequest, Goto
  <2>2. index' = index
    BY <1>5 DEF ForgetUser, stored
  <2> QED BY <2>1, <2>2 DEF KnowsAll
<1> QED BY <1>2, <1>3, <1>4, <1>5 DEF Requested

LEMMA DeletesKnow ==
  ASSUME TypeInv, NEW w \in Workers, KnowsAll(w), DeleteStep(w)
  PROVE  KnowsAll(w)'
<1>1. request[w] \in Serves /\ request \in [Workers -> Serves]
  BY DEF TypeInv
<1>2. CASE ListMemories(w)
  <2>1. /\ request'[w].at = "user_memories" /\ request'[w].threads = request[w].threads
        /\ request'[w].todo = {m.id : m \in memories} /\ At(w, "list_memories")
    BY <1>1, <1>2 DEF ListMemories, Serves, Goto, AllKeys
  <2>2. UNCHANGED <<index, memories, quarantine>>
    BY <1>2 DEF ListMemories, stored
  <2> QED BY <2>1, <2>2 DEF KnowsAll, At, ForgetUserSteps
<1>3. CASE ListQuarantine(w)
  <2>1. /\ request'[w].at = "user_quarantine" /\ request'[w].threads = request[w].threads
        /\ request'[w].todo = quarantine
        /\ At(w, "user_memories") /\ request[w].todo = {}
    BY <1>1, <1>3 DEF ListQuarantine, Serves, Goto
  <2>2. UNCHANGED <<index, memories, quarantine>>
    BY <1>3 DEF ListQuarantine, stored
  <2>3. memories = {}
    BY <2>1 DEF KnowsAll, At
  <2> QED BY <2>1, <2>2, <2>3 DEF KnowsAll, At, ForgetUserSteps
<1>4. ASSUME NEW k, DeleteMemory(w, k) PROVE KnowsAll(w)'
  <2>1. /\ request'[w].at = request[w].at /\ request'[w].threads = request[w].threads
        /\ request'[w].thread = request[w].thread
        /\ request'[w].todo = request[w].todo \ {k}
        /\ request[w].at \in {"thread_memories", "user_memories"}
    BY <1>1, <1>4 DEF DeleteMemory, Serves, Goto, Remaining, At
  <2>2. memories' = {m \in memories : m.id # k} /\ UNCHANGED <<index, quarantine>>
    BY <1>4 DEF DeleteMemory
  <2>3. request[w].at = "thread_memories" =>
          \A m \in memories' : m.thread_id = request[w].thread => m.id \in request[w].todo \ {k}
    BY <2>2 DEF KnowsAll, LearnedFrom
  <2>4. request[w].at = "user_memories" =>
          \A m \in memories' : m.id \in request[w].todo \ {k}
    BY <2>2 DEF KnowsAll
  <2> QED BY <2>1, <2>2, <2>3, <2>4 DEF KnowsAll, LearnedFrom, ForgetUserSteps
<1>5. ASSUME NEW k, DeleteQuarantined(w, k) PROVE KnowsAll(w)'
  <2>1. /\ request'[w].at = "user_quarantine" /\ request[w].at = "user_quarantine"
        /\ request'[w].threads = request[w].threads
        /\ request'[w].todo = request[w].todo \ {k}
    BY <1>1, <1>5 DEF DeleteQuarantined, Serves, Goto, Remaining, At
  <2>2. quarantine' = quarantine \ {k} /\ UNCHANGED <<index, memories>>
    BY <1>5 DEF DeleteQuarantined
  <2> QED BY <2>1, <2>2 DEF KnowsAll, ForgetUserSteps
<1>6. CASE DeleteTranscript(w)
  <2>1. UNCHANGED <<index, memories, quarantine>>
    BY <1>6 DEF DeleteTranscript, stored
  <2>2. CASE /\ At(w, "thread_memories") /\ request[w].todo = {}
             /\ Goto(w, [request[w] EXCEPT !.at = "thread_index"])
    <3>1. request'[w].at = "thread_index" /\ request'[w].thread = request[w].thread
      BY <1>1, <2>2 DEF Serves, Goto
    <3>2. LearnedFrom(request[w].thread) = {}
      BY <2>2 DEF KnowsAll, At
    <3> QED BY <2>1, <3>1, <3>2 DEF KnowsAll, LearnedFrom, ForgetUserSteps
  <2>3. ASSUME NEW t, AtThreads(w),
               Goto(w, [request[w] EXCEPT !.at = "user_index", !.thread = t])
        PROVE  KnowsAll(w)'
    <3>1. request'[w].at = "user_index" /\ request'[w].threads = request[w].threads
      BY <1>1, <2>3 DEF Serves, Goto
    <3>2. /\ memories = {} /\ quarantine = {}
          /\ \A u \in Threads : index[u] # "absent" => u \in request[w].threads
      BY <2>3 DEF KnowsAll, AtThreads, At, ForgetUserSteps
    <3> QED BY <2>1, <3>1, <3>2 DEF KnowsAll
  <2> QED BY <1>6, <2>2, <2>3 DEF DeleteTranscript
<1>7. CASE DeleteIndexEntry(w)
  <2>1. /\ UNCHANGED <<memories, quarantine>>
        /\ index' = [index EXCEPT ![Thread(w)] = "absent"]
    BY <1>7 DEF DeleteIndexEntry
  <2>2. index \in [Threads -> {"absent", "v2", "legacy"}]
    BY DEF TypeInv
  <2>3. CASE /\ At(w, "thread_index")
             /\ Goto(w, [request[w] EXCEPT !.at = "thread_forgotten"])
    <3>1. request'[w].at = "thread_forgotten" /\ request'[w].thread = request[w].thread
      BY <1>1, <2>3 DEF Serves, Goto
    <3>2. LearnedFrom(request[w].thread) = {} /\ request[w].thread \in Threads
      BY <2>3 DEF KnowsAll, At, TypeInv, OnThread, ForgetThreadSteps
    <3> QED
      BY <2>1, <2>2, <3>1, <3>2 DEF KnowsAll, LearnedFrom, ForgetUserSteps, Thread
  <2>4. CASE /\ At(w, "user_index")
             /\ Goto(w, [request[w] EXCEPT !.at = "user_threads",
                                           !.threads = @ \ {Thread(w)}])
    <3>1. /\ request'[w].at = "user_threads"
          /\ request'[w].threads = request[w].threads \ {Thread(w)}
      BY <1>1, <2>4 DEF Serves, Goto
    <3>2. /\ memories = {} /\ quarantine = {}
          /\ \A u \in Threads : index[u] # "absent" => u \in request[w].threads
      BY <2>4 DEF KnowsAll, At, ForgetUserSteps
    <3> QED BY <2>1, <2>2, <3>1, <3>2 DEF KnowsAll
  <2> QED BY <1>7, <2>3, <2>4 DEF DeleteIndexEntry
<1>8. CASE ReturnReport(w)
  <2>1. request'[w].at = "idle"
    BY <1>1, <1>8 DEF ReturnReport, Goto, NoRequest
  <2> QED BY <2>1 DEF KnowsAll, ForgetUserSteps
<1> QED BY <1>2, <1>3, <1>4, <1>5, <1>6, <1>7, <1>8 DEF DeleteStep

LEMMA StepErase == TypeInv /\ AloneOK /\ EraseOK /\ [Next]_vars => EraseOK'
<1> SUFFICES ASSUME TypeInv, AloneOK, EraseOK, [Next]_vars PROVE EraseOK'
  OBVIOUS
<1>1. CASE UNCHANGED vars
  BY <1>1 DEF EraseOK, Undisturbed, OneWorker, KnowsAll, LearnedFrom, vars, stored, history
<1>2. ASSUME NEW w \in Workers, Requested(w) \/ ChatStep(w) \/ DeleteStep(w) \/ Abort(w)
      PROVE  EraseOK'
  <2> SUFFICES ASSUME NEW v \in Workers, Undisturbed(v)' PROVE KnowsAll(v)'
    BY DEF EraseOK
  <2>1. v = w /\ (KnowsAll(w) \/ Idle(w))
    BY <1>2, OnlyItsOwn DEF EraseOK
  <2>2. CASE Requested(w)
    BY <2>1, <2>2, RequestedMoves, ForgetsKnow
  <2>3. CASE ChatStep(w)
    <3>1. request'[w].at \in ChatSteps \cup {"idle"}
      BY <2>3, ChatStays
    <3> QED BY <2>1, <3>1 DEF KnowsAll, ChatSteps, ForgetUserSteps
  <2>4. CASE DeleteStep(w)
    <3>1. ~Idle(w)
      BY <2>4, BusyMoves DEF Idle
    <3> QED BY <2>1, <2>4, <3>1, DeletesKnow
  <2>5. CASE Abort(w)
    <3>1. request'[w].at = "idle"
      BY <2>5, AbortMoves DEF NoRequest
    <3> QED BY <2>1, <3>1 DEF KnowsAll, ForgetUserSteps
  <2> QED BY <1>2, <2>2, <2>3, <2>4, <2>5
<1> QED BY <1>1, <1>2 DEF Next
------------------------------------------------------------------------------
(* Requests that are served one at a time.                                 *)

LEMMA AppendRange ==
  ASSUME NEW s \in Seq(Message), NEW e \in Message
  PROVE  Range(Append(s, e)) = Range(s) \cup {e}
<1> DEFINE q == Append(s, e)
<1>1. /\ q \in Seq(Message) /\ Len(q) = Len(s) + 1 /\ q[Len(s) + 1] = e
      /\ \A i \in 1..Len(s) : q[i] = s[i]
  BY AppendProperties
<1>2. DOMAIN s = 1..Len(s) /\ DOMAIN q = 1..(Len(s) + 1) /\ Len(s) \in Nat
  BY <1>1, LenProperties
<1>3. ASSUME NEW x \in Range(q) PROVE x \in Range(s) \cup {e}
  <2>1. PICK i \in 1..(Len(s) + 1) : x = q[i]
    BY <1>2 DEF Range
  <2>2. i = Len(s) + 1 \/ i \in 1..Len(s)
    BY <1>2
  <2> QED BY <1>1, <1>2, <2>1, <2>2 DEF Range
<1>4. ASSUME NEW x \in Range(s) PROVE x \in Range(q)
  <2>1. PICK i \in 1..Len(s) : x = s[i]
    BY <1>2 DEF Range
  <2>2. i \in DOMAIN q /\ x = q[i]
    BY <1>1, <1>2, <2>1
  <2> QED BY <2>2 DEF Range
<1>5. e \in Range(q)
  <2>1. Len(s) + 1 \in DOMAIN q
    BY <1>2
  <2> QED BY <1>1, <2>1 DEF Range
<1> QED BY <1>3, <1>4, <1>5

LEMMA LastInRange ==
  ASSUME NEW s \in Seq(Message), s # <<>>
  PROVE  s[Len(s)] \in Range(s)
<1>1. Len(s) \in DOMAIN s
  BY LenProperties, EmptySeq
<1> QED BY <1>1 DEF Range

(* Nothing is lost, so long as no transcript loses messages.               *)
Grow(t) == Range(transcript[t]) \subseteq Range(transcript'[t])

LEMMA OneThreadSaved ==
  ASSUME TypeInv, NEW t \in Threads, NEW messages,
         transcript' = [transcript EXCEPT ![t] = messages],
         Range(transcript[t]) \subseteq Range(messages)
  PROVE  \A u \in Threads : Grow(u)
BY DEF TypeInv, Grow

(* The conversation served, when the transcript is as the chat knows it.   *)
LEMMA SoloChat ==
  ASSUME TypeInv, PairedOK, OneWorker, SoloOK, NEW w \in Workers, ChatStep(w)
  PROVE  SoloOK'
<1>1. /\ request[w] \in Serves /\ request \in [Workers -> Serves]
      /\ request[w].thread \in Threads /\ transcript \in [Threads -> Seq(Message)]
      /\ index[request[w].thread] = "v2" /\ index' = index
      /\ request[w].messages \in Seq(Message) /\ request[w].turn \in Nat
  <2>1. index' = index
    BY DEF ChatStep, LoadCheckpoint, SaveInput, RecallNode, RespondNode, RememberRead,
           RememberPut, RememberBlocked, ReturnReply, stored
  <2> QED BY <2>1, ChatMoves DEF TypeInv, OnThread, SoloOK, ChatKnows, Serves
<1>2. cut = {} /\ TranscriptIndexed /\ ReturnedTurnIsKept /\ ChatKnows(w)
  BY DEF SoloOK
<1> DEFINE text == transcript[request[w].thread]
<1>3. SUFFICES /\ cut' = {} /\ \A t \in Threads : Grow(t)
               /\ \A t \in Threads : t # request[w].thread => transcript'[t] = transcript[t]
               /\ ReturnedTurnIsKept' /\ ChatKnows(w)'
  <2>1. TranscriptIndexed'
    BY <1>1, <1>2, <1>3 DEF TranscriptIndexed
  <2> QED BY <1>3, <2>1 DEF SoloOK, OneWorker
<1>4. CASE LoadCheckpoint(w)
  <2> DEFINE q == Append(text, Human(request[w].turn))
  <2>1. /\ request'[w].messages = q /\ request'[w].at = "input"
        /\ request'[w].thread = request[w].thread /\ request'[w].turn = request[w].turn
    BY <1>1, <1>4 DEF LoadCheckpoint, Serves, Goto, Carried, Thread
  <2>2. UNCHANGED <<transcript, cut, returned>>
    BY <1>4 DEF LoadCheckpoint, saved, history
  <2>3. Range(text) \subseteq Range(q)
    BY <1>1, MessageTypes, AppendRange
  <2>4. ChatKnows(w)'
    BY <1>1, <2>1, <2>2, <2>3 DEF ChatKnows, Replied
  <2> QED BY <1>2, <2>2, <2>4 DEF Grow, ReturnedTurnIsKept
<1>5. CASE SaveInput(w)
  <2>1. /\ request'[w] = [request[w] EXCEPT !.at = "recall"] /\ At(w, "input")
        /\ transcript' = [transcript EXCEPT ![request[w].thread] = request[w].messages]
        /\ cut' = {} /\ returned' = returned
    BY <1>1, <1>2, <1>5 DEF SaveInput, SaveMessages, Goto, Thread, history
  <2>2. Human(request[w].turn) \in Range(request[w].messages)
    BY <1>1, <2>1, LastInRange DEF PairedOK, At, Asked
  <2>3. Range(text) \subseteq Range(request[w].messages)
    BY <1>2, <2>1 DEF ChatKnows, At
  <2>4. \A t \in Threads : Grow(t)
    BY <1>1, <2>1, <2>3, OneThreadSaved
  <2>5. ReturnedTurnIsKept'
    BY <1>2, <2>1, <2>4 DEF ReturnedTurnIsKept, Grow
  <2>6. ChatKnows(w)'
    BY <1>1, <2>1, <2>2 DEF ChatKnows, Replied, Serves
  <2> QED BY <1>1, <2>1, <2>4, <2>5, <2>6
<1>6. CASE RecallNode(w)
  <2>1. /\ request'[w] = [request[w] EXCEPT !.at = "respond"] /\ At(w, "recall")
        /\ transcript' = [transcript EXCEPT ![request[w].thread] = request[w].messages]
        /\ cut' = {} /\ returned' = returned
    BY <1>1, <1>2, <1>6 DEF RecallNode, SaveSameMessages, Goto, Thread, history
  <2>2. text = request[w].messages /\ Human(request[w].turn) \in Range(request[w].messages)
    BY <1>2, <2>1 DEF ChatKnows, At
  <2>3. transcript' = transcript
    BY <1>1, <2>1, <2>2
  <2>4. ChatKnows(w)'
    BY <1>1, <2>1, <2>2, <2>3 DEF ChatKnows, Replied, Serves
  <2> QED BY <1>2, <2>1, <2>3, <2>4 DEF Grow, ReturnedTurnIsKept
<1>7. CASE RespondNode(w)
  <2> DEFINE q == Append(request[w].messages, Ai(request[w].turn))
  <2>1. /\ request'[w].at = "remember" /\ request'[w].messages = q
        /\ request'[w].thread = request[w].thread /\ request'[w].turn = request[w].turn
        /\ At(w, "respond")
    BY <1>1, <1>7 DEF RespondNode, Answered, Serves, Goto
  <2>2. /\ transcript' = [transcript EXCEPT ![request[w].thread] = q]
        /\ cut' = {} /\ returned' = returned
    BY <1>1, <1>2, <1>7 DEF RespondNode, Answered, SaveMessages, Thread, history
  <2>3. text = request[w].messages /\ Human(request[w].turn) \in Range(request[w].messages)
    BY <1>2, <2>1 DEF ChatKnows, At
  <2>4. Range(q) = Range(request[w].messages) \cup {Ai(request[w].turn)}
    BY <1>1, MessageTypes, AppendRange
  <2>5. \A t \in Threads : Grow(t)
    BY <1>1, <2>2, <2>3, <2>4, OneThreadSaved
  <2>6. ReturnedTurnIsKept'
    BY <1>2, <2>2, <2>5 DEF ReturnedTurnIsKept, Grow
  <2>7. ChatKnows(w)'
    BY <1>1, <2>1, <2>2, <2>3, <2>4 DEF ChatKnows, Replied, ChatSteps
  <2> QED BY <1>1, <2>2, <2>5, <2>6, <2>7
<1>8. CASE RememberRead(w) \/ RememberPut(w) \/ RememberBlocked(w)
  <2>1. /\ request'[w].at \in {"learn", "save"}
        /\ request'[w].messages = request[w].messages
        /\ request'[w].thread = request[w].thread /\ request'[w].turn = request[w].turn
        /\ request[w].at \in {"remember", "learn"}
    <3>1. CASE RememberRead(w)
      BY <1>1, <3>1 DEF RememberRead, At, Serves, Goto
    <3>2. CASE RememberPut(w)
      BY <1>1, <3>2 DEF RememberPut, At, Serves, Goto
    <3>3. CASE RememberBlocked(w)
      BY <1>1, <3>3 DEF RememberBlocked, At, Serves, Goto
    <3> QED BY <1>8, <3>1, <3>2, <3>3
  <2>2. UNCHANGED <<transcript, cut, returned>>
    BY <1>8 DEF RememberRead, RememberPut, RememberBlocked, saved, history
  <2>3. ChatKnows(w)'
    BY <1>1, <1>2, <2>1, <2>2 DEF ChatKnows, Replied
  <2> QED BY <1>2, <2>2, <2>3 DEF Grow, ReturnedTurnIsKept
<1>9. CASE ReturnReply(w)
  <2>1. /\ request'[w].at = "idle" /\ request[w].at \in {"learn", "save"}
        /\ transcript' = [transcript EXCEPT ![request[w].thread] = request[w].messages]
        /\ cut' = {}
    BY <1>1, <1>2, <1>9 DEF ReturnReply, SaveSameMessages, NoRequest, Goto, Thread, At
  <2>2. returned' = [returned EXCEPT ![request[w].thread] = @ \cup {request[w].turn}]
    BY <1>9 DEF ReturnReply, Thread
  <2>3. /\ text = request[w].messages /\ Human(request[w].turn) \in Range(text)
        /\ Ai(request[w].turn) \in Range(text)
    BY <1>2, <2>1 DEF ChatKnows, Replied
  <2>4. transcript' = transcript
    BY <1>1, <2>1, <2>3
  <2>5. \A t \in Threads : \A n \in returned'[t] :
          n \in returned[t] \/ (t = request[w].thread /\ n = request[w].turn)
    BY <2>2 DEF TypeInv
  <2>6. ReturnedTurnIsKept'
    BY <1>2, <2>3, <2>4, <2>5 DEF ReturnedTurnIsKept
  <2>7. ChatKnows(w)'
    BY <2>1 DEF ChatKnows, Replied, ChatSteps
  <2> QED BY <2>1, <2>4, <2>6, <2>7 DEF Grow
<1> QED BY <1>4, <1>5, <1>6, <1>7, <1>8, <1>9 DEF ChatStep

LEMMA SoloDelete ==
  ASSUME TypeInv, OneWorker, SoloOK, NEW w \in Workers, DeleteStep(w)
  PROVE  SoloOK'
<1>1. /\ request[w] \in Serves /\ request \in [Workers -> Serves]
      /\ request[w].at \in Forgets /\ transcript \in [Threads -> Seq(Message)]
      /\ index \in [Threads -> {"absent", "v2", "legacy"}]
      /\ returned \in [Threads -> SUBSET Nat]
  BY DeleteMoves DEF TypeInv
<1>2. cut = {} /\ TranscriptIndexed /\ ReturnedTurnIsKept /\ ChatKnows(w)
  BY DEF SoloOK
<1>3. CASE DeleteTranscript(w)
  <2>1. PICK t \in Threads :
          /\ DropCheckpoints(t) /\ request'[w].thread = t
          /\ request'[w].at \in {"thread_index", "user_index"}
    <3>1. CASE /\ At(w, "thread_memories") /\ DropCheckpoints(Thread(w))
               /\ Goto(w, [request[w] EXCEPT !.at = "thread_index"])
      <4>1. request[w].thread \in Threads
        BY <3>1 DEF TypeInv, At, OnThread, ForgetThreadSteps
      <4> QED BY <1>1, <3>1, <4>1 DEF Thread, Serves, Goto
    <3>2. ASSUME NEW t \in request[w].threads, DropCheckpoints(t),
                 Goto(w, [request[w] EXCEPT !.at = "user_index", !.thread = t])
          PROVE  /\ t \in Threads /\ request'[w].thread = t
                 /\ request'[w].at = "user_index"
      BY <1>1, <3>2 DEF Serves, Goto
    <3> QED BY <1>3, <3>1, <3>2 DEF DeleteTranscript
  <2>2. cut' = {}
    BY <1>1, <1>2, <2>1
    DEF DropCheckpoints, OneWorker, Forgets, ForgetThreadSteps, ForgetUserSteps, ChatSteps
  <2>3. /\ transcript' = [transcript EXCEPT ![t] = <<>>] /\ index' = index
        /\ returned' = [returned EXCEPT ![t] = {}]
    BY <1>3, <2>1 DEF DropCheckpoints, WithoutCheckpoints, DeleteTranscript, stored
  <2>4. TranscriptIndexed' /\ ReturnedTurnIsKept'
    BY <1>1, <1>2, <2>3 DEF TranscriptIndexed, ReturnedTurnIsKept
  <2>5. ChatKnows(w)'
    BY <1>1, <2>1, <2>3 DEF ChatKnows, ChatSteps, Replied
  <2> QED BY <2>2, <2>4, <2>5 DEF SoloOK, OneWorker
<1>4. CASE DeleteIndexEntry(w)
  <2>1. /\ request[w].at \in {"thread_index", "user_index"}
        /\ request'[w].at \in {"thread_forgotten", "user_threads"}
        /\ request'[w].at = "thread_forgotten" => request'[w].thread = request[w].thread
    <3>1. CASE At(w, "thread_index") /\ Goto(w, [request[w] EXCEPT !.at = "thread_forgotten"])
      BY <1>1, <3>1 DEF At, Serves, Goto
    <3>2. CASE /\ At(w, "user_index")
               /\ Goto(w, [request[w] EXCEPT !.at = "user_threads",
                                             !.threads = @ \ {Thread(w)}])
      BY <1>1, <3>2 DEF At, Serves, Goto
    <3> QED BY <1>4, <3>1, <3>2 DEF DeleteIndexEntry
  <2>2. /\ index' = [index EXCEPT ![request[w].thread] = "absent"]
        /\ UNCHANGED <<transcript, cut, returned>>
    BY <1>4 DEF DeleteIndexEntry, Thread, saved, history
  <2>3. transcript[request[w].thread] = <<>>
    BY <1>2, <2>1 DEF ChatKnows
  <2>4. TranscriptIndexed' /\ ReturnedTurnIsKept'
    BY <1>1, <1>2, <2>2, <2>3 DEF TranscriptIndexed, ReturnedTurnIsKept
  <2>5. ChatKnows(w)'
    BY <2>1, <2>2, <2>3 DEF ChatKnows, ChatSteps, Replied
  <2> QED BY <1>2, <2>2, <2>4, <2>5 DEF SoloOK, OneWorker
<1>5. CASE ~DeleteTranscript(w) /\ ~DeleteIndexEntry(w)
  <2>1. UNCHANGED <<index, transcript, cut, returned>>
    BY <1>5 DEF DeleteStep, ListMemories, ListQuarantine, DeleteMemory, DeleteQuarantined,
                ReturnReport, stored, saved, history
  <2>2. request'[w].at \in {"idle", "user_memories", "user_quarantine", "thread_memories"}
    <3>1. CASE ListMemories(w) \/ ListQuarantine(w)
      <4>1. CASE ListMemories(w)
        BY <1>1, <4>1 DEF ListMemories, Serves, Goto
      <4>2. CASE ListQuarantine(w)
        BY <1>1, <4>2 DEF ListQuarantine, Serves, Goto
      <4> QED BY <3>1, <4>1, <4>2
    <3>2. ASSUME NEW k, DeleteMemory(w, k) \/ DeleteQuarantined(w, k)
          PROVE  request'[w].at \in {"user_memories", "user_quarantine", "thread_memories"}
      BY <1>1, <3>2 DEF DeleteMemory, DeleteQuarantined, At, Serves, Goto
    <3>3. CASE ReturnReport(w)
      BY <1>1, <3>3 DEF ReturnReport, NoRequest, Goto
    <3> QED BY <1>5, <3>1, <3>2, <3>3 DEF DeleteStep
  <2>3. ChatKnows(w)'
    BY <2>2 DEF ChatKnows, ChatSteps, Replied
  <2>4. TranscriptIndexed' /\ ReturnedTurnIsKept'
    BY <1>2, <2>1 DEF TranscriptIndexed, ReturnedTurnIsKept
  <2> QED BY <1>2, <2>1, <2>3, <2>4 DEF SoloOK, OneWorker
<1> QED BY <1>3, <1>4, <1>5

LEMMA SoloRequested ==
  ASSUME TypeInv, OneWorker, SoloOK, NEW w \in Workers, Requested(w)
  PROVE  SoloOK'
<1>1. /\ request \in [Workers -> Serves] /\ index \in [Threads -> {"absent", "v2", "legacy"}]
      /\ Idle(w)
  BY RequestedMoves DEF TypeInv
<1>2. cut = {} /\ TranscriptIndexed /\ ReturnedTurnIsKept
  BY DEF SoloOK
<1>3. UNCHANGED <<transcript, cut, returned>>
  BY DEF Requested, RecordThread, ForgetThread, Observe, ForgetUser, saved
<1>4. ReturnedTurnIsKept'
  BY <1>2, <1>3 DEF ReturnedTurnIsKept
<1>5. ASSUME NEW t \in Threads, RecordThread(w, t)
      PROVE  TranscriptIndexed' /\ ChatKnows(w)'
  <2>1. /\ request'[w].at = "load" /\ request'[w].thread = t
        /\ index' = [index EXCEPT ![t] = "v2"]
    BY <1>1, <1>5 DEF RecordThread, NoRequest, Goto, Indexed
  <2>2. TranscriptIndexed'
    BY <1>1, <1>2, <1>3, <2>1 DEF TranscriptIndexed
  <2> QED BY <1>1, <2>1, <2>2 DEF ChatKnows, Replied
<1>6. ASSUME ~\E t \in Threads : RecordThread(w, t)
      PROVE  TranscriptIndexed' /\ ChatKnows(w)'
  <2>1. index' = index
    BY <1>6 DEF Requested, ForgetThread, Observe, ForgetUser, stored
  <2>2. request'[w].at \in {"idle", "thread_memories", "list_memories"}
    <3>1. ASSUME NEW t \in Threads, ForgetThread(w, t)
          PROVE  request'[w].at = "thread_memories"
      BY <1>1, <3>1 DEF ForgetThread, NoRequest, Goto
    <3>2. CASE Observe(w)
      BY <1>1, <3>2 DEF Observe, Idle, NoRequest
    <3>3. CASE ForgetUser(w)
      BY <1>1, <3>3 DEF ForgetUser, NoRequest, Goto
    <3> QED BY <1>6, <3>1, <3>2, <3>3 DEF Requested
  <2> QED BY <1>2, <1>3, <2>1, <2>2 DEF TranscriptIndexed, ChatKnows, ChatSteps, Replied
<1> QED BY <1>2, <1>3, <1>4, <1>5, <1>6 DEF SoloOK, OneWorker

LEMMA StepSolo == TypeInv /\ PairedOK /\ SoloOK /\ [Next]_vars => SoloOK'
<1> SUFFICES ASSUME TypeInv, PairedOK, SoloOK, [Next]_vars, OneWorker PROVE SoloOK'
  BY DEF SoloOK, OneWorker
<1>1. CASE UNCHANGED vars
  BY <1>1 DEF SoloOK, OneWorker, TranscriptIndexed, ReturnedTurnIsKept, ChatKnows,
              vars, stored, saved, history
<1>2. ASSUME NEW w \in Workers, Abort(w) PROVE SoloOK'
  <2>1. request'[w].at = "idle" /\ UNCHANGED <<index, transcript, cut, returned>>
    <3>1. request'[w] = NoRequest
      BY <1>2, AbortMoves
    <3> QED BY <1>2, <3>1 DEF Abort, stored, saved, NoRequest
  <2>2. ChatKnows(w)'
    BY <2>1 DEF ChatKnows, ChatSteps, Replied
  <2> QED BY <2>1, <2>2 DEF SoloOK, OneWorker, TranscriptIndexed, ReturnedTurnIsKept
<1> QED BY <1>1, <1>2, SoloRequested, SoloChat, SoloDelete DEF Next
------------------------------------------------------------------------------
LEMMA InitInv == Init => IInv
<1> SUFFICES ASSUME Init PROVE IInv
  OBVIOUS
<1>1. \A w \in Workers : request[w] = NoRequest /\ request[w].at = "idle"
  BY NothingPaired DEF Init
<1>2. <<>> \in Seq(Message) /\ NoRequest \in Serves /\ NoRequest.at = "idle"
  BY EmptySeq, NoRequestType, NothingPaired
<1>3. TypeInv
  BY <1>1, <1>2
  DEF Init, TypeInv, At, Idle, OnThread, ChatSteps, ForgetThreadSteps
<1>4. PairedOK
  BY <1>1, NothingPaired DEF Init, PairedOK, Asked
<1>5. LegacyOK
  BY <1>1 DEF LegacyOK, ForgetUserSteps, ForgetThreadSteps
<1>6. AloneOK
  BY DEF Init, AloneOK
<1>7. EraseOK
  BY <1>1 DEF EraseOK, KnowsAll, ForgetUserSteps
<1>8. cut = {} /\ TranscriptIndexed /\ ReturnedTurnIsKept
  BY DEF Init, TranscriptIndexed, ReturnedTurnIsKept
<1>9. \A w \in Workers : ChatKnows(w)
  BY <1>1 DEF ChatKnows, ChatSteps, Replied
<1> QED BY <1>3, <1>4, <1>5, <1>6, <1>7, <1>8, <1>9 DEF IInv, SoloOK

(* Init and every step of every request keep the invariant, however many   *)
(* workers there are and whatever the order of their calls.                *)
THEOREM Invariance == Spec => []IInv
<1>1. IInv /\ [Next]_vars => IInv'
  BY StepType, StepPaired, StepLegacy, StepAlone, StepErase, StepSolo DEF IInv
<1> QED BY <1>1, InitInv, PTL DEF Spec

(* Every variable holds what its declaration says, and whoever serves a    *)
(* request about a conversation knows which.                               *)
THEOREM TypeCorrect == Spec => []TypeOK
<1>1. IInv => TypeOK
  <2> SUFFICES ASSUME TypeInv PROVE TypeOK
    BY DEF IInv
  <2>1. \A s \in Seq(Message) : Range(s) \subseteq Message
    BY LenProperties, ElementOfSeq DEF Range
  <2>2. \A w \in Workers :
          /\ request[w].thread \in Threads \cup {NULL} /\ request[w].turn \in Nat
          /\ request[w].messages \in Seq(Message) /\ request[w].known \subseteq Record
          /\ request[w].puts \in 0..MaxPuts /\ request[w].threads \subseteq Threads
    BY DEF TypeInv, Serves
  <2>3. \A w \in Workers :
          /\ Idle(w) \/ request[w].at \in ChatSteps \cup ForgetThreadSteps \cup ForgetUserSteps
          /\ request[w].at \in ChatSteps \cup ForgetThreadSteps \cup {"user_index"} =>
               request[w].thread \in Threads
    BY DEF TypeInv, Serves, Steps, At, OnThread
  <2>4. \A t \in Threads : Range(transcript[t]) \subseteq Message
    BY <2>1 DEF TypeInv
  <2> QED BY <2>1, <2>2, <2>3, <2>4 DEF TypeInv, TypeOK
<1> QED BY <1>1, Invariance, PTL

(* However turns of one conversation overlap, die and race deletes, a      *)
(* reply in a transcript follows the very message it answers.              *)
THEOREM RepliesFollow == Spec => []RepliesFollowTheirMessage
<1>1. IInv => RepliesFollowTheirMessage
  BY DEF IInv, PairedOK, Paired, RepliesFollowTheirMessage
<1> QED BY <1>1, Invariance, PTL

(* A delete of everything refuses before its first step while a legacy     *)
(* conversation is there, and no other request touches such an entry or    *)
(* takes a text out of quarantine meanwhile.                               *)
THEOREM LegacyIsKept == Spec => LegacyBlocksErase
<1> DEFINE Kept == (\E t \in Threads : index[t] = "legacy") =>
                     /\ quarantine \subseteq quarantine'
                     /\ \A t \in Threads : index[t] = "legacy" => index'[t] = "legacy"
<1>1. TypeInv /\ LegacyOK /\ [Next]_vars => [Kept]_vars
  <2> SUFFICES ASSUME TypeInv, LegacyOK, [Next]_vars,
                      NEW t \in Threads, index[t] = "legacy"
               PROVE  /\ quarantine \subseteq quarantine'
                      /\ \A u \in Threads : index[u] = "legacy" => index'[u] = "legacy"
    OBVIOUS
  <2>1. CASE UNCHANGED vars
    BY <2>1 DEF vars, stored
  <2>2. ASSUME NEW w \in Workers, Requested(w)
        PROVE  /\ quarantine \subseteq quarantine'
               /\ \A u \in Threads : index[u] = "legacy" => index'[u] = "legacy"
    BY <2>2 DEF Requested, RecordThread, ForgetThread, Observe, ForgetUser,
                Indexed, IsLegacy, stored, TypeInv
  <2>3. ASSUME NEW w \in Workers, ChatStep(w)
        PROVE  quarantine \subseteq quarantine' /\ index' = index
    BY <2>3 DEF ChatStep, LoadCheckpoint, SaveInput, RecallNode, RespondNode, RememberRead,
                RememberPut, RememberBlocked, ReturnReply, stored
  <2>4. ASSUME NEW w \in Workers, DeleteStep(w)
        PROVE  /\ quarantine \subseteq quarantine'
               /\ \A u \in Threads : index[u] = "legacy" => index'[u] = "legacy"
    <3>1. request[w].at \notin ForgetUserSteps
      BY DEF LegacyOK, IsLegacy
    <3>2. request[w].at \in ForgetThreadSteps => index[Thread(w)] # "legacy"
      BY DEF LegacyOK, IsLegacy
    <3>3. CASE DeleteIndexEntry(w)
      <4>1. At(w, "thread_index")
        BY <3>1, <3>3 DEF DeleteIndexEntry, At, ForgetUserSteps
      <4> QED BY <3>2, <3>3, <4>1 DEF DeleteIndexEntry, At, ForgetThreadSteps, TypeInv
    <3>4. ASSUME NEW k, DeleteQuarantined(w, k) PROVE FALSE
      BY <3>1, <3>4 DEF DeleteQuarantined, At, ForgetUserSteps
    <3>5. ASSUME NEW k, DeleteMemory(w, k) PROVE UNCHANGED <<index, quarantine>>
      BY <3>5 DEF DeleteMemory
    <3> QED
      BY <2>4, <3>3, <3>4, <3>5
      DEF DeleteStep, ListMemories, ListQuarantine, DeleteTranscript, ReturnReport, stored
  <2>5. ASSUME NEW w \in Workers, Abort(w) PROVE UNCHANGED <<index, quarantine>>
    BY <2>5 DEF Abort, stored
  <2> QED BY <2>1, <2>2, <2>3, <2>4, <2>5 DEF Next
<1>2. IInv => TypeInv /\ LegacyOK
  BY DEF IInv
<1> QED BY <1>1, <1>2, Invariance, PTL DEF Spec, LegacyBlocksErase

(* A delete of the user that runs alone leaves no memory and no            *)
(* quarantined text, whatever overlapped before it.                        *)
THEOREM UndisturbedErases == Spec => []UndisturbedForgetLeavesNoMemory
<1>1. IInv => UndisturbedForgetLeavesNoMemory
  <2> SUFFICES ASSUME IInv, NEW w \in alone, UserForgotten(w)
               PROVE  memories = {} /\ quarantine = {}
    BY DEF UndisturbedForgetLeavesNoMemory
  <2>1. KnowsAll(w)
    BY DEF IInv, TypeInv, EraseOK, Undisturbed
  <2> QED BY <2>1 DEF UserForgotten, AtThreads, At, KnowsAll
<1> QED BY <1>1, Invariance, PTL

(* Served one at a time, requests that die half-way included: a transcript *)
(* has an entry it can be found by.                                        *)
THEOREM TranscriptsAreFound == OneWorker => (Spec => []TranscriptIndexed)
<1> SUFFICES ASSUME OneWorker PROVE Spec => []TranscriptIndexed
  OBVIOUS
<1>1. IInv => TranscriptIndexed
  BY DEF IInv, SoloOK
<1> QED BY <1>1, Invariance, PTL

(* Served one at a time, forget_user leaves nothing of the user.           *)
THEOREM UserIsForgotten == OneWorker => (Spec => []UserForgetIsComplete)
<1> SUFFICES ASSUME OneWorker PROVE Spec => []UserForgetIsComplete
  OBVIOUS
<1>1. IInv => UserForgetIsComplete
  <2> SUFFICES ASSUME IInv, NEW w \in Workers, UserForgotten(w)
               PROVE  /\ memories = {} /\ quarantine = {}
                      /\ \A t \in Threads : transcript[t] = <<>> /\ index[t] = "absent"
    BY DEF UserForgetIsComplete
  <2>1. KnowsAll(w) /\ TranscriptIndexed
    BY DEF IInv, EraseOK, Undisturbed, SoloOK
  <2> QED
    BY <2>1 DEF UserForgotten, AtThreads, At, KnowsAll, ForgetUserSteps, TranscriptIndexed
<1> QED BY <1>1, Invariance, PTL

(* Served one at a time, forget_thread leaves neither the transcript nor   *)
(* anything learned from the conversation.                                 *)
THEOREM ThreadIsForgotten == OneWorker => (Spec => []ThreadForgetIsComplete)
<1> SUFFICES ASSUME OneWorker PROVE Spec => []ThreadForgetIsComplete
  OBVIOUS
<1>1. IInv => ThreadForgetIsComplete
  <2> SUFFICES ASSUME IInv, NEW w \in Workers, At(w, "thread_forgotten")
               PROVE  /\ transcript[Thread(w)] = <<>> /\ index[Thread(w)] = "absent"
                      /\ \A m \in memories : m.thread_id # Thread(w)
    BY DEF ThreadForgetIsComplete, ThreadForgotten
  <2>1. KnowsAll(w) /\ ChatKnows(w)
    BY DEF IInv, EraseOK, Undisturbed, SoloOK
  <2> QED BY <2>1 DEF At, Thread, KnowsAll, ChatKnows, LearnedFrom
<1> QED BY <1>1, Invariance, PTL

(* Served one at a time, an answered turn stays in its transcript until    *)
(* the conversation is deleted, whatever died before or after it.          *)
THEOREM TurnsAreKept == OneWorker => (Spec => []ReturnedTurnIsKept)
<1> SUFFICES ASSUME OneWorker PROVE Spec => []ReturnedTurnIsKept
  OBVIOUS
<1>1. IInv => ReturnedTurnIsKept
  BY DEF IInv, SoloOK
<1> QED BY <1>1, Invariance, PTL
==============================================================================
