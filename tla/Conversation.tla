----------------------------- MODULE Conversation -----------------------------
(***************************************************************************)
(* One user's conversations: Agent.chat and the graph it runs (recall,     *)
(* respond, remember), Agent.observe, the thread index, the checkpointer's *)
(* transcripts, and the delete paths forget_thread and forget_user.        *)
(*                                                                         *)
(* Requests run concurrently on a thread pool and on several tasks.  One   *)
(* step is one call to the store or to the checkpointer.  What the write   *)
(* path decides is left open here (WritePath models it): a turn that       *)
(* remembers reads the memories once and then puts new records of its      *)
(* thread, or puts back copies of records it read.                         *)
(***************************************************************************)
EXTENDS Integers, Sequences, FiniteSets, Functions

CONSTANTS
  Workers,    \* threads serving requests of this user
  Threads,    \* conversation names
  NULL,       \* no conversation: observed content may have none
  MaxOps,     \* bound of the model: requests that are started
  MaxPuts     \* bound of the model: records one turn puts

ASSUME BoundsAssumption ==
  MaxOps \in Nat /\ MaxPuts \in Nat /\ NULL \notin Threads

VARIABLES
  index,       \* index[t]: the entry ("threads", user) holds for t
  memories,    \* ("memories", user), as [id, thread_id] records
  quarantine,  \* keys of ("quarantine", user)
  transcript,  \* transcript[t]: the messages of t's latest checkpoint
  cut,         \* workers whose saved messages were deleted under their run
  started,     \* requests so far: numbers turns, records and blocked texts
  request,     \* request[w]: what w is serving, and how far it is
  returned,    \* history: turns that returned on t since t was last forgotten
  alone        \* history: workers whose delete has run alone so far

stored == <<index, memories, quarantine>>
saved == <<transcript, cut>>
history == <<returned, alone>>
vars == <<stored, saved, started, request, history>>

Human(n) == [type |-> "human", turn |-> n]
Ai(n) == [type |-> "ai", turn |-> n]
Message == [type : {"human", "ai"}, turn : Nat]
Record == [id : Nat \X Nat, thread_id : Threads \cup {NULL}]

ChatSteps == {"load", "input", "recall", "respond", "remember", "learn", "save"}
ForgetThreadSteps == {"thread_memories", "thread_index", "thread_forgotten"}
ForgetUserSteps ==
  {"list_memories", "user_memories", "user_quarantine", "user_index", "user_threads"}

(* at: the call that comes next; messages: what the graph run carries;     *)
(* known: the memories the remember node read; todo, threads: the keys and *)
(* the conversations a delete has listed and not deleted yet.              *)
NoRequest ==
  [at |-> "idle", thread |-> NULL, turn |-> 0, messages |-> <<>>, known |-> {},
   puts |-> 0, todo |-> {}, threads |-> {}]

Idle(w) == request[w] = NoRequest
At(w, step) == request[w].at = step
Thread(w) == request[w].thread

Put(S, m) == {x \in S : x.id # m.id} \cup {m}

Init ==
  /\ index \in [Threads -> {"absent", "legacy"}]
  /\ memories = {} /\ quarantine = {}
  /\ transcript = [t \in Threads |-> <<>>] /\ cut = {}
  /\ started = 0
  /\ request = [w \in Workers |-> NoRequest]
  /\ returned = [t \in Threads |-> {}] /\ alone = {}

Goto(w, r) == request' = [request EXCEPT ![w] = r]

(* A request of w begins.  Only deletes are ever alone.                    *)
Begin(w, isDelete) ==
  /\ Idle(w) /\ started < MaxOps
  /\ started' = started + 1
  /\ alone' = IF isDelete /\ \A v \in Workers : Idle(v) THEN {w} ELSE {}

(* A faulty lookup: whatever entry there is, the conversation is served.   *)
NeverLegacy(t) == FALSE

(* checkpoint_thread_id raises LegacyThreadError.  Nothing makes an entry  *)
(* legacy, so this check and the call after it can be one step.            *)
IsLegacy(t) == index[t] = "legacy"

(* A faulty chat: no index entry is kept.                                  *)
NeverIndexed(t) == index

Indexed(t) == [index EXCEPT ![t] = "v2"]
------------------------------------------------------------------------------
(* Agent.chat.                                                             *)

(* The entry that makes the conversation known is there before anything to *)
(* find through it; a legacy conversation is refused.                      *)
RecordThread(w, t) ==
  /\ Begin(w, FALSE)
  /\ ~IsLegacy(t)
  /\ index' = Indexed(t)
  /\ Goto(w, [NoRequest EXCEPT !.at = "load", !.thread = t, !.turn = started])
  /\ UNCHANGED <<memories, quarantine, saved, returned>>

(* A faulty graph: the messages of earlier turns are not carried on.       *)
StartsAfresh(w) == <<>>

Carried(w) == transcript[Thread(w)]

(* graph.invoke loads the latest checkpoint of the conversation ...        *)
LoadCheckpoint(w) ==
  /\ At(w, "load")
  /\ Goto(w, [request[w] EXCEPT !.at = "input",
                !.messages = Append(Carried(w), Human(request[w].turn))])
  /\ UNCHANGED <<stored, saved, started, history>>

(* Checkpoints that change the messages hold all messages of the run.  The *)
(* others name the version saved before: if that has been deleted in the   *)
(* meantime, the latest checkpoint has no messages.                        *)
SaveMessages(w, messages) ==
  /\ transcript' = [transcript EXCEPT ![Thread(w)] = messages]
  /\ cut' = cut \ {w}

SaveSameMessages(w) ==
  /\ transcript' = [transcript EXCEPT ![Thread(w)] =
                      IF w \in cut THEN <<>> ELSE request[w].messages]
  /\ UNCHANGED cut

(* ... and saves one with the user's message in it, before any node runs.  *)
SaveInput(w) ==
  /\ At(w, "input")
  /\ SaveMessages(w, request[w].messages)
  /\ Goto(w, [request[w] EXCEPT !.at = "recall"])
  /\ UNCHANGED <<stored, started, history>>

(* The recall node only reads; a checkpoint follows it as it does any node.*)
RecallNode(w) ==
  /\ At(w, "recall")
  /\ SaveSameMessages(w)
  /\ Goto(w, [request[w] EXCEPT !.at = "respond"])
  /\ UNCHANGED <<stored, started, history>>

(* A faulty respond node: the reply goes after what the thread holds now.  *)
RereadsTheThread(w) == transcript[Thread(w)]

Answered(w) == request[w].messages

RespondNode(w) ==
  LET messages == Append(Answered(w), Ai(request[w].turn))
  IN /\ At(w, "respond")
     /\ SaveMessages(w, messages)
     /\ Goto(w, [request[w] EXCEPT !.at = "remember", !.messages = messages])
     /\ UNCHANGED <<stored, started, history>>

(* The remember node: the write path reads the memories once ...           *)
RememberRead(w) ==
  /\ At(w, "remember")
  /\ Goto(w, [request[w] EXCEPT !.at = "learn", !.known = memories])
  /\ UNCHANGED <<stored, saved, started, history>>

(* A faulty stamp: the checkpointer's key instead of the public name.      *)
StampOfCheckpoint(w) == <<"engram:v2", Thread(w)>>

Stamp(w) == Thread(w)

(* ... then puts new records stamped with the conversation they come from, *)
(* or puts back its copy of a record, reinforced or retired.               *)
RememberPut(w) ==
  LET new == [id |-> <<request[w].turn, request[w].puts>>, thread_id |-> Stamp(w)]
  IN /\ At(w, "learn") /\ request[w].puts < MaxPuts
     /\ \E m \in request[w].known \cup {new} :
          /\ memories' = Put(memories, m)
          /\ Goto(w, [request[w] EXCEPT !.known = @ \cup {m}, !.puts = @ + 1])
     /\ UNCHANGED <<index, quarantine, saved, started, history>>

(* The gate keeps a blocked message where nothing recalls it.              *)
RememberBlocked(w) ==
  /\ At(w, "remember")
  /\ quarantine' = quarantine \cup {request[w].turn}
  /\ Goto(w, [request[w] EXCEPT !.at = "save"])
  /\ UNCHANGED <<index, memories, saved, started, history>>

(* The checkpoint after the remember node is the last call of a chat.      *)
ReturnReply(w) ==
  /\ At(w, "learn") \/ At(w, "save")
  /\ SaveSameMessages(w)
  /\ returned' = [returned EXCEPT ![Thread(w)] = @ \cup {request[w].turn}]
  /\ Goto(w, NoRequest)
  /\ UNCHANGED <<stored, started, alone>>

(* Agent.observe as the API lets it be called, for a tool or a document    *)
(* (observe in routes.py refuses other sources): the content goes to       *)
(* quarantine, with or without a conversation, and no transcript is        *)
(* written.  Benchmark and Locomo model the replays, which observe a user. *)
Observe(w) ==
  /\ Begin(w, FALSE)
  /\ quarantine' = quarantine \cup {started}
  /\ UNCHANGED <<index, memories, saved, request, returned>>
------------------------------------------------------------------------------
(* The delete paths.  They list first and delete one key at a time.        *)

(* A faulty listing: one page, here of one key, is taken for everything.   *)
FirstPage(S) == IF S = {} THEN {} ELSE {CHOOSE k \in S : TRUE}

AllKeys(S) == S

LearnedFrom(t) == {m.id : m \in {x \in memories : x.thread_id = t}}

ForgetThread(w, t) ==
  /\ Begin(w, TRUE)
  /\ ~IsLegacy(t)
  /\ Goto(w, [NoRequest EXCEPT !.at = "thread_memories", !.thread = t,
                               !.todo = LearnedFrom(t)])
  /\ UNCHANGED <<stored, saved, returned>>

(* Every conversation is validated before anything is deleted.             *)
ForgetUser(w) ==
  /\ Begin(w, TRUE)
  /\ \A t \in Threads : ~IsLegacy(t)
  /\ Goto(w, [NoRequest EXCEPT !.at = "list_memories",
                !.threads = {t \in Threads : index[t] # "absent"}])
  /\ UNCHANGED <<stored, saved, returned>>

ListMemories(w) ==
  /\ At(w, "list_memories")
  /\ Goto(w, [request[w] EXCEPT !.at = "user_memories",
                                !.todo = AllKeys({m.id : m \in memories})])
  /\ UNCHANGED <<stored, saved, started, history>>

(* A faulty loop: it does not advance.                                     *)
StuckAt(w, k) == request[w].todo

Remaining(w, k) == request[w].todo \ {k}

DeleteMemory(w, k) ==
  /\ At(w, "thread_memories") \/ At(w, "user_memories")
  /\ memories' = {m \in memories : m.id # k}
  /\ Goto(w, [request[w] EXCEPT !.todo = Remaining(w, k)])
  /\ UNCHANGED <<index, quarantine, saved, started, history>>

ListQuarantine(w) ==
  /\ At(w, "user_memories") /\ request[w].todo = {}
  /\ Goto(w, [request[w] EXCEPT !.at = "user_quarantine", !.todo = quarantine])
  /\ UNCHANGED <<stored, saved, started, history>>

DeleteQuarantined(w, k) ==
  /\ At(w, "user_quarantine")
  /\ quarantine' = quarantine \ {k}
  /\ Goto(w, [request[w] EXCEPT !.todo = Remaining(w, k)])
  /\ UNCHANGED <<index, memories, saved, started, history>>

(* forget_user has come to its conversations.                              *)
AtThreads(w) ==
  \/ At(w, "user_quarantine") /\ request[w].todo = {}
  \/ At(w, "user_threads")

(* A faulty delete: by the public name, under which nothing is saved.      *)
WithoutPublicName(t) == transcript

WithoutCheckpoints(t) == [transcript EXCEPT ![t] = <<>>]

(* delete_thread: the conversation has no checkpoint any more.             *)
DropCheckpoints(t) ==
  /\ transcript' = WithoutCheckpoints(t)
  /\ cut' = cut \cup {v \in Workers : request[v].at \in ChatSteps /\ Thread(v) = t}
  /\ returned' = [returned EXCEPT ![t] = {}]

DeleteTranscript(w) ==
  /\ \/ /\ At(w, "thread_memories") /\ request[w].todo = {}
        /\ DropCheckpoints(Thread(w))
        /\ Goto(w, [request[w] EXCEPT !.at = "thread_index"])
     \/ \E t \in request[w].threads :
          /\ AtThreads(w)
          /\ DropCheckpoints(t)
          /\ Goto(w, [request[w] EXCEPT !.at = "user_index", !.thread = t])
  /\ UNCHANGED <<stored, started, alone>>

DeleteIndexEntry(w) ==
  /\ \/ /\ At(w, "thread_index")
        /\ Goto(w, [request[w] EXCEPT !.at = "thread_forgotten"])
     \/ /\ At(w, "user_index")
        /\ Goto(w, [request[w] EXCEPT !.at = "user_threads",
                                      !.threads = @ \ {Thread(w)}])
  /\ index' = [index EXCEPT ![Thread(w)] = "absent"]
  /\ UNCHANGED <<memories, quarantine, saved, started, history>>

ThreadForgotten(w) == At(w, "thread_forgotten")

UserForgotten(w) == AtThreads(w) /\ request[w].threads = {}

ReturnReport(w) ==
  /\ ThreadForgotten(w) \/ UserForgotten(w)
  /\ Goto(w, NoRequest)
  /\ alone' = alone \ {w}
  /\ UNCHANGED <<stored, saved, started, returned>>
------------------------------------------------------------------------------
(* The store, the checkpointer, the model or the process fails: a request  *)
(* stops between two calls, and what it has saved or deleted stays so.     *)
Abort(w) ==
  /\ ~Idle(w)
  /\ Goto(w, NoRequest)
  /\ alone' = alone \ {w}
  /\ UNCHANGED <<stored, saved, started, returned>>

ChatStep(w) ==
  \/ LoadCheckpoint(w) \/ SaveInput(w) \/ RecallNode(w) \/ RespondNode(w)
  \/ RememberRead(w) \/ RememberPut(w) \/ RememberBlocked(w) \/ ReturnReply(w)

DeleteStep(w) ==
  \/ ListMemories(w) \/ ListQuarantine(w)
  \/ \E k \in request[w].todo : DeleteMemory(w, k) \/ DeleteQuarantined(w, k)
  \/ DeleteTranscript(w) \/ DeleteIndexEntry(w) \/ ReturnReport(w)

Requested(w) ==
  \/ \E t \in Threads : RecordThread(w, t) \/ ForgetThread(w, t)
  \/ Observe(w) \/ ForgetUser(w)

Next == \E w \in Workers : Requested(w) \/ ChatStep(w) \/ DeleteStep(w) \/ Abort(w)

Spec == Init /\ [][Next]_vars

(* A request that is being served makes its next call: it holds no lock    *)
(* and waits for nobody.                                                   *)
FairSpec == Spec /\ \A w \in Workers : WF_vars(ChatStep(w) \/ DeleteStep(w))
------------------------------------------------------------------------------
(* Every variable holds what its declaration says, and whoever serves a    *)
(* request about a conversation knows which.                               *)
TypeOK ==
  /\ index \in [Threads -> {"absent", "v2", "legacy"}]
  /\ memories \subseteq Record /\ quarantine \subseteq Nat
  /\ DOMAIN transcript = Threads
  /\ \A t \in Threads : Range(transcript[t]) \subseteq Message
  /\ cut \subseteq Workers /\ started \in Nat /\ DOMAIN request = Workers
  /\ \A w \in Workers : LET r == request[w] IN
       /\ Idle(w) \/ r.at \in ChatSteps \cup ForgetThreadSteps \cup ForgetUserSteps
       /\ r.at \in ChatSteps \cup ForgetThreadSteps \cup {"user_index"} => r.thread \in Threads
       /\ r.turn \in Nat /\ r.puts \in 0..MaxPuts /\ r.known \subseteq Record
       /\ Range(r.messages) \subseteq Message /\ r.threads \subseteq Threads

(* record_thread is "the only reason a complete delete is possible at all":*)
(* a conversation that has a transcript has an index entry to find it by,  *)
(* even when a chat or a delete dies half-way.                             *)
TranscriptIndexed ==
  \A t \in Threads : transcript[t] # <<>> => index[t] # "absent"

(* "Missing any one of them makes 'forget me' a lie": when forget_user is  *)
(* done, no memory, no quarantined text, no transcript and no entry of the *)
(* user is left, also when earlier requests and deletes died half-way.     *)
UserForgetIsComplete ==
  \A w \in Workers : UserForgotten(w) =>
    /\ memories = {} /\ quarantine = {}
    /\ \A t \in Threads : transcript[t] = <<>> /\ index[t] = "absent"

(* When forget_thread is done, neither the transcript nor anything learned *)
(* from the conversation is left.                                          *)
ThreadForgetIsComplete ==
  \A w \in Workers : ThreadForgotten(w) =>
    /\ transcript[Thread(w)] = <<>> /\ index[Thread(w)] = "absent"
    /\ \A m \in memories : m.thread_id # Thread(w)

(* A turn that was answered stays in its transcript, message and reply,    *)
(* until the conversation is deleted: turns that died half-way before or   *)
(* after it take nothing away.                                             *)
ReturnedTurnIsKept ==
  \A t \in Threads : \A n \in returned[t] :
    {Human(n), Ai(n)} \subseteq Range(transcript[t])

(* A delete of the user that is being served comes to its end.             *)
ForgetUserEnds ==
  \A w \in Workers : request[w].at \in ForgetUserSteps ~> Idle(w)

(* However turns of one conversation overlap, die and race deletes, a      *)
(* reply in a transcript follows the very message it answers.              *)
RepliesFollowTheirMessage ==
  \A t \in Threads : \A i \in DOMAIN transcript[t] :
    transcript[t][i].type = "ai" =>
      i > 1 /\ transcript[t][i - 1] = Human(transcript[t][i].turn)

(* "A legacy thread must not turn a complete-delete request into a silent  *)
(* partial deletion": while the user has a legacy conversation no entry of *)
(* one is overwritten or removed, and nothing quarantined is deleted.      *)
LegacyBlocksErase ==
  [][(\E t \in Threads : index[t] = "legacy") =>
       /\ quarantine \subseteq quarantine'
       /\ \A t \in Threads : index[t] = "legacy" => index'[t] = "legacy"]_vars

(* A delete of the user that no request was under way with when it began,  *)
(* and none joined, leaves no memory and no quarantined text, whatever     *)
(* overlapped before it.                                                   *)
UndisturbedForgetLeavesNoMemory ==
  \A w \in alone : UserForgotten(w) => memories = {} /\ quarantine = {}

(* "Three things have to go" (forget.py), transcripts among them: such a   *)
(* delete leaves no transcript either.                                     *)
UndisturbedForgetIsComplete ==
  \A w \in alone : UserForgotten(w) => \A t \in Threads : transcript[t] = <<>>
==============================================================================
