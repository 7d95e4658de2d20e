# A TLA+ model of Engram

Engram is a conversational agent with two kinds of memory: the transcript of
each conversation (a LangGraph checkpointer) and facts about the user that
outlive conversations (a LangGraph store). This directory models the parts of
it whose correctness depends on the order in which things happen, checks them
with TLC on small instances, and proves all the safety properties of its
passing runs with TLAPS for instances of any size: 39 theorems a reader should
know of, in eight proof modules.

## The system

| component | state it keeps | operations | what is hard about it |
|---|---|---|---|
| write path, `memory/manager.py` | records under `("memories", user)`; per turn a private copy of the active ones | `apply`: gate, extract, verify TTLs, reject empty values, then dedupe, supersede or write each candidate | several turns at once, no lock, whole records written back, failures between two puts |
| gate, `memory/gate.py` | blocked content under `("quarantine", user)` | `inspect`, `quarantine` | must hold for every later turn that dedupes or supersedes |
| extraction, `memory/extract.py` | none | LLM or rule extractor, `has_temporal_marker`, TTL validator | values that are not values, expiries nobody asked for |
| read path, `memory/read.py` | none | `recall` (over-fetch 3k, filter, keep k), `all_memories` | retired records compete for the places of live ones |
| delete path, `memory/forget.py` | the thread index `("threads", user)` | `record_thread`, `forget_memory`, `forget_thread`, `forget_user` | lists first and deletes later, dies half-way, races chats |
| identifiers, `threads.py` | none | `checkpoint_thread_id` | legacy entries must stop everything before it starts |
| agent, `graph.py` | a checkpoint after the input and after each node | `chat` (recall, respond, remember), `observe`, `forget`, `history` | two chats on one conversation, failures after the reply is saved |
| API, `api/` | the verifier and the agent, built at start-up | eight endpoints: token, body, owner, then the agent | order of checks, what a refused or failed call has already done, names users share, a clock read several times |
| evaluation, `eval/` | the store and transcripts of the current arm, results | cases, metrics, runner with its four arms, LoCoMo driver, judges | one store for many cases, what a fresh thread still knows, scoring arithmetic, gates |
| the rest: `models.py`, `embeddings.py`, `prompts.py`, `config.py`, `store.py`, `tracing.py`, `logging.py`, `infra/`, `scripts/` | connections, settings | calls to providers, wording, deployment | outside the model |

How they interact: the API runs each request on a thread pool, and several
tasks serve one database. A chat calls `record_thread`, then `graph.invoke`,
which loads the latest checkpoint, saves one with the user's message, runs
recall, respond and remember, and saves a checkpoint after each. Remember
calls `MemoryManager.apply`, which calls the gate, the extractor and then the
store, once per decision. Deletes call the same store and the checkpointer.
There is no lock and no transaction anywhere above a single store call, so one
store or checkpointer call is the unit of atomicity of every module here.

## Modules

| module | what it models |
|---|---|
| `UserFacts` | the promise: per slot at most one believed value, the newest statement wins, a value leaves only when forgotten or lapsed |
| `WritePath` | `MemoryManager.apply` with the gate and the store, `forget_memory` and the clock |
| `WritePathProofs` | theorems about `WritePath` and `Extraction` under any overlap of turns |
| `WritePathCalmProofs` | theorems about turns that follow one another, the refinement of `UserFacts` among them |
| `Extraction` | sentences to candidate facts, by rule and by model, and the turn `apply` meets; extends `WritePath` |
| `MCWritePath` | texts, turns and similarities for TLC; extends `Extraction` |
| `ReadPath` | `MemoryReader.recall` over the states of `WritePath` |
| `ReadPathProofs` | what recall returns |
| `MCReadPath` | queries and turns for TLC |
| `Conversation` | `Agent.chat`, `Agent.observe`, the thread index, the checkpoints, `forget_thread`, `forget_user` |
| `ConversationProofs` | what overlap cannot break, and what one request at a time keeps |
| `Paging` | `_all_keys` page by page, the deletions after it, and `ForgetReport` |
| `PagingProofs` | what a listing by offset finds |
| `Api` | start-up, authentication, ownership, the endpoints and their answers |
| `ApiProofs` | ownership, refusals and listings, for any traffic |
| `MCApi` | deployments for TLC |
| `Benchmark` | case files, arms, scoring and the gate of `eval/runner.py`, with the naive writer, mem0 and the stub model |
| `BenchmarkProofs` | what the benchmark measures, for any case files |
| `Locomo` | the LoCoMo driver and its judges, on the state of `Benchmark` |
| `LocomoProofs` | which answers the LoCoMo driver can get, for any dataset |
| `MCBenchmark` | case files, floors and datasets for TLC |

### WritePath

One user is modelled, because every namespace ends in the user. `memories` is
the set of records under `("memories", user)`; a record keeps what the write
path decides on: slot (attribute and scope), normalised value, provenance,
importance in tenths, expiry in days, `superseded_by`. Ids are numbered in the
order of creation, which stands for `created_at`. A candidate's text is its
slot and value; similarities of texts are the constant tables `Cosine` (what
`_cosine` computes, in hundredths) and `Rank` (how the vector index orders),
`Cosine[x][y]` being the similarity of the texts x and y. A turn of `Turns`
is the source of a text, whether the gate's markers match it, whether it carries
a temporal marker, and the candidates extracted from it; `Extraction` builds
these from sentences.

| action | code |
|---|---|
| `Quarantine(t)` | `apply` when the gate blocks |
| `BeginTurn(w, t)` | `apply` up to the one read of the active memories |
| `RestateSlot`, `RestateText` | `_resolve` finding a duplicate, with `_reinforce` and `_replace` |
| `Nearest` | the search and the cosine comparison of `_nearest` |
| `Contradict`, `Supersede` | the put of the new record, then one `_supersede` per stale copy |
| `Write` | the last lines of `_resolve` |
| `Abort` | any failure of a store call, the embedder or the process |
| `Forget`, `Tick` | `forget_memory`; a day passes |

`Spec` lets any number of turns overlap, fail anywhere and race deletes and the
clock. `CalmSpec` lets no turn fail and lets deletes and days happen only
between turns; with one worker, turns then do not overlap. `said`, `ended` and
`settled` are history variables: the newest statement per slot, the records
that were retired or forgotten, and those of them that no other turn held a
copy of at that moment.

### Extraction

A text is a sequence of sentences; a sentence says which patterns match it (an
instruction, an activity, a statement), which words of time it contains and what
the lexicon finds. From there on the code is followed: what is kept, the first
slot that hits, the expiry, the importance. The LLM extractor proposes anything
or, when the call fails, nothing; an answer that does not validate raises before
the first put, which is `Abort` of `WritePath`. Wherever facts come from, the
turn's own words decide what counts as temporary. The model's day stands for the
seven of `_TRANSIENT_TTL_DAYS` (`TransientTtl = 1`); `Activities` names the
notes that `ActivitiesExpire` is about. Questions are never facts according to
the prompt; the rule extractor has no such rule, and a question with a stative
verb in the first person is a statement to it ("Should I use emacs?").

### ReadPath

`Recalls(query)` is the set of results `recall` can return in a state: the
search may break ties either way. It is an operator over the state of
`WritePath` since recall changes nothing and makes one store call.

### Conversation

`index` is the thread index (`absent`, `v2`, or `legacy` for an entry written by
an old version), `transcript` the messages of each conversation's latest
checkpoint, `memories` records reduced to id and `thread_id`, `quarantine` the
keys of blocked texts. What the write path decides is left open: a turn reads
the memories once, then puts new records stamped with its conversation or puts
back copies it read. A checkpoint that changes the messages carries all of them;
the others (after recall and remember) only name the version saved before, so if
the conversation was deleted in between the latest checkpoint has no messages
(`cut`). Each checkpoint is taken to be saved before the next node starts. The
listings of the delete path are one step each (`Paging` takes them apart). A
request that is refused for a legacy entry changes nothing and is left out here
(`Api` has it). `Observe` is `Agent.observe` as the API lets it be called, with
sources that are not trusted; the evaluation drivers' replays are in
`Benchmark`.

### Paging

One namespace as the sequence of its keys in the order the back-end lists them:
insertion (the in-memory dictionary) or most recently updated first (Postgres).
`Begin`, `NextPage` (one search of `_all_keys`), `DeleteKey`, `Finish` are a
delete of the user or of a conversation; `PutKey` and `ForgetMemory` are what
others do meanwhile, without bound. `task` is the delete's own state (the keys
left to delete are places in what it found, so that a key listed twice is
deleted twice, as the code does), `seen` a history of what happened to the
namespace. What it shows of the code: offsets make a listing blind to records
behind the offset when a record before it is deleted, or, in Postgres's order,
to a record that is updated while listed. Such a record survives the delete. A
report may then count a record twice, or one that another delete removed.

### Api

`request[w]` is what a thread of the pool serves. `Arrive` is the part of a
request that touches nothing: can the body be read, who is it (`current_user`),
has the body its fields, is it the owner, may the endpoint be told such a thing;
it ends in an answer or at the endpoint's first store call. A body that is no
JSON is refused before the credential is looked at, one that lacks a field after
it. Every endpoint has a `require_owner` call of its own, and `Owned` names
them: leaving one out is leaving out that call. The endpoints then make their
calls one by one, and may fail with 500 after any of them (`Fail`). The agent is
modelled as far as the surface tells it apart: a chat records the thread,
extends the transcript and leaves a record, a contradiction, a quarantined text
or nothing. `by` remembers whose credential a stored thing came in under, which
the program does not. A listing reads the store once and the clock several
times, so `ListShow`, `ListCount` and `ListAnswer` are steps. A delete of the
user finds the records (`FindMemories`), deletes them by their keys and reports
how many it found; `audit` remembers the total of a user's last listing until a
memory of the user changes, and `promised` is what a delete finds there when it
begins. `ShownIsWhatIsErased` compares the delete's report with it: the same
number, or at least as many if the listing was full. With authentication off
everybody may do everything, as the code has it; `OwnersOnly` is about
`cognito`.

### Benchmark

One run of `engram.eval.runner`: `Load` validates a case file and samples it,
`ReplayTurn` feeds one turn to the agent or to `observe`, `Probe` asks in a new
conversation and scores, `NextArm` starts over with an empty backend, `Gate`
turns floors into an exit code (`phase`). The runner is sequential; what varies
is the case file, the arms, the limit, the floors, the model and how recall
ranks. A text is the set of claims in it, which is all that substring matching
sees; `EvalCase` and `Turn` are the types of a case and of a turn, and
`BenchmarkAssumption` says that files are made of them. The manager's `apply` is
reduced to the records it leaves when turns do not overlap, fact by fact as
`_resolve` takes them; `WritePath` is where that is justified. A turn knows of
the first `MaxExisting` records of its user (500 in the code, retired ones
included) and of those it put itself; an older live value that the listing does
not reach stays live. Texts without an attribute are taken to be near when they
make the same claims. Scoring reads a listing of at most `MaxListed` records
before it looks at which are live: 1000 for `MemoryReader`, 500 for mem0's own
reader. Recall returns nothing for a blank text and otherwise what is live among
the `Overfetch * TopK` best records. The user key joins case id and user with a
colon; ids and users are sequences of the parts between colons, so that the join
is a concatenation. In the checked files, as in those of the repository, no id
holds a colon: two ids of which one is a prefix of the other (`a` with user
`b:c`, `a:b` with user `c`) would share a key, and `CasesDoNotLeak` does not
hold for them. Thread names are joined with a colon likewise. What an external
model replies to a prompt is the constant `ExternalReplies`, of which nothing is
assumed: a real model adds guesses of its own ("A real model produces plausible
defaults", `docs/evaluation.md:91-93`) and leaves things out. So the properties
speak of what a model is given (`prompt` of a result) and of the reply of the
stub, which repeats the memory block; in particular `ControlKnowsNothing` does
not say that the control arm scores nothing with a real model. The store of the
`mem0` arm is external: one call may delete, rewrite and keep any of its user's
records, or do nothing, whatever the source of the text. Building that arm
raises without a real model or without the extra, after the arms before it have
run (`Mem0Raises`). With `--arms manager mem0` the last arm, which the floors
judge, is mem0, so `GateIsSound` speaks of the selections without it. It holds
for replies of any model: what it compares exit code 0 with are the replies
themselves.

### Locomo

One run of `engram.eval.locomo` on the variables of `Benchmark`: `Ingest` feeds
a turn to the write path, sessions in the order of their numbers; `Ask` asks a
question in a thread of its own and grades the answer; `NextConversation` counts
what is live among the records one listing returns; `Report` ends. `InOrder` is
the sort of the sessions, written as the place each has in the sorted list: the
session that k sessions come up to is the k-th, sessions with one number keeping
the order of the file. `Turns` puts their utterances one after the other.
`LocomoAssumption` gives the types the loader makes; all that is said, by either
speaker or as a question, has the provenance of the user. Questions are
remembered like any turn. What the grading does at its edges is in `Grades`: an
adversarial question is right when the answer declines anywhere in it, even when
it repeats the trap too, and a question without a gold answer is right by the
substring judge whatever the answer. Nothing makes sample ids unique, and the
properties speak of conversations whose id is. Both speakers of a conversation
are one user, so with an extractor that does not put the speaker into the slot
(the rule extractor), what one of them states retires what the other did;
`AnswersAreCurrent` takes a slot to be the conversation's. A conversation of
hundreds of turns can have more records than a listing: past `MaxExisting` a
value that was taken back may stay live and be given to the model, past
`MaxListed` the report counts fewer than are live. The properties say so: the
first speaks of conversations that fit, the second bounds the count by what is
live and equates them when every conversation fits.

## Runs

All cfgs set `CHECK_DEADLOCK FALSE`: requests are bounded, and when all are
served nothing is left to do.

| run | question | bounds |
|---|---|---|
| `write_calm` | turns one after another: one live record per slot, no near-duplicates, nothing comes back, only meant expiries and none missing, reinforcement is not lost, `UserFacts` is implemented; recall over every store they leave | 1 worker, 12 kinds of turn from both extractors, 4 turns, days 0-2, 2 slots, 3 values, k = 1 |
| `write_overlap` | turns that overlap, die and race deletes: types, history, settled records, the gate | 2 workers, 5 kinds of turn, 3 turns, days 0-1, a turn sees 2 records |
| `write_race` (violation) | do two overlapping turns leave a slot with two live values? | 2 workers, 2 turns |
| `write_undelete` (violation) | does a restatement bring a deleted record back? | 1 worker |
| `write_durable` (violation) | does a durable restatement survive the expiry of the temporary one? | 1 worker, 2 turns, days 0-1 |
| `read_starved` (violation) | is recall ever empty while something live is stored? | 4 turns, k = 1 |
| `conv_calm` | one request at a time, dying anywhere | 1 worker, 2 conversations, 4 requests, 1 put per turn |
| `conv_overlap` | two requests at a time, dying anywhere | 2 workers, 2 conversations, 3 requests |
| `conv_orphan` (violation) | can an undisturbed delete of the user miss a transcript? | 2 workers, 1 conversation, 3 requests |
| `paging` | what can a listing by offset miss or repeat, is the report exact, does the delete end? | 3 keys, pages of 2, both orders, puts and deletes unbounded |
| `api` | does a user see and change only their own, do refusals change nothing, do listings add up, does the report of a delete agree with what was listed? | 2 threads, 2 users, 1 conversation name, 2 requests of any kind, days 0-1, limits of 3 memories and 1 quarantined, stores of 2 and 4 memories of one user |
| `bench` | do cases stay apart, is the control given nothing but the probe, do conflict cases tell the writers apart, does exit code 0 mean what the floors say; are LoCoMo's answers made of current values and its conversations apart? | 11 case files of at most 3 cases, 9 choices of arms, limits -1, 0 and 1, 6 floors, the stub and a model that tells all, nothing or a guess, k = 2, over-fetch 3, a turn sees 4 records, scoring 6 (mem0: 3); 4 datasets of 1 or 2 conversations, at most 3 sessions and 3 questions |

Why these bounds are enough for the cases that matter: four turns fill a slot,
contradict it, return to the first value and restate it; a turn with two
candidates meets its own writes; two workers make every two-party race, and the
third turn or request is the observer that comes after it; two days separate
"before", "at" and "after" an expiry of one day; two similar texts at exactly
the threshold separate `>=` from `>`; with k = 1 three records fill the
over-fetch and the fourth exceeds it. In `write_overlap` `MaxExisting` is 2 and
three turns write up to four records, so a turn may not see what it should
retire; the other runs keep it above the number of records, and all keep
`DedupeCandidates` there. Three keys are a full page and one that is not; two
requests are the two that race, or the listing and the delete after it; the
stores a deployment starts with hold a retired, a temporary and a durable
memory, and one of them exceeds the limit of a listing. A value that moves seven
times (`Moves`) makes more records than a turn sees, a recall looks at and a
listing scores; a file and a conversation consist of it, so the cases past those
limits are in the run. Sessions 1, 2 and 10 come in the wrong order in the file
and by name. `write_overlap` and `api` are checked up to a renaming of the
workers, which nothing tells apart; they check safety only.

## What the violated runs show

* Two turns that fill the same slot at once both write, and both values stay
  live (`write_race`), against "Never keep both live" in `manager.py`. A turn
  that fails after the put of the new record and before the last supersession
  leaves the same state without overlap: checking `NoLiveContradiction` under
  `Spec` with one worker shows it.
* `_reinforce` puts back a whole record: a restatement under way when the
  record is deleted stores it again (`write_undelete`).
* A durable restatement of a temporary fact is a duplicate of it and keeps its
  expiry (`write_durable`).
* Four versions of a slot are enough to make recall with k = 1 empty although
  one is live (`read_starved`): over-fetching moves the limit, it does not
  remove it.
* A chat that overlaps the delete of its conversation saves checkpoints after
  the index entry is gone; a later complete delete, alone, does not find that
  transcript (`conv_orphan`).

One wording is looser than the code: `config.py:114` speaks of similarities
"above" `dedupe_similarity`, while `_nearest` compares with `>=`. The model
follows the code, and `NoNearDuplicates` is checked with two texts at exactly
the threshold.

## Fairness

Safety needs none. `Conversation!FairSpec` asks weak fairness of each worker's
next call in a request that has begun, and of nothing else: calls hold no lock
and wait for no other request, so a scheduled thread makes its next call. No
fairness is asked of requests or failures. Under it a delete of the user ends
(`ForgetUserEnds`); with a loop that does not advance it does not.
`Paging!FairSpec` asks the same of the delete that is followed, and shows that
it ends although nothing bounds what others put and delete under it
(`DeleteEnds`): the keys are finite and every page moves the offset on. With an
unbounded supply of new keys a listing in order of insertion could go on for
ever; that is outside the finite model.

## Proofs

All theorems hold for any constants that satisfy the assumptions named in the
modules: any number of workers, users, conversations, slots, values, turns,
keys, cases and requests, any similarity, page size and limit. TLC evaluates the
assumptions in the runs. The ones that say something of the program:
`SimilarityAssumption` (a cosine is between -1 and 1), `StoresAssumption` (what
a deployment starts with was stored by its owners, under ids that are not drawn
again: UUIDs), `PagesAssumption` (a page holds at least one key; the keys are
finitely many), `BenchmarkAssumption` (case files have the type the loader
validates, with finite lists of markers; at least one arm is selected),
`ExtractionAssumption` (the lexicon is a list of all slots, the short expiry is
positive), `LocomoAssumption` (datasets are sequences of what
`_parse_conversation` makes). Every theorem is one inductive invariant away from
its property, and the invariants were checked by TLC on the instances of the
runs before they were proved.

**WritePathProofs**, about `Spec`: turns overlap, fail and race deletes.
`TypeCorrect`; `HistoryIsSound` (`superseded_by` always names a younger record of
the same slot with another value, so following it ends); `SettledIsFinal`
(a write-back can revive only a record some other turn had a copy of when it was
retired or deleted); `GateIsSound` (every stored memory is a usable fact of a turn
the gate allowed); `ExpiryIsSupported` (a memory expires only if its turn spoke
of something temporary). `TypeOK` says nothing of private copies, and the
properties are about stored records, which puts of private copies overwrite; so
`IInv` adds that every record anyone holds (stored, copied, matched, pending) is
a usable fact of an allowed turn, has an expiry if and only if that turn gives
the fact one, and agrees on slot and value with every other copy of the same id
(`CopiesOK`), that the fields of a turn agree with its
program counter (`TurnOK`), that pending retirements go to a younger record of
the same slot (`HistoryOK`), and that no turn can write back a settled record as
live (`SettledOK`). The last needs the remark that a pending replacement counts
as held: it joins what its turn knows once the last stale record is retired.
`ActivitiesDoExpire` joins this to the extractors: the sentence behind an
activity's note was kept because of a word in `TransientWords`, every such word
is in `TemporalMarkers` too, so the rule's expiry stands and nothing later takes
it away. That the k-th fact belongs to a kept sentence is a count of places
(`NthPlace`). Its hypothesis, `SpeaksOfActivities`, says of each turn what
`Activities` means: only an activity that is no instruction leaves such a note,
and no model proposes one (a model that does, without an expiry, is free to).

**WritePathCalmProofs**, about `CalmSpec`: turns run to their end one after the
other. `SlotsHoldOne` (two live records of a slot only while the turn that wrote
the newer one is retiring the older), `EndedForGood` (nothing retired or
forgotten comes back), `RestatingCounts` (an action property: a reinforcement is
never lost), `NotesAreUnlike` (no live near-duplicates among records without a
slot) and `UserFactsAreKept`, the refinement: `CalmSpec` implements `UserFacts`,
initial states to initial states and every step to a step or a stutter. The
invariant is `CalmInv`; at its core is `TurnKnows`: before every decision the
private copy of the turn is the set of live records, so what is decided of the
copy is true of the store; while a slot is being retired the two differ by
exactly the replacement. The theorems have three hypotheses. `OneWorker`: one
turn at a time, which is the case of a user who talks in one conversation; with
two workers `write_race` violates the first. `[]StoreFits`: the store never
holds more records than one listing returns (`MaxExisting`, 500 in the code,
retired records included); `[]SearchFits`, for `NotesAreUnlike` only: nor more
than the dedupe search returns (ten in the code, so this theorem is about small
stores, which is what the hazard about crowded-out duplicates says). Each names
the theorems it is needed for; none is an assumption on a constant.

**ReadPathProofs**: `RecallIsExact` (what the over-fetching search and the filter
return are the k best live records, as long as the over-fetch covers the store;
true in every state of any overlap) and `RecallIsCurrent` (between turns that
follow one another, what recall tells about a slot is the newest statement),
from `CalmInv`.

**ConversationProofs**: one invariant for three degrees of disturbance. Under any
overlap: `TypeCorrect`, `RepliesFollow` (in every checkpoint a reply follows its
message, since what a chat carries is paired too, `PairedOK`) and `LegacyIsKept`
(an action property: no step overwrites or removes a legacy entry or deletes
quarantined text while one is there, since a delete past its check is evidence
that there was none, and chats write only new entries, `LegacyOK`). For a
delete that no other request overlaps: `UndisturbedErases`; the invariant says
of each of its steps what is known to be left (`KnowsAll`). For one worker, with
requests dying at any step: `TranscriptsAreFound`, `UserIsForgotten`,
`ThreadIsForgotten`, `TurnsAreKept`; what a chat carries is what its transcript
holds, and a transcript is gone before its index entry is (`SoloOK`). That
`UserIsForgotten` needs one worker is what `conv_orphan` shows.

**PagingProofs**: `TypeCorrect`, `OnlyDeletesHide` (without a delete under it a
listing by offset finds every record there was or, in order of recency, every
one that was not updated meanwhile) and `DeletesAreExact` (an undisturbed delete
removes exactly what there was and reports that number). The invariant relates
the keys found to the offset: in order of insertion they are the beginning of
the listing (`Prefix`); in order of recency a record is found, ahead of the
offset, or updated (`Hidden`); the keys dealt with are those removed (`Exact`).

**ApiProofs**: `TypeCorrect`, `OwnershipIsKept`, `RefusalsAreClean`,
`ListingsAddUp` and `TotalsAreTrue`. The properties speak of answers; `IInv`
follows a request from its arrival: under authentication it is its owner's once
it is past the checks (`OwnRequest`), what may still be refused has changed
nothing (`RefusalOK`), what a listing counted before is still in order
however many of its records have lapsed since (`Listing`), what was last listed
agrees with what is stored (`AuditOK`), and a delete under way has found, and
will report, a number that agrees with what was promised when it looked
(`ErasuresOK`), whatever others store meanwhile. `ListingsAddUp` needs
the clock to go forward only.

**BenchmarkProofs**: `TypeCorrect`; `SampleBalanced` (the first case of a kind
has none of its kind before it, so it is sampled under any positive limit);
`ControlIsBlind`; `OneRecordPerAttribute`; `NoCaseLeaks`;
`ConflictsTellWriters`; `GateKeepsItsWord`. The invariant says that records and
messages are those of cases up to the current one, each under that case's key
and with claims said in it (`HeldOK`, `HeardOK`), that nothing was said in the
conversation of the current probe, since no session of a case uses it and no
other case has its id, and that the manager holds one live record per attribute
and key as long as one listing holds all the records of that key (`SlotOK`). For
`ConflictsTellWriters` it also says what the turns replayed so far have left in
the store (`ToldOK`): under the naive writer at most one record a turn, all of
them live, every fact among them; under the manager, as the only value of its
attribute, the last fact told. So all that is live fits into one recall, the
retracted claim is in the naive reply, and the manager's has the new one alone.
`GateKeepsItsWord` needs that a result counts what it says (`CountedOK`) and
that nothing is scored after the gate (`PassedOK`); then a floor of 100 percent
that is kept is a sum of parts no smaller than the sum of the wholes, each part
no larger than its whole, so every part is its whole (`TotalsCompare`), and a
floor kept by nothing is not kept (`KeptFloor`).

One hypothesis is about case files, not about the code. `KeysTellCases`, of
`NoCaseLeaks`, `ControlIsBlind` and `ConflictsTellWriters`: keys tell cases
apart; `PlainIdsTellCases` shows that it holds for files whose ids hold no
colon, such as `eval/cases/core.jsonl` and the files of the `bench` run. The
other conditions are in the properties: `TakesBack` asks of a conflict case that
its probe is not blank and makes no rejected claim and that its turns fit into
one recall and one listing; `RetiredIsNotClutter` asks that the case's records
fit into one. The lemmas before the invariant say what `Kept` selects
(`KeptIsThat`, `PlaceIsNth`) and that flattening sequences gives a sequence
(`FlattenIsSeq`). Facts about a recursive function or about counting, which
would be inductions, are proved by the least counterexample (`LeastOf`).

**LocomoProofs**, about `LocomoSpec`: `AnswersStayCurrent` and
`ConversationsAreApart`. The first half is about data: flattening puts the j-th
utterance of the i-th session where the lengths before it add up to
(`FlattenPlaces`, `EndsGrow`, `PlaceSplits`), ranks are places (`RanksAgree`,
`SessionsSorted`), and so every utterance of `Turns` is one that was told, in
the order `After` gives them (`TurnsAreTold`, `ToldSoFar`). The second half is
the invariant `LocomoInv`, which TLC checked on the datasets of the `bench` run.
Answers are made of records and messages, so it follows both: a record belongs
to a conversation reached so far and repeats an utterance that conversation has
come to (`StoredOK`); a message is in the thread of a question already asked, so
the next question finds its own thread empty (`AskedOK`); with the manager, as
long as a listing holds the current conversation's records (`Fits`), a live one
repeats a fact that nothing replayed since took back, one record per slot
(`StandingOK`); what has been counted is at most the number of live records of
the conversations that are over, and that number if a listing holds the records
of each (`KeptOK`, `ListedBefore`). Since records are only added or retired, a
conversation that fits at the end fitted all along. Then an answer is honest
when it is given (`AnswerIsHonest`), and stays so since the dataset does not
change (`GradedOK`). Both properties speak of conversations with a sample id of
their own; uniqueness is what makes a record under their key theirs
(`UniqueKey`).

Only model-checked:

* liveness: `ForgetUserEnds`, `DeleteEnds`; out of the prover's reach;
* the violated runs, which are counterexamples and not claims.

## Not modelled

Wording, prompts, logging, spans; the providers behind the chat model and the
embedder; the marker, temporal, slot and refusal patterns as regular expressions
(which of them match is an input); connections and set-up in `store.py`, where
the rollback of a half-opened back-end is the work of an `ExitStack`; deployment
and scripts, which hold no logic of the program. The store and the checkpointer
are modelled from the calls the code makes: atomic per call, as both back-ends
are. Of a token, only the user a valid one names; signatures and claims are the
library's. Of the evaluation, the wiring of mem0 (a reset that fails leaves an
earlier run's records in its store) and the printed averages. Configuration is
the constants: `build_writer` of `graph.py`, which the agent uses, leaves the gate
at its default, and `ScanTrusted` is TRUE in the runs accordingly.

## Plan

1. Done: `UserFacts`, `WritePath`, its proofs, `Extraction`, `ReadPath`,
   `Conversation`, `Paging`, `Api`, `Benchmark`, `Locomo`.
2. Done: types and the safety of every component; the refinement of `UserFacts`;
   recall; what the benchmark and the LoCoMo driver measure; the expiry of
   activities, across the extractors and the write path.
3. Left: a promise of the delete path that several workers keep, as an abstract
   specification that `Conversation` implements; the dedupe search when retired
   records crowd out live ones; the wiring of mem0.
