-------------------------------- MODULE Paging --------------------------------
(***************************************************************************)
(* How a delete finds the records of one namespace: _all_keys asks for     *)
(* page after page, each at the offset the ones before it add up to, while *)
(* other requests put and delete records; then the records are deleted one *)
(* call at a time and counted in a ForgetReport.                           *)
(*                                                                         *)
(* The namespace is the sequence of its keys in the order of a listing.    *)
(* The set of keys is finite, the number of puts and deletes is not.  One  *)
(* delete is followed; others at work are single deletes in between.       *)
(***************************************************************************)
EXTENDS Integers, Sequences, FiniteSets, Functions, SequencesExt

CONSTANTS
  Keys,      \* keys the namespace may hold
  Stamped,   \* those of records learned on the conversation being deleted
  Orders,    \* how the backends list: subsets of {"insertion", "recency"}
  PageSize   \* _PAGE

ASSUME PagesAssumption ==
  /\ IsFiniteSet(Keys) /\ Stamped \subseteq Keys
  /\ Orders \subseteq {"insertion", "recency"}
  /\ PageSize \in Nat \ {0}

VARIABLES
  order,    \* the order of this backend
  listing,  \* the keys of the namespace, in that order
  task,     \* what the delete has found and what it has to do
  seen      \* history: what happened to the namespace meanwhile

vars == <<order, listing, task, seen>>

(* kind: forget_user deletes all it finds, forget_thread what is stamped.  *)
(* todo: the places in found of the keys that are still to be deleted.     *)
NoTask == [phase |-> "idle", kind |-> "user", offset |-> 0, found |-> <<>>, todo |-> {}]

(* before: the keys there were at the beginning; put: keys that were put   *)
(* during the listing; shrunk: a record was deleted during the listing;    *)
(* calm: nobody else changed the namespace; removed: records that the      *)
(* delete's own calls removed.                                             *)
Unseen == [before |-> {}, put |-> {}, shrunk |-> FALSE, calm |-> TRUE, removed |-> {}]

Stored == Range(listing)
Lists == task.phase = "list"
------------------------------------------------------------------------------
(* The backends: a dictionary keeps a key in its place when it is put      *)
(* again, Postgres lists what was updated last first.                      *)
AfterPut(k) ==
  CASE order = "recency" -> <<k>> \o RemoveFirst(listing, k)
    [] order = "insertion" /\ k \in Stored -> listing
    [] OTHER -> Append(listing, k)

Page(offset) ==
  LET end == offset + PageSize
  IN SubSeq(listing, offset + 1, IF end < Len(listing) THEN end ELSE Len(listing))

(* A faulty offset: one record is passed over after every page.            *)
OffsetPastOne(offset, page) == offset + Len(page) + 1

OffsetAfter(offset, page) == offset + Len(page)

(* A faulty end: a page that is not full is taken for the empty one.       *)
IsNotFull(page) == Len(page) < PageSize

IsLast(page) == page = <<>>

(* The places of the keys to delete, and the first of those still to do.   *)
Selected ==
  {i \in DOMAIN task.found : task.kind = "user" \/ task.found[i] \in Stamped}

Current == Min(task.todo)

(* A faulty loop: a key is deleted again until it is seen to be gone.      *)
UntilGone ==
  IF task.found[Current] \in Stored THEN task.todo ELSE task.todo \ {Current}

Remaining == task.todo \ {Current}
------------------------------------------------------------------------------
Init ==
  /\ order \in Orders /\ listing = <<>>
  /\ task = NoTask /\ seen = Unseen

(* Another request changes the namespace, by a put of the keys in P or by  *)
(* a delete.                                                               *)
Noted(P, deleted) ==
  seen' = IF task.phase \in {"idle", "done"} THEN seen
          ELSE [seen EXCEPT !.calm = FALSE,
                  !.put = IF Lists THEN @ \cup P ELSE @,
                  !.shrunk = @ \/ (Lists /\ deleted)]

(* record_thread, a turn or the gate puts a record, a new or a known one.  *)
PutKey(k) ==
  /\ listing' = AfterPut(k)
  /\ Noted({k}, FALSE)
  /\ UNCHANGED <<order, task>>

(* forget_memory, or any other delete of one record.                       *)
ForgetMemory(k) ==
  /\ k \in Stored
  /\ listing' = RemoveFirst(listing, k)
  /\ Noted({}, TRUE)
  /\ UNCHANGED <<order, task>>

Begin(kind) ==
  /\ task.phase = "idle"
  /\ task' = [NoTask EXCEPT !.phase = "list", !.kind = kind]
  /\ seen' = [seen EXCEPT !.before = Stored]
  /\ UNCHANGED <<order, listing>>

(* One search of _all_keys.                                                *)
NextPage ==
  LET page == Page(task.offset)
  IN /\ Lists
     /\ task' =
          IF IsLast(page) THEN [task EXCEPT !.phase = "delete", !.todo = Selected]
          ELSE [task EXCEPT !.offset = OffsetAfter(@, page), !.found = @ \o page]
     /\ UNCHANGED <<order, listing, seen>>

(* One delete; deleting what is gone already is no error.                  *)
DeleteKey ==
  LET k == task.found[Current]
  IN /\ task.phase = "delete" /\ task.todo # {}
     /\ listing' = RemoveFirst(listing, k)
     /\ task' = [task EXCEPT !.todo = Remaining]
     /\ seen' = [seen EXCEPT !.removed = @ \cup ({k} \cap Stored)]
     /\ UNCHANGED order

(* The report counts what was listed and selected, not what was removed.   *)
Report == Cardinality(Selected)

Finish ==
  /\ task.phase = "delete" /\ task.todo = {}
  /\ task' = [task EXCEPT !.phase = "done"]
  /\ UNCHANGED <<order, listing, seen>>

Delete == NextPage \/ DeleteKey \/ Finish

Next ==
  \/ \E k \in Keys : PutKey(k) \/ ForgetMemory(k)
  \/ \E kind \in {"user", "thread"} : Begin(kind)
  \/ Delete

Spec == Init /\ [][Next]_vars

(* A request that was taken up is served: its thread is not starved.       *)
FairSpec == Spec /\ WF_vars(Delete)
------------------------------------------------------------------------------
(* Properties.                                                             *)

Found == Range(task.found)
HasListed == task.phase \in {"delete", "done"}

(* The types of the variables: no key is stored twice, and the offset of a *)
(* listing is the number of keys it returned so far.                       *)
TypeOK ==
  /\ order \in Orders /\ IsInjective(listing) /\ Stored \subseteq Keys
  /\ task.phase \in {"idle", "list", "delete", "done"}
  /\ task.offset = Len(task.found) /\ task.offset <= Cardinality(Keys)
  /\ Found \subseteq Keys /\ seen.removed \subseteq Found

(* A delete nobody interferes with removes exactly the records there were, *)
(* all pages of them, and its report is the number it removed ("What a     *)
(* delete actually removed", ForgetReport).                                *)
UndisturbedDeleteIsExact ==
  task.phase = "delete" /\ task.todo = {} /\ seen.calm =>
    LET due == IF task.kind = "user" THEN seen.before ELSE seen.before \cap Stamped
    IN /\ due \cap Stored = {} /\ due \subseteq Found
       /\ Report = Cardinality(due) /\ seen.removed = due

(* Only a delete under a listing can hide records from it: without one,    *)
(* every record there was is found, however many are added and updated     *)
(* between the pages, except, by recency, an updated one that jumped over  *)
(* the offset.  In order of insertion it repeats none either, so that no   *)
(* report counts a record twice (_all_keys).                               *)
OnlyDeletesHideRecords ==
  ~seen.shrunk =>
    /\ HasListed =>
         seen.before \ Found \subseteq IF order = "recency" THEN seen.put ELSE {}
    /\ order = "insertion" => IsInjective(task.found)

(* However often records are put under it, a delete ends: the offset moves *)
(* on with every page, and what was found is deleted once, not until none  *)
(* is left.                                                                *)
DeleteEnds == Lists ~> task.phase = "done"
==============================================================================
