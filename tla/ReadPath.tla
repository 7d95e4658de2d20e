------------------------------- MODULE ReadPath -------------------------------
(***************************************************************************)
(* MemoryReader.recall over the store that WritePath fills: one search,    *)
(* whose matches are filtered in order until k live ones are found.  What  *)
(* recall may return in a state is a set of sets of records; the order,    *)
(* best first, is that of the ranking.                                     *)
(***************************************************************************)
EXTENDS WritePath

CONSTANTS
  Queries,  \* the messages asked about, up to the text they rank like
  TopK      \* limit, or else recall_top_k

ASSUME RecallAssumption == TopK \in Nat \ {0} /\ Queries \subseteq Texts

(* A faulty reader: it asks for as many matches as it returns.             *)
NoOverfetch == 1

Overfetch == 3   \* _OVERFETCH

(* A faulty filter: retired records pass.                                  *)
NotExpired(page) ==
  {m \in page : m.expires_at = NULL \/ m.expires_at > now}

(* The matches recall keeps.                                               *)
Relevant(page) == {m \in page : IsActive(m)}

Recalls(query) ==
  UNION {TopRanked(Relevant(page), query, TopK) :
           page \in TopRanked(memories, query, TopK * Overfetch)}
------------------------------------------------------------------------------
(* What the agent is told about a slot is the newest thing the user said   *)
(* about it: not what that replaced, nor what was forgotten or ran out.    *)
RecallsTheNewestStatement ==
  Quiet => \A q \in Queries : \A R \in Recalls(q) : \A m \in R :
    m.slot # UNSLOTTED => said[m.slot] # NULL /\ m.value = said[m.slot].value

(* As long as the matches fit the search, filtering after it loses nothing:*)
(* recall returns the k best live records there are, while turns run, too. *)
RecallIsTopK ==
  Cardinality(memories) <= 3 * TopK =>
    \A q \in Queries :
      Recalls(q) = TopRanked({m \in memories : IsActive(m)}, q, TopK)

(* "A user whose closest matches are all stale still gets live results     *)
(* instead of an empty recall" (docs/architecture.md): recall finds        *)
(* something for every user who has a live memory.                         *)
RecallFindsLive ==
  (\E m \in memories : IsActive(m)) => \A q \in Queries : {} \notin Recalls(q)
==============================================================================
