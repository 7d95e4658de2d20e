---------------------------- MODULE ReadPathProofs ----------------------------
(***************************************************************************)
(* What recall returns, for any similarity, any queries and any limit:     *)
(* proofs about ReadPath over the write path that fills its store.         *)
(***************************************************************************)
EXTENDS ReadPath, WritePathCalmProofs

(* What a search returns is among what it searches.                        *)
LEMMA TopRankedAmong ==
  ASSUME NEW S, NEW text, NEW n, NEW T \in TopRanked(S, text, n)
  PROVE  T \subseteq S
BY DEF TopRanked, Listed

(* A search that fits returns everything.                                  *)
LEMMA TopRankedAll ==
  ASSUME NEW S, NEW text, NEW n, Cardinality(S) <= n
  PROVE  TopRanked(S, text, n) = {S}
BY DEF TopRanked, Listed

(* What is recalled is live.                                               *)
LEMMA RecalledIsLive ==
  ASSUME NEW q, NEW R \in Recalls(q), NEW m \in R
  PROVE  m \in Live
<1>1. PICK page \in TopRanked(memories, q, TopK * Overfetch) :
        R \in TopRanked(Relevant(page), q, TopK)
  BY DEF Recalls
<1>2. page \subseteq memories
  BY TopRankedAmong
<1>3. R \subseteq Relevant(page)
  BY <1>1, TopRankedAmong
<1> QED BY <1>2, <1>3 DEF Relevant, Live

(* As long as the matches fit the search, filtering after it loses         *)
(* nothing, whatever turns are under way.                                  *)
THEOREM RecallIsExact == Spec => []RecallIsTopK
<1>1. RecallIsTopK
  <2> SUFFICES ASSUME Cardinality(memories) <= 3 * TopK, NEW q \in Queries
               PROVE  Recalls(q) = TopRanked({m \in memories : IsActive(m)}, q, TopK)
    BY DEF RecallIsTopK
  <2>1. Cardinality(memories) <= TopK * Overfetch
    <3>1. TopK * Overfetch = 3 * TopK
      BY RecallAssumption DEF Overfetch
    <3> QED BY <3>1
  <2>2. TopRanked(memories, q, TopK * Overfetch) = {memories}
    BY <2>1, TopRankedAll
  <2>3. Recalls(q) = TopRanked(Relevant(memories), q, TopK)
    BY <2>2 DEF Recalls
  <2> QED BY <2>3 DEF Relevant
<1> QED BY <1>1, PTL

(* Between turns that run one after the other, what the agent is told      *)
(* about a slot is the newest thing the user said about it.                *)
THEOREM RecallIsCurrent ==
  OneWorker => (CalmSpec /\ []StoreFits => []RecallsTheNewestStatement)
<1> SUFFICES ASSUME OneWorker
             PROVE  CalmSpec /\ []StoreFits => []RecallsTheNewestStatement
  OBVIOUS
<1>1. ASSUME IInv, CalmInv, Quiet, NEW q, NEW R \in Recalls(q), NEW m \in R,
             m.slot # UNSLOTTED
      PROVE  said[m.slot] # NULL /\ m.value = said[m.slot].value
  <2>1. m \in Live
    BY RecalledIsLive
  <2>2. ~BeingRetired(m)
    BY <1>1, QuietTurns
  <2> QED BY <1>1, <2>1, <2>2 DEF CalmInv, SaidLives
<1>2. IInv /\ CalmInv => RecallsTheNewestStatement
  BY <1>1 DEF RecallsTheNewestStatement
<1> QED BY <1>2, CalmInvariance, PTL
==============================================================================
