------------------------------ MODULE UserFacts ------------------------------
(***************************************************************************)
(* What long-term memory promises about the slots of one user: each slot   *)
(* holds at most one believed value, the newest statement about it wins,   *)
(* and a value leaves only because the user asked for it to be forgotten   *)
(* or because it was stated as temporary.  Nothing here says how beliefs   *)
(* are stored; WritePath implements this module when turns do not overlap. *)
(***************************************************************************)
CONSTANTS Slots,   \* the (attribute, scope) pairs a fact can fill
          Values,  \* what can fill them
          NULL     \* no value

VARIABLES belief,     \* belief[s]: the value the agent would act on
          said,       \* said[s]: the value of the last statement about s
          temporary   \* the believed slots whose value will lapse

factVars == <<belief, said, temporary>>

TypeOK ==
  /\ belief \in [Slots -> Values \cup {NULL}]
  /\ said \in [Slots -> Values \cup {NULL}]
  /\ temporary \subseteq {s \in Slots : belief[s] # NULL}

Init ==
  /\ belief = [s \in Slots |-> NULL]
  /\ said = [s \in Slots |-> NULL]
  /\ temporary = {}

(* The user states that s is v.  A restatement of what is already believed *)
(* keeps the lifetime that belief has.                                     *)
State(s, v) ==
  /\ belief' = [belief EXCEPT ![s] = v]
  /\ said' = [said EXCEPT ![s] = v]
  /\ IF belief[s] = v
       THEN UNCHANGED temporary
       ELSE temporary' \in {temporary \ {s}, temporary \cup {s}}

(* The user asks for the believed value of s to be forgotten.              *)
Forget(s) ==
  /\ belief[s] # NULL
  /\ belief' = [belief EXCEPT ![s] = NULL]
  /\ said' = [said EXCEPT ![s] = NULL]
  /\ temporary' = temporary \ {s}

(* Temporary values run out, several at once when they share an expiry.    *)
Lapse(S) ==
  /\ S \subseteq temporary
  /\ belief' = [s \in Slots |-> IF s \in S THEN NULL ELSE belief[s]]
  /\ temporary' = temporary \ S
  /\ UNCHANGED said

Next ==
  \/ \E s \in Slots, v \in Values : State(s, v)
  \/ \E s \in Slots : Forget(s)
  \/ \E S \in SUBSET temporary : Lapse(S)

Spec == Init /\ [][Next]_factVars

(* No slot is ever believed to hold anything but its newest statement.     *)
NewestStatementWins == \A s \in Slots : belief[s] \in {said[s], NULL}
==============================================================================
