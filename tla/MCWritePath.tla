----------------------------- MODULE MCWritePath -----------------------------
(* Instances of WritePath for TLC: the turns, texts and similarities that   *)
(* the runs of the write path offer.  The turns come out of the extractors. *)
EXTENDS Extraction, TLC

CONSTANTS team, home, alpha, beta, unknown

AllTexts == {team, home, UNSLOTTED} \X {alpha, beta, unknown}

(* Two texts are near, at exactly the threshold, when their values agree.   *)
MCCosine ==
  [x \in AllTexts |-> [y \in AllTexts |->
     CASE x = y -> 100
       [] x # y /\ x[2] = y[2] -> 90
       [] OTHER -> 40]]

MCLexicon == <<team, home>>

(* "I am on the alpha team": a statement whose value the lexicon knows.     *)
Finding(finds) ==
  [directive |-> FALSE, activity |-> FALSE, states |-> TRUE, words |-> {},
   finds |-> finds, text |-> unknown]

OnTeam(v) == Finding([s \in {team} |-> v])
Framed(sentence, words) == [sentence EXCEPT !.words = words]

(* A sentence the lexicon finds nothing in.                                 *)
Plain(v) == [Finding([s \in {} |-> v]) EXCEPT !.text = v]

(* "Always use beta": kept because it is an instruction.                    *)
Instruction(v) == [Plain(v) EXCEPT !.directive = TRUE, !.states = FALSE]

(* "I'm debugging a flaky test this sprint": kept only because of its frame.*)
Debugging == [Plain(unknown) EXCEPT !.activity = TRUE]
DebuggingNow == Framed(Debugging, {"this sprint"})

MCActivities == {Debugging.text}

(* What a model may propose whatever the words of the turn are.             *)
Stating(slot, value, ttl) ==
  [slot |-> slot, value |-> value, ttl |-> ttl, importance |-> 9]

Says(text) == RuleTurn("user", FALSE, text)
Model(text, proposals) == LlmTurn("user", FALSE, text, proposals, FALSE)

(* One durable fact about the team, and one framed as temporary.            *)
Team(v) == Says(<<OnTeam(v)>>)
TeamForNow(v) == Says(<<Framed(OnTeam(v), {"today"})>>)

(* Turns that overlap: the same slot restated, contradicted or moved twice  *)
(* in one turn, and text a document slipped in.                             *)
OverlappingTurns ==
  {Team(alpha), Team(beta), TeamForNow(alpha),
   Model(<<OnTeam(alpha)>>, <<Stating(team, alpha, 0), Stating(team, beta, NULL)>>),
   RuleTurn("document", FALSE, <<Finding([s \in {home} |-> beta])>>)}

(* Turns one after the other, with every kind of candidate: a fact stated   *)
(* twice, an expiry the words do not support, a value that is none, notes   *)
(* without a slot, an activity with and without a frame, a sentence that    *)
(* fills two slots, a model that fails.                                     *)
CalmTurns ==
  OverlappingTurns \cup
  {Says(<<OnTeam(alpha), Finding([s \in {home, team} |-> alpha])>>),
   Model(<<Plain(alpha)>>, <<Stating(home, alpha, 1)>>),
   Model(<<Plain(alpha)>>, <<Stating(team, unknown, NULL), Stating(UNSLOTTED, alpha, NULL)>>),
   Says(<<Plain(beta), Debugging, Instruction(beta)>>),
   Says(<<DebuggingNow, Debugging>>),
   LlmTurn("user", FALSE, <<OnTeam(beta)>>, <<Stating(team, beta, NULL)>>, TRUE),
   RuleTurn("agent", TRUE, <<Plain(alpha)>>)}

(* The least that shows a contradiction and a restatement. *)
TwoTeams == {Team(alpha), Team(beta)}

TemporaryThenDurable == {Team(alpha), TeamForNow(alpha)}

(* Nothing tells one worker from another.                                  *)
WorkerSymmetry == Permutations(Workers)
==============================================================================
