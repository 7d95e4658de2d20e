----------------------------- MODULE MCBenchmark -----------------------------
(***************************************************************************)
(* Small case files for module Benchmark: a case of every kind, cases      *)
(* about the same user, more cases of one kind than the limit, more        *)
(* records than any listing holds, and files that do not load; and small   *)
(* datasets for the driver of module Locomo, which runs on the same state. *)
(***************************************************************************)
EXTENDS Locomo

Value(slot, claim) == [claims |-> {claim}, slot |-> slot]

(* A text that makes one claim for each of its facts.                      *)
Text(facts) ==
  [claims |-> UNION {f.claims : f \in Range(facts)}, source |-> "user", marked |-> FALSE,
   blank |-> FALSE, facts |-> facts]

States(slot, claim) == Text(<<Value(slot, claim)>>)

Asks == Text(<<>>)
Greets == Asks
Whitespace == [Asks EXCEPT !.blank = TRUE]
Pastes(claim) == [States("city", claim) EXCEPT !.marked = TRUE]
Reads(claim) == [States("city", claim) EXCEPT !.source = "tool"]

Session(thread, turns) == [thread |-> <<thread>>, turns |-> turns]

(* A case about user "alex" that rejects and plants nothing yet.           *)
Case0(id, kind, sessions, expect) ==
  [id |-> <<id>>, user |-> <<"alex">>, kind |-> kind, sessions |-> sessions,
   probe |-> Asks, probe_thread |-> <<"probe">>, expect_any |-> expect,
   reject_any |-> {}, poison |-> {}, gold |-> expect]

Recall(id, claim) ==
  Case0(id, "passive_recall", <<Session("s1", <<States("tool", claim), Greets>>)>>, {claim})

Decision == Case0("d", "decision_relevant",
  <<Session("s1", <<States("tool", "vim")>>), Session("s2", <<Whitespace, States("tool", "vim")>>)>>,
  {"vim"})

Conflict ==
  [Case0("c", "conflict",
     <<Session("s1", <<States("city", "oslo")>>), Session("s2", <<States("city", "rome")>>)>>,
     {"rome"})
   EXCEPT !.reject_any = {"oslo"}]

(* A blank probe recalls nothing, whoever wrote the store.                 *)
BlankProbe == [Conflict EXCEPT !.id = <<"w">>, !.probe = Whitespace]

(* The value moves within a text, and then more often than a listing of    *)
(* the manager has records and a recall looks at.                          *)
Moves ==
  LET visits == <<"rome", "kiev", "oslo", "rome", "kiev", "oslo">>
  IN <<Text(<<Value("city", "oslo"), Value("city", "kiev")>>)>>
       \o [i \in DOMAIN visits |-> States("city", visits[i])]

Wanderer ==
  [Case0("v", "decision_relevant", <<Session("s1", Moves)>>, {"oslo"})
   EXCEPT !.reject_any = {"kiev"}]

(* The value moves twice: with naive writing, three records for one fact.  *)
BackAndForth ==
  [Conflict EXCEPT !.id = <<"b">>,
     !.sessions = @ \o <<Session("s3", <<States("city", "kiev")>>)>>,
     !.expect_any = {"kiev"}, !.reject_any = {"oslo"}, !.gold = {"kiev"}]

Poisoned ==
  [Case0("i", "injection",
     <<Session("s1", <<States("tool", "vim"), Reads("bank"), Pastes("boss")>>)>>, {"vim"})
   EXCEPT !.poison = {"bank", "boss"}]

(* Hostile text that no marker matches becomes a record like any other,    *)
(* and with three live records one recall may leave it out.                *)
SlipsThrough ==
  [Case0("p", "injection",
     <<Session("s1", <<States("tool", "vim"), States(UNSLOTTED, "boss"), States("city", "rome")>>)>>,
     {"vim", "rome"})
   EXCEPT !.poison = {"boss"}]

(* The probe states a fact of its own.                                     *)
TellingProbe == [Decision EXCEPT !.id = <<"t">>, !.probe = States("city", "rome")]

SameThread == [Recall("r", "vim") EXCEPT !.probe_thread = <<"s1">>]
AssertsNothing == [Recall("n", "vim") EXCEPT !.expect_any = {}]

MCFiles ==
  {<<Recall("r", "vim"), Recall("q", "emacs"), Conflict>>,
   <<Decision, Conflict>>, <<Poisoned, BackAndForth>>, <<TellingProbe>>, <<SlipsThrough>>,
   <<BlankProbe>>, <<Wanderer>>, <<SameThread>>, <<AssertsNothing>>, <<Decision, Decision>>, <<>>}

MCSelections ==
  (SUBSET {"stateless", "naive", "manager"} \ {{}}) \cup {{"mem0"}, {"manager", "mem0"}}
MCLimits == {-1, 0, 1}

None == [decision |-> 0, conflict |-> 0, injection |-> 0, precision |-> 0]
MCFloors ==
  {None, [None EXCEPT !.decision = 100], [None EXCEPT !.conflict = 100],
   [None EXCEPT !.injection = 100], [None EXCEPT !.precision = 100],
   [None EXCEPT !.precision = 50]}

(* An external model tells all it was given, nothing, or a guess of its    *)
(* own (which is also how it says that it does not know).                  *)
MCReplies(prompt) == {prompt, {}, {"rome", "dunno"}}

MCMaxListed == [a \in Range(Arms) |-> IF a = "mem0" THEN 3 ELSE 6]
------------------------------------------------------------------------------
Question(turn, answer, category) == [turn |-> turn, answer |-> answer, category |-> category]
Asking(claims) == [Asks EXCEPT !.claims = claims]

(* A value that session 2 replaces and session 10 moves back, read from a  *)
(* file that has session 10 first; and questions whose texts tell claims,  *)
(* one of them taken for a fact, one without a gold answer.                *)
Moving ==
  [sample_id |-> "m",
   sessions |-> << [number |-> 10, turns |-> <<Text(<<Value("city", "bonn"), Value("city", "oslo")>>),
                                               Whitespace>>],
                   [number |-> 2, turns |-> <<States("city", "rome"), Greets>>],
                   [number |-> 1, turns |-> <<Greets>>] >>,
   questions |-> << Question(Asking({"bank"}), {"oslo"}, 1),
                    Question(States("tool", "emacs"), {"boss"}, 5),
                    Question(Asks, {}, 2) >>]

Talk(id, claim) ==
  [sample_id |-> id,
   sessions |-> << [number |-> 1, turns |-> <<States("city", claim)>>] >>,
   questions |-> << Question(Asks, {claim}, 4),
                    Question(Asking({"paris"}), {REFUSAL}, 5) >>]

(* Somebody said that they do not know.                                    *)
Unsure == [Talk("u", "oslo") EXCEPT !.sessions[1].turns = @ \o <<States(UNSLOTTED, REFUSAL)>>]

Roaming == [Talk("r", "oslo") EXCEPT !.sessions[1].turns = Moves]

MCDatasets ==
  {<<Roaming>>, <<Moving, Talk("n", "kiev")>>, <<Talk("k", "kiev"), Unsure>>, <<Talk("n", "oslo"), Talk("n", "rome")>>}

(* With an external model one selection at a time is enough: the arms      *)
(* share nothing but the run.                                              *)
MCInit ==
  \/ /\ Init /\ graded = <<>> /\ kept = 0
     /\ provider = "bedrock" =>
          /\ selected \in {{"stateless"}, {"naive"}, {"manager"}, {"mem0"}, {"manager", "mem0"}}
          /\ limit = 0 /\ floors \in {None, [None EXCEPT !.conflict = 100]}
     /\ "mem0" \in selected => floors = None /\ file \in {<<TellingProbe>>, <<BlankProbe>>}
  \/ LocomoInit /\ (provider = "bedrock" => Len(cases) <= 1)
MCNext == (Next /\ UNCHANGED <<graded, kept>>) \/ LocomoNext
MCSpec == MCInit /\ [][MCNext]_locomoVars
==============================================================================
