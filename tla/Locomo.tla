-------------------------------- MODULE Locomo -------------------------------
(***************************************************************************)
(* The LoCoMo driver: long conversations of two people are replayed into   *)
(* one store, a user per conversation, and each question of a conversation *)
(* is asked in a thread of its own and graded.  It shares the agent with   *)
(* the benchmark and so its variables: `file` is the dataset, `limit` the  *)
(* cap on questions, and position.replayed counts the turns replayed and   *)
(* then the questions asked.  The speaker and date put before a turn are   *)
(* wording here.                                                           *)
(***************************************************************************)
EXTENDS Benchmark

CONSTANTS
  Datasets,  \* sequences of conversations
  REFUSAL    \* the claim of a text that it does not know

VARIABLES
  graded,    \* the graded answers
  kept       \* memories_stored

locomoVars == <<vars, graded, kept>>

(* A conversation as the loader makes it; all that is said in one goes to  *)
(* the agent as its user's own words.                                      *)
Utterance == {t \in Turn : t.source = "user"}

LocomoConversation ==
  [sample_id : STRING, sessions : Seq([number : Nat, turns : Seq(Utterance)]),
   questions : Seq([turn : Utterance, answer : SUBSET STRING, category : Int])]

ASSUME LocomoAssumption == Datasets \subseteq Seq(LocomoConversation)

(* A faulty driver: one user for the whole dataset.                        *)
OneUser(c) == [id |-> <<>>, user |-> <<"locomo">>]

(* The agent's user is the conversation itself.                            *)
User(c) == [id |-> <<>>, user |-> <<c.sample_id>>]

(* A faulty driver: sessions as they stand in the file.                    *)
AsFiled(c, k) == k

(* The session that k sessions come up to: session_10 after session_2, and *)
(* the sort is stable.                                                     *)
InOrder(c, k) ==
  LET number(i) == c.sessions[i].number
      upTo(i) == {j \in DOMAIN c.sessions :
                    number(j) < number(i) \/ (number(j) = number(i) /\ j <= i)}
  IN CHOOSE i \in DOMAIN c.sessions : Cardinality(upTo(i)) = k

(* What is not blank, in the order it was said.                            *)
Spoken(session) ==
  Kept(session.turns, {j \in DOMAIN session.turns : ~session.turns[j].blank})

Turns(c) == FlattenSeq([k \in DOMAIN c.sessions |-> Spoken(c.sessions[InOrder(c, k)])])

(* s[:n]                                                                   *)
Slice(s, n) ==
  IF n < 0 THEN SubSeq(s, 1, Len(s) + n) ELSE SubSeq(s, 1, IF n < Len(s) THEN n ELSE Len(s))

Questions(c) == IF limit = 0 THEN c.questions ELSE Slice(c.questions, limit)

(* A faulty driver: one thread for all questions of a conversation.        *)
OneThread(c, i) == <<c.sample_id, "q">>

Thread(c, i) == <<c.sample_id, "q", i>>

IsAdversarial(q) == q.category = 5

(* What an adversarial question gives as its answer is the trap.           *)
Gold(q) == IF IsAdversarial(q) THEN {} ELSE q.answer

(* Whether an answer may be graded correct: declining is all that counts   *)
(* for an adversarial question; otherwise the offline judge looks for the  *)
(* gold answer, and a model says what it says (wrong, if it fails).        *)
Grades(q, reply) ==
  IF IsAdversarial(q) THEN {REFUSAL \in reply}
  ELSE IF provider = "stub" THEN {Gold(q) \subseteq reply}
  ELSE BOOLEAN
------------------------------------------------------------------------------
LocomoInit ==
  /\ file \in Datasets /\ limit \in Limits /\ provider \in Providers
  /\ \E arm \in {"naive", "manager"} : selected = {arm} /\ arms = <<arm>>
  /\ \E n \in 0..Len(file) : cases = Slice(file, n)
  /\ floors = [decision |-> 0, conflict |-> 0, injection |-> 0, precision |-> 0]
  /\ phase = "locomo" /\ position = [case |-> 1, replayed |-> 0]
  /\ memories = {} /\ messages = {} /\ reports = [a \in selected |-> <<>>]
  /\ graded = <<>> /\ kept = 0

Conversing == phase = "locomo" /\ position.case <= Len(cases)

(* Replay only writes: nobody answers, and no thread gets a message.       *)
Ingest ==
  /\ Conversing /\ position.replayed < Len(Turns(Case))
  /\ memories' \in Outcomes(Head(arms), User(Case), Turns(Case)[position.replayed + 1])
  /\ position' = [position EXCEPT !.replayed = @ + 1]
  /\ UNCHANGED <<input, phase, cases, arms, messages, reports, graded, kept>>

(* A question is a turn like any other: it is remembered after the reply.  *)
Ask ==
  LET i == position.replayed - Len(Turns(Case)) + 1
      q == Questions(Case)[i]
      asked == [user |-> <<Case.sample_id>>, thread |-> Thread(Case, i), claims |-> q.turn.claims]
  IN /\ Conversing /\ i \in DOMAIN Questions(Case)
     /\ \E R \in Recalls(Head(arms), User(Case), q.turn) :
          LET prompt == Prompt(Head(arms), R, asked, messages)
          IN \E reply \in Replies(R, prompt) : \E correct \in Grades(q, reply) :
               /\ messages' = messages \cup {asked, [asked EXCEPT !.claims = reply]}
               /\ graded' = Append(graded,
                    [case |-> position.case, question |-> i, prompt |-> prompt,
                     reply |-> reply, correct |-> correct])
     /\ memories' \in Outcomes(Head(arms), User(Case), q.turn)
     /\ position' = [position EXCEPT !.replayed = @ + 1]
     /\ UNCHANGED <<input, phase, cases, arms, reports, kept>>

(* What the questions left in the store is counted with the rest.          *)
NextConversation ==
  /\ Conversing
  /\ position.replayed = Len(Turns(Case)) + Len(Questions(Case))
  /\ kept' = kept + Cardinality(Scored(Head(arms), User(Case), memories))
  /\ position' = [case |-> position.case + 1, replayed |-> 0]
  /\ UNCHANGED <<input, phase, cases, arms, memories, messages, reports, graded>>

Report ==
  /\ phase = "locomo" /\ position.case > Len(cases)
  /\ phase' = "reported"
  /\ UNCHANGED <<input, cases, arms, position, memories, messages, reports, graded, kept>>

LocomoNext == Ingest \/ Ask \/ NextConversation \/ Report

LocomoSpec == LocomoInit /\ [][LocomoNext]_locomoVars
------------------------------------------------------------------------------
(* Properties.  Nothing makes sample ids unique, so they speak of the      *)
(* conversations whose id is.                                              *)

Unique(c) == Cardinality({i \in DOMAIN cases : cases[i].sample_id = c.sample_id}) = 1

Graded == {g \in Range(graded) : Unique(cases[g.case])}

(* What was said in a conversation before question n; questions come after *)
(* all sessions.                                                           *)
Told(c, n) ==
  (UNION {{[session |-> i, nth |-> j, turn |-> c.sessions[i].turns[j]] :
             j \in {k \in DOMAIN c.sessions[i].turns : ~c.sessions[i].turns[k].blank}} :
          i \in DOMAIN c.sessions})
    \cup {[session |-> 0, nth |-> k, turn |-> c.questions[k].turn] : k \in 1..(n - 1)}

(* The facts made of it that reach the store, each with its place.         *)
Facts(c, n) ==
  UNION {{[session |-> x.session, nth |-> x.nth, place |-> i, fact |-> x.turn.facts[i]] :
            i \in DOMAIN x.turn.facts} :
         x \in {y \in Told(c, n) : ~y.turn.blank /\ ~y.turn.marked}}

(* Whether fact x was stated after y, sessions going by their numbers.     *)
After(c, x, y) ==
  \/ x.session = y.session /\ x.nth = y.nth /\ x.place > y.place
  \/ x.session = y.session /\ x.nth > y.nth
  \/ x.session = 0 /\ y.session # 0
  \/ /\ x.session # 0 /\ y.session # 0
     /\ c.sessions[x.session].number > c.sessions[y.session].number

(* The claims nobody took back: facts with no later value of their slot.   *)
Current(c, n) ==
  LET replaced(y) == \E x \in Facts(c, n) : /\ After(c, x, y) /\ x.fact.slot = y.fact.slot
                                            /\ x.fact.slot # UNSLOTTED
                                            /\ x.fact.claims # y.fact.claims
  IN UNION {y.fact.claims : y \in {x \in Facts(c, n) : ~replaced(x)}}

(* With the manager, while one listing holds all records of a              *)
(* conversation, no question is answered from a value that a later session *)
(* or question took back, nor from anything that was said in another       *)
(* question's thread only, whatever the order of sessions in the file      *)
(* (_session_sort_key, run_conversation).                                  *)
AnswersAreCurrent ==
  selected = {"manager"} /\ phase \in {"locomo", "reported"} =>
    \A g \in Graded :
      LET c == cases[g.case]
          given == Current(c, g.question) \cup c.questions[g.question].turn.claims
      IN Cardinality(Of(User(c), memories)) <= MaxExisting =>
           /\ g.prompt \subseteq given
           /\ provider = "stub" => g.reply \subseteq given

(* Conversations share a store and nothing else: a question is answered    *)
(* from what its own conversation holds so far, and the memories the       *)
(* report counts, conversation by conversation, are those that are live    *)
(* when all have ended, as long as a listing holds every conversation's    *)
(* records, and never more (run_locomo).                                   *)
ConversationsStandAlone ==
  phase \in {"locomo", "reported"} =>
    /\ \A g \in Graded :
         LET c == cases[g.case]
             said == (UNION {Claims(x.turn) : x \in Told(c, g.question)})
                       \cup c.questions[g.question].turn.claims
         IN /\ g.prompt \subseteq said
            /\ provider = "stub" => g.reply \subseteq said
    /\ phase = "reported" /\ (\A i \in DOMAIN cases : Unique(cases[i])) =>
         /\ kept <= Cardinality(Live(memories))
         /\ (\A i \in DOMAIN cases :
              Cardinality(Of(User(cases[i]), memories)) <= MaxListed[arms[1]]) =>
                kept = Cardinality(Live(memories))
==============================================================================
