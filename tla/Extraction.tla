------------------------------ MODULE Extraction ------------------------------
(***************************************************************************)
(* Where a turn's candidate facts come from: the rule extractor reads them *)
(* off the sentences of a text, the LLM extractor proposes what a model    *)
(* likes, or nothing when the call fails.  Which of the fixed patterns a   *)
(* sentence matches is data; what follows from the matches is modelled.    *)
(***************************************************************************)
EXTENDS WritePath

CONSTANTS
  Lexicon,      \* the attributes of _SLOT_PATTERNS, in order
  TransientTtl, \* _TRANSIENT_TTL_DAYS
  Activities    \* notes that nobody leaves but by an activity

(* _TRANSIENT_PATTERN: what makes an activity worth storing at all.        *)
TransientWords ==
  {"today", "tonight", "right now", "this morning", "this afternoon", "this week", "this sprint"}

(* A faulty pattern, as before sprints were thought of.                    *)
MarkersWithoutSprint ==
  {"today", "tonight", "right now", "this morning", "this afternoon", "this week", "for now"}

(* _TEMPORAL_MARKER_PATTERN: what frames a text as temporary at all.       *)
TemporalMarkers ==
  {"today", "tonight", "tomorrow", "right now", "currently", "for now", "at the moment",
   "this morning", "this afternoon", "this evening", "this week", "this month",
   "this sprint", "this quarter", "this year", "next week", "next month", "next quarter",
   "until", "for the next", "temporarily", "for a while", "for a bit", "these days",
   "on call", "this time"}

(* A sentence: does it start as a standing instruction, is its predicate   *)
(* an activity, does a fact pattern match, which words of time are in it,  *)
(* what the lexicon finds, by attribute, and what is left as its text.     *)
Sentence ==
  [directive : BOOLEAN, activity : BOOLEAN, states : BOOLEAN, words : SUBSET STRING,
   finds : UNION {[D -> Values] : D \in SUBSET Slots}, text : Values]

ASSUME ExtractionAssumption ==
  /\ Lexicon \in Seq(Slots) /\ TransientTtl \in Nat \ {0}
  /\ \A s \in Slots : \E i \in DOMAIN Lexicon : Lexicon[i] = s

IsTransient(s) == s.words \cap TransientWords # {}

(* has_temporal_marker, of a whole turn.                                   *)
HasTemporalMarker(text) ==
  \E i \in DOMAIN text : text[i].words \cap TemporalMarkers # {}

(* An activity is a fact only while it is framed as temporary.             *)
IsFact(s) == IF s.activity THEN IsTransient(s) ELSE s.states

IsKept(s) == s.directive \/ IsFact(s)

(* The first attribute of the lexicon that hits wins.                      *)
SlotOf(s) ==
  LET hits == {i \in DOMAIN Lexicon : Lexicon[i] \in DOMAIN s.finds}
      first == CHOOSE i \in hits : \A j \in hits : i <= j
  IN IF hits = {} THEN [slot |-> UNSLOTTED, value |-> s.text]
     ELSE [slot |-> Lexicon[first], value |-> s.finds[Lexicon[first]]]

Proposed(s) ==
  [slot |-> SlotOf(s).slot, value |-> SlotOf(s).value,
   ttl |-> IF IsTransient(s) THEN TransientTtl ELSE NULL,
   importance |-> IF s.directive \/ SlotOf(s).slot # UNSLOTTED THEN 8 ELSE 5]

(* RuleFactExtractor.extract: a fact for each sentence kept, in the order  *)
(* of the text.                                                            *)
RuleFacts(text) ==
  LET kept == {i \in DOMAIN text : IsKept(text[i])}
      upTo(i) == {j \in kept : j <= i}
  IN [n \in 1..Cardinality(kept) |->
        Proposed(text[CHOOSE i \in kept : Cardinality(upTo(i)) = n])]

(* LLMFactExtractor.extract: the model answers what it answers, and a call *)
(* that fails leaves the turn without a fact, not the user without a reply.*)
(* The answer is validated after the try: one that is no list of facts     *)
(* raises before the turn has put anything, which is WritePath's Abort.    *)
LlmFacts(proposals, fails) == IF fails THEN <<>> ELSE proposals

(* A turn as apply meets it: its own words decide what counts as temporary,*)
(* wherever its facts come from.                                           *)
TurnOf(source, marked, text, facts) ==
  [source |-> source, marked |-> marked, temporal |-> HasTemporalMarker(text), facts |-> facts]

RuleTurn(source, marked, text) == TurnOf(source, marked, text, RuleFacts(text))

LlmTurn(source, marked, text, proposals, fails) ==
  TurnOf(source, marked, text, LlmFacts(proposals, fails))
------------------------------------------------------------------------------
(* An activity is kept only because the user framed it as temporary, so it *)
(* is never kept for good: what one pattern lets in as temporary, the      *)
(* other must not take for an expiry nobody meant ("and it will then       *)
(* expire on its own", RuleFactExtractor._is_fact;                         *)
(* MemoryManager._verify_ttl).                                             *)
ActivitiesExpire ==
  \A m \in memories :
    m.slot = UNSLOTTED /\ m.value \in Activities => m.expires_at # NULL
==============================================================================
