------------------------------- MODULE Intake -------------------------------
(***************************************************************************)
(* What a request is taken for: classify_intake (builder.py), and what a   *)
(* chat message asks of feishu-ingest (adl_runtime.py).                    *)
(*                                                                         *)
(* Data abstraction.  A text is the set of words in it that matter; {} is  *)
(* the empty text.  The code looks for keywords as substrings, so that one *)
(* word may contain another.  Of the keyword tables the English entries    *)
(* stand; each Chinese one but one counts for the same things as one of    *)
(* them (the exception counts as interdependent and feedback-driven).  No  *)
(* caller passes `extracted`.                                              *)
(***************************************************************************)
EXTENDS Naturals, FiniteSets

LIFT_KEYWORDS ==
  [long_running    |-> {"cron", "loop", "track", "recurring", "ongoing",
                        "follow up"},
   interdependent  |-> {"profile", "workflow", "codex", "wiki", "expert",
                        "route", "delegate", "handoff"},
   feedback_driven |-> {"review", "confirm", "approval", "rework", "plan",
                        "do not", "don't", "fix plan"},
   traceable       |-> {"audit", "evidence", "report", "status", "progress",
                        "checklist"}]

FIELD_KEYWORDS ==
  [scope              |-> {"wiki", "mind palace", "mind-palace", "workflow",
                           "cron", "repo"},
   success_criteria   |-> {"produce", "finish", "fix", "plan", "report",
                           "complete"},
   constraints        |-> {"read-only", "do not", "don't", "without", "no "},
   budget_or_deadline |-> {"deadline", "today", "tomorrow", "this week",
                           "priority", "budget"}]

\* A word and a keyword inside it; the last one is the name of an expert.
Inside == {<<"report", "repo">>, <<"fix plan", "fix">>, <<"fix plan", "plan">>,
           <<"ops-auditor", "audit">>}

Found(text) == text \union {q[2] : q \in {pair \in Inside : pair[1] \in text}}

_contains_any(text, keywords) == Found(text) \intersect keywords # {}

\* The LIFT flags that are set.
_assess_lift(text) ==
  {d \in DOMAIN LIFT_KEYWORDS : _contains_any(text, LIFT_KEYWORDS[d])}

\* The minimum fields that are missing.  Any text is an objective.
MissingFields(text) ==
  {f \in DOMAIN FIELD_KEYWORDS : ~_contains_any(text, FIELD_KEYWORDS[f])}
  \union (IF text = {} THEN {"objective"} ELSE {})

Classifications == {"simple_prompt", "needs_clarification", "loop_candidate"}

\* Fault: the recommended path is taken for the classification.
_classify_Path(score, missing) ==
  IF score < 2 THEN "normal_prompt"
  ELSE IF missing # {} THEN "clarify" ELSE "create_loop"

_classify(score, missing) ==
  IF score < 2 THEN "simple_prompt"
  ELSE IF missing # {} THEN "needs_clarification" ELSE "loop_candidate"

\* The name of the preferred expert is read as part of the text.
classify_intake(raw, preferred) ==
  LET text == raw \union preferred
  IN  _classify(Cardinality(_assess_lift(text)), MissingFields(text))

IsCandidate(raw, preferred) == classify_intake(raw, preferred) = "loop_candidate"

\* The prefixes of chat messages; a message without one of them has "".
LoopPrefixes == {"#loop", "#adl", "#wiki", "#ops", "#model", "#media", "#home",
                 "#mteam"}

\* The expert that a prefix prefers: no name, or the set of one name.
_expert_from_prefix(prefix) ==
  CASE prefix = "#wiki"  -> {"mind-palace"}
    [] prefix = "#ops"   -> {"ops-auditor"}
    [] prefix = "#model" -> {"framework-maintainer"}
    [] prefix \in {"#media", "#home", "#mteam"} -> {"home-media"}
    [] OTHER -> {}
=============================================================================
