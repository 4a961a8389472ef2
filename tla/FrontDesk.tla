----------------------------- MODULE FrontDesk -----------------------------
(***************************************************************************)
(* Requests enter the workspace: the intake command (delivery-cli) and     *)
(* feishu-ingest (adl_runtime.py) save an assessment and, for a candidate, *)
(* a demand and the goal made from it.                                     *)
(*                                                                         *)
(* The id of an assessment is the hash of text, requester and source; the  *)
(* preferred expert is not in it.  The id of a demand is the hash of text  *)
(* and requester, that of a goal is made from the demand's.  There is one  *)
(* requester here, and titles are part of the text.                        *)
(***************************************************************************)
EXTENDS Store, Intake

CONSTANTS
  Texts,    \* requests, as sets of words
  Sources,  \* where requests come from
  Experts,  \* preferred experts, {} for none
  MaxFaults \* bound: processes that die, and other faults

ASSUME FaultsAssumption == MaxFaults \in Nat

VARIABLES
  asked,  \* history: the intakes begun, as <<text, source, preferred>>
  faults  \* bound

deskVars == <<storeVars, asked>>

Fault == faults < MaxFaults /\ faults' = faults + 1

AssessmentKey(raw, source) == <<"IntakeAssessment", <<raw, source>>>>
DemandKey(raw) == <<"Demand", raw>>
GoalKey(raw) == <<"Goal", raw>>

DeskKeys == {AssessmentKey(raw, source) : raw \in Texts, source \in Sources}
            \union {DemandKey(raw) : raw \in Texts}
            \union {GoalKey(raw) : raw \in Texts}

Assessments == [classification : Classifications, preferred : Experts]

\* What is saved can be read.
ASSUME DeskAssumption ==
  \A content \in Texts \union Assessments : content \notin Unreadable \union {Invalid}

\* spec.raw_request must not be empty.
Assessment(raw, preferred) ==
  IF raw = {} THEN Invalid
  ELSE [classification |-> classify_intake(raw, preferred), preferred |-> preferred]

\* Fault: the goal is saved before the demand it names.
Promotion_GoalFirst(raw) == <<Save(GoalKey(raw), raw), Save(DemandKey(raw), raw)>>

\* Fault: the goal is left to a later command.
Promotion_DemandOnly(raw) == <<Save(DemandKey(raw), raw)>>

\* promote_intake_to_demand and create_goal_from_demand: the content follows
\* from the text.
Promotion(raw) == <<Save(DemandKey(raw), raw), Save(GoalKey(raw), raw)>>

IntakeSaves(raw, source, preferred) ==
  <<Save(AssessmentKey(raw, source), Assessment(raw, preferred))>>
  \o (IF IsCandidate(raw, preferred) THEN Promotion(raw) ELSE <<>>)

\* A request is taken in with --promote.  When the request is no candidate,
\* feishu-ingest says so and the intake command raises; neither saves more.
Ingest(p, raw, source, preferred) ==
  /\ Saves(p, IntakeSaves(raw, source, preferred))
  /\ asked' = asked \union {<<raw, source, preferred>>}

-----------------------------------------------------------------------------
(* Properties.                                                             *)

\* A goal on disk has the demand it names, and an assessment that says the
\* request is a candidate, unless the same request from the same source was
\* assessed again for another expert and is none then: over crashes, refused
\* saves and overlapping intakes of different requests (feishu-ingest, intake).
GoalIsExplained ==
  \A raw \in Texts : Exists(GoalKey(raw)) =>
    /\ Exists(DemandKey(raw))
    /\ \E source \in Sources :
         /\ Exists(AssessmentKey(raw, source))
         /\ \/ ~Readable(AssessmentKey(raw, source))
            \/ file[AssessmentKey(raw, source)].classification = "loop_candidate"
            \/ \E e \in Experts : <<raw, source, e>> \in asked /\ ~IsCandidate(raw, e)

\* A demand on disk has its goal, or a process is about to save it, or was
\* killed before it could: whoever takes the request in, from wherever, however
\* often and over whatever overlap, other crashes and refused saves included
\* (feishu-ingest, intake --promote).
DemandGetsItsGoal ==
  \A raw \in Texts :
    Exists(DemandKey(raw)) => Exists(GoalKey(raw)) \/ Save(GoalKey(raw), raw) \in Owed
=============================================================================
