------------------------------- MODULE Review -------------------------------
(***************************************************************************)
(* The deterministic review of one attempt: review_attempt of the          *)
(* supervisor SDK (loop.py), with the budget test of delivery-core         *)
(* (budget.py).  Pure operators; DeliveryLoop runs them inside the         *)
(* workspace's operations.                                                 *)
(*                                                                         *)
(* Data abstraction.  A budget is its three numbers.  An evidence item is  *)
(* the set of labels it answers to: its kind, its title, and every label   *)
(* that occurs in its path.  A task's acceptance and permissions are the   *)
(* fields of `spec`:                                                       *)
(*   permissions  the permission keys that are true                        *)
(*   required     acceptance.evidence_required                             *)
(*   expected     acceptance.expected_evidence, a set of labels            *)
(*   human        acceptance.human_approval_required                       *)
(***************************************************************************)
EXTENDS Lifecycle, Integers

Budget == [limit : Nat, used : Nat, threshold : Nat]

remaining_tokens(b) == IF b.used < b.limit THEN b.limit - b.used ELSE 0

should_stop_for_budget(b) == remaining_tokens(b) < b.threshold

-----------------------------------------------------------------------------
(* Permissions that close a gate: loop.py before a task is created, and    *)
(* adl_runtime.py before a workflow is run.  The two sets differ.          *)

HighRisk == {"docs_write", "delete_move_archive", "cron_mutation",
             "workflow_mutation", "profile_mutation", "shell_exec"}

SYSTEM_RISK_PERMISSIONS == HighRisk \union {"code_write"}

_is_high_risk(spec) == spec.permissions \intersect HighRisk # {}

-----------------------------------------------------------------------------
AttemptStatuses == {"succeeded", "failed", "blocked", "cancelled"}

Actions == {"create_task", "request_approval", "mark_blocked",
            "mark_complete", "stop_budget"}

\* _evidence_matches: some item answers to the label.
_evidence_matches(label, evidence) == \E item \in evidence : label \in item

Checks == {"ok", "none", "required evidence is missing",
           "expected evidence is missing"}

\* Fault: any evidence will do, whatever was expected.
_check_evidence_NoLabels(spec, evidence) ==
  IF spec.required /\ evidence = {} THEN "required evidence is missing"
  ELSE "ok"

_check_evidence(spec, evidence) ==
  CASE spec.required /\ evidence = {} -> "required evidence is missing"
    [] ~(spec.required /\ evidence = {})
       /\ \E label \in spec.expected : ~_evidence_matches(label, evidence)
       -> "expected evidence is missing"
    [] OTHER -> "ok"

\* The action of the decision review_attempt returns.
ReviewAction(b, spec, status, evidence) ==
  CASE should_stop_for_budget(b) -> "stop_budget"
    [] ~should_stop_for_budget(b) /\ status = "blocked" -> "mark_blocked"
    [] ~should_stop_for_budget(b) /\ status = "succeeded"
       /\ _check_evidence(spec, evidence) = "ok" ->
         IF spec.human THEN "request_approval" ELSE "mark_complete"
    [] OTHER -> "create_task"

\* The status each action moves the task to; the other two actions leave it.
Target == [action \in Actions \ {"stop_budget", "request_approval"} |->
             CASE action = "mark_complete" -> "accepted"
               [] action = "mark_blocked"  -> "blocked"
               [] action = "create_task"   -> "rejected"]

\* Fault: the last line of _transition_review_task does not raise.
CanReview_Always(current, action) == TRUE

\* _transition_review_task does not raise.  A pending or running task is
\* walked through submitted first.
CanReview(current, action) ==
  action \in DOMAIN Target =>
    \/ current = Target[action]
    \/ /\ current \in {"submitted", "pending", "running"}
       /\ CanMove("submitted", Target[action])

\* Fault: the action is stored where the status belongs.
Reviewed_Action(current, action) ==
  IF action \in DOMAIN Target THEN action ELSE current

Reviewed(current, action) ==
  IF action \in DOMAIN Target THEN Target[action] ELSE current

\* What the review_feedback of the decision carries besides the two ids: the
\* evidence check, made only for a succeeded attempt within the budget.
Feedback(b, spec, status, evidence) ==
  IF should_stop_for_budget(b) \/ status # "succeeded"
  THEN [check |-> "none", evidence |-> {}]
  ELSE [check |-> _check_evidence(spec, evidence), evidence |-> evidence]
=============================================================================
