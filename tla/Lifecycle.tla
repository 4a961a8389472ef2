----------------------------- MODULE Lifecycle -----------------------------
(***************************************************************************)
(* The status machine of tasks (delivery-core, lifecycle.py): the table is *)
(* the code's dictionary; transition_task looks a move up and raises when  *)
(* it is not there.  (Nothing calls transition_goal.)                      *)
(***************************************************************************)

TaskStatuses == {"pending", "running", "submitted", "rejected", "blocked",
                 "accepted", "cancelled"}

TASK_TRANSITIONS ==
  [s \in TaskStatuses |->
     CASE s = "pending"   -> {"running", "blocked", "cancelled"}
       [] s = "running"   -> {"submitted", "blocked", "cancelled"}
       [] s = "submitted" -> {"accepted", "rejected", "blocked"}
       [] s \in {"rejected", "blocked"}   -> {"pending", "cancelled"}
       [] s \in {"accepted", "cancelled"} -> {}]

\* transition_task(task, target) does not raise TransitionError.
CanMove(status, target) ==
  status \in TaskStatuses /\ target \in TASK_TRANSITIONS[status]

\* Two transitions in a row: submit_attempt goes to running, then submitted.
CanMoveThrough(status, middle, target) ==
  CanMove(status, middle) /\ CanMove(middle, target)
=============================================================================
