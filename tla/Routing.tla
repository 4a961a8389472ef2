------------------------------ MODULE Routing -------------------------------
(***************************************************************************)
(* Which expert fits a task: routing.py.                                   *)
(*                                                                         *)
(* Data abstraction.  A capability is a record of its id, priority, cost   *)
(* (cost_class), reliability and owner (default_owner); other cost classes *)
(* and reliabilities than the known ones are "".  A task is a record of    *)
(*   required   the ids of required_capabilities                           *)
(*   named      the ids whose words its objective contains                 *)
(*   described  the ids with a word of their description in the objective  *)
(***************************************************************************)
EXTENDS Integers, FiniteSets, FiniteSetsExt

COST_SCORE == [free |-> 20, low |-> 15, medium |-> 8, high |-> 2]

\* Fault: reliability counts as cost does, the low one most.
RELIABILITY_SCORE_AsCost == [high |-> 3, medium |-> 10, low |-> 20]

RELIABILITY_SCORE == [high |-> 20, medium |-> 10, low |-> 3]

\* table.get(key, 0).
Points(table, key) == IF key \in DOMAIN table THEN table[key] ELSE 0

When(condition, points) == IF condition THEN points ELSE 0

CapabilityScore(task, cap) ==
  cap.priority
  + When(cap.id \in task.required, 50)
  + When(cap.id \in task.named, 15)
  + When(cap.id \in task.described, 5)
  + Points(COST_SCORE, cap.cost)
  + Points(RELIABILITY_SCORE, cap.reliability)
  + When(cap.owner, 10)

\* The best capability counts, and none counts as 0.
score_expert(task, capabilities) ==
  Max({0} \union {CapabilityScore(task, cap) : cap \in capabilities})
=============================================================================
