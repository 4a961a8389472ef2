------------------------------ MODULE MCOutbox ------------------------------
(* Values for the constants of Outbox, for TLC.                            *)
EXTENDS Outbox

OneGoal == [n \in Notes |-> "g1"]
TwoGoals == [n \in Notes |-> IF n = 3 THEN "g2" ELSE "g1"]
Threads == [n \in Notes |-> "thread"]
\* The first note's target is not threaded, the third's has no chat_id.
AllTargets == [n \in Notes |-> CASE n = 1 -> "direct" [] n = 2 -> "thread"
                                 [] n = 3 -> "thread_no_chat"]
Unlimited == {None}
SomeLimits == {None, 0, 1}
=============================================================================
