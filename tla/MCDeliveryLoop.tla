--------------------------- MODULE MCDeliveryLoop ---------------------------
(* Values for the constants of DeliveryLoop, for TLC.                      *)
EXTENDS DeliveryLoop

Everything == {"goal", "propose", "load", "submit", "accept", "workflow",
               "review"}

NoReview == Everything \ {"review"}
Basic == {"goal", "propose", "submit", "accept", "workflow"}
MCGoalOf == [t \in Tasks |-> "g1"]
MCGoals == {"g1"}

\* Well funded, and below the threshold by one token.
Funded == [limit |-> 2, used |-> 0, threshold |-> 2]
Spent == [limit |-> 2, used |-> 1, threshold |-> 2]

Report == {"report"}
NoLabels == {}

Plain == [permissions |-> {"read"}, required |-> TRUE, expected |-> {},
          human |-> FALSE]
Strict == [permissions |-> {"code_write"}, required |-> TRUE,
           expected |-> Report, human |-> FALSE]
Gated == [permissions |-> {"docs_write"}, required |-> TRUE, expected |-> {},
          human |-> FALSE]
HumanSpec == [permissions |-> {"read"}, required |-> FALSE, expected |-> Report,
              human |-> TRUE]

AllSpecs == {Plain, Strict, Gated, HumanSpec}
TwoSpecs == {Strict, HumanSpec}
StrictOnly == {Strict}

BothBudgets == {Funded, Spent}
FundedOnly == {Funded}

OneItem == {Report}
TwoItems == {Report, NoLabels}

Done == {"succeeded"}
AllOutcomes == {"succeeded", "failed", "blocked"}

Said == {"done"}
SaidOrNot == {"done", ""}

Unlimited == {None}
OneAtMost == {None, 1}
=============================================================================
