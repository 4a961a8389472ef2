SPECIFICATION Spec
CONSTANTS
  Sessions = {p1}
  Cron = {p1}
  N = 2
  Goals <- MCGoals
  GoalOf <- MCGoalOf
  Budgets <- BothBudgets
  Specs <- TwoSpecs
  Items <- OneItem
  Outcomes <- AllOutcomes
  Summaries <- SaidOrNot
  Quotas <- OneAtMost
  Commands <- Everything
  MaxOps = 5
  MaxCrashes = 0
  Absent = Absent
  Truncated = Truncated
  Garbled = Garbled
  None = None
INVARIANT MissingAttemptIsSkipped
CHECK_DEADLOCK FALSE
