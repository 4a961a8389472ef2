SPECIFICATION Spec
CONSTANTS
  Sessions = {s1, s2}
  Cron = {c1}
  N = 1
  Goals <- MCGoals
  GoalOf <- MCGoalOf
  Budgets <- BothBudgets
  Specs <- TwoSpecs
  Items <- TwoItems
  Outcomes <- Done
  Summaries <- Said
  Quotas <- OneAtMost
  Commands <- NoReview
  MaxOps = 4
  MaxCrashes = 1
  Absent = Absent
  Truncated = Truncated
  Garbled = Garbled
  None = None
INVARIANTS AcceptanceIsEarned CopiesAreEarned ReviewedOnce VerdictIsRecorded SubmittedHasAttempt
CHECK_DEADLOCK FALSE
