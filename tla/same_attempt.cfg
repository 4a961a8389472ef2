SPECIFICATION FairSpec
CONSTANTS
  Sessions = {s1}
  Cron = {c1}
  N = 1
  Goals <- MCGoals
  GoalOf <- MCGoalOf
  Budgets <- FundedOnly
  Specs <- StrictOnly
  Items <- TwoItems
  Outcomes <- Done
  Summaries <- Said
  Quotas <- OneAtMost
  Commands <- Basic
  MaxOps = 5
  MaxCrashes = 0
  Absent = Absent
  Truncated = Truncated
  Garbled = Garbled
  None = None
PROPERTY SubmissionIsSettled
CHECK_DEADLOCK FALSE
