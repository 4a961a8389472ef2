SPECIFICATION FairSpec
CONSTANTS
  Sessions = {s1}
  Cron = {c1}
  N = 2
  Goals <- MCGoals
  GoalOf <- MCGoalOf
  Budgets <- FundedOnly
  Specs <- TwoSpecs
  Items <- OneItem
  Outcomes <- Done
  Summaries <- Said
  Quotas <- OneAtMost
  Commands <- Basic
  MaxOps = 4
  MaxCrashes = 0
  Absent = Absent
  Truncated = Truncated
  Garbled = Garbled
  None = None
PROPERTY SubmissionIsAnswered
CHECK_DEADLOCK FALSE
