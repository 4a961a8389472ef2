SPECIFICATION FairSpec
INVARIANTS TypeOK GoalIsExplained ApprovalIsEarned ReportIsTrue
PROPERTY RegistryHeals
CONSTANTS
  Texts <- MCTexts
  Sources = {"cli", "chat"}
  Experts <- MCExperts
  Clerks = {k1, k2}
  Health = {h1}
  Defaults <- MCDefaults
  Contexts = {x1, x2}
  Workloads <- MCWorkloads
  MaxFaults = 1
  Absent = Absent
  Truncated = Truncated
  Garbled = Garbled
  Invalid = Invalid
  None = None
