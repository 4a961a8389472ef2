SPECIFICATION FairSpec
INVARIANTS TypeOK OneListener OkMeansSaved DemandGetsItsGoal
PROPERTY MessageIsSettled
CONSTANTS
  Texts <- MCTexts
  Sources = {"chat"}
  Messages = 2
  Experts <- MCExperts
  Events <- MCEvents
  Watchdogs = {w1}
  Pids = {1, 2}
  Capacity = 1
  MaxFaults = 1
  Absent = Absent
  Truncated = Truncated
  Garbled = Garbled
  Invalid = Invalid
  None = None
  Other = Other
CHECK_DEADLOCK FALSE
