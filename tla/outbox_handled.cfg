SPECIFICATION FairSpec
CONSTANTS
  Enqueuers = {e1}
  Senders = {s1, s2}
  N = 3
  Goals = {"g1"}
  GoalOf <- OneGoal
  TargetOf <- AllTargets
  Limits <- SomeLimits
  MaxEnqueues = 2
  MaxFaults = 1
  Truncated = Truncated
  None = None
INVARIANTS TypeOK SentWasDelivered RepliesFollowTheirRoot
PROPERTIES NoteIsHandled ChannelSpec
