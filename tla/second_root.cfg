SPECIFICATION Spec
CONSTANTS
  Enqueuers = {e1}
  Senders = {s1, s2}
  N = 2
  Goals = {"g1"}
  GoalOf <- OneGoal
  TargetOf <- Threads
  Limits <- Unlimited
  MaxEnqueues = 2
  MaxFaults = 0
  Truncated = Truncated
  None = None
INVARIANT OnlyFirstIsRoot
