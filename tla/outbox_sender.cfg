SPECIFICATION Spec
CONSTANTS
  Enqueuers = {e1, e2}
  Senders = {s1}
  N = 3
  Goals = {"g1", "g2"}
  GoalOf <- TwoGoals
  TargetOf <- Threads
  Limits <- SomeLimits
  MaxEnqueues = 3
  MaxFaults = 2
  Truncated = Truncated
  None = None
INVARIANTS DeliveredOnce OneThreadPerGoal
