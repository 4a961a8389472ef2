SPECIFICATION Spec
INVARIANTS TypeOK TasksWereAccepted RunsAreCovered ChecksAgree BlockedHasNoRoute DeeperRuleWins NobodyIsFitter PlansNameTheirTarget
CONSTANTS
  Profiles = {1, 2, 3}
  None = None
  Objectives = {o1}
  Runners = {r1}
  MaxProposals = 2
  MaxEdits = 1
  MaxRuns = 2
  Characters <- MCCharacters
  Configs <- AllConfigs
  Requests <- AllRequests
  Budgets <- BothBudgets
  Registries <- MCRegistries
  RoutingTasks <- MCRoutingTasks
  Maintainer = 2
  Slugs <- MCSlugs
  Operations <- MCOperations
  Scores <- ZeroOrOne
  Calls <- AllCalls
CHECK_DEADLOCK FALSE
