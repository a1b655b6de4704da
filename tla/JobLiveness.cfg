SPECIFICATION FairSpec
CONSTANTS
  c1 = c1
  c2 = c2
  w1 = w1
  w2 = w2
  k1 = k1
  k2 = k2
  N = 1
  InitialLimit = 2
  Costs <- OneCost
  Actuals <- MCActuals
  Limits <- MCLimits
  Keys = {k1}
  NoKey = NoKey
  Clients = {c1, c2}
  Workers = {w1}
  Targets <- AllTargets
  Tainted = {2}
  MaxRetries = 1
  MaxCopies = 2
INVARIANTS
  WorkerFailureReleases
PROPERTIES
  FinishedForGood
  ImplementsUsageBudget
  DeliveredJobsFinish
  CallsReturn
