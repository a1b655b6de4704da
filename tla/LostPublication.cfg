SPECIFICATION FairSpec
CONSTANTS
  c1 = c1
  c2 = c2
  w1 = w1
  w2 = w2
  k1 = k1
  k2 = k2
  N = 1
  InitialLimit = 4
  Costs <- OneCost
  Actuals <- None
  Limits <- MCLimits
  Keys = {k1}
  NoKey = NoKey
  Clients = {c1}
  Workers = {w1}
  Targets <- None
  Tainted = {2}
  MaxRetries = 1
  MaxCopies = 2
PROPERTIES
  QueuedJobsRelease
