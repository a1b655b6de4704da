SPECIFICATION Spec
CONSTANTS
  c1 = c1
  c2 = c2
  w1 = w1
  w2 = w2
  k1 = k1
  k2 = k2
  N = 2
  InitialLimit = 4
  Costs <- MCCosts
  Actuals <- None
  Limits <- MCLimits
  Keys = {k1, k2}
  NoKey = NoKey
  Clients = {c1, c2}
  Workers = {w1, w2}
  Targets <- None
  Tainted = {2}
  MaxRetries = 0
  MaxCopies = 2
SYMMETRY Symmetry
INVARIANTS
  ReadIsCurrent
  OneJobPerKey
  JobHasReservation
  MessagesNameStoredJobs
