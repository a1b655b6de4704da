SPECIFICATION Spec
INVARIANTS
  EveryAuditCounted
  LeadIsItsOwn
  NothingLost
  ResultsInOrder
  ExportFailsClosed
PROPERTY
  RunEnds
CONSTANTS
  p1 = p1
  p2 = p2
  p3 = p3
  p4 = p4
  g1 = g1
  Places = {p1, p2, p3, p4}
  Website <- Sites
  Pages = {g1}
  Keywords = 2
  Cells = 1
  MaxAttempts = 2
  MaxRetries = 2
  PoolSize = 2
  MaxFound = 2
  NoPlace = NoPlace
