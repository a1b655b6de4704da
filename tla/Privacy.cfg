SPECIFICATION FairSpec
INVARIANTS
  RequestSuppresses
  ExportHonoursSuppression
  ExportDeletesOnlyExpired
PROPERTIES
  RequestRecordedOnce
  SubjectErased
  TransactionsEnd
CONSTANTS
  c1 = c1
  c2 = c2
  w1 = w1
  v1 = v1
  v2 = v2
  v3 = v3
  r1 = r1
  r2 = r2
  NoValue = NoValue
  NoRequest = NoRequest
  BatchSize = 1
  MaxBatch = 1
  Clients = {c1, c2}
  Workers = {}
  Values = {v1}
  Named = {v1}
  Requests = {r1}
  Scopes = {"global"}
  Kinds = {"rectification", "erasure", "access"}
  Ids = {1}
  Expiring = {1}
  MaxCrashes = 1
