SPECIFICATION Spec
PROPERTY
  ReacquisitionBlocked
CONSTANTS
  c1 = c1
  c2 = c2
  w1 = w1
  v1 = v1
  v2 = v2
  v3 = v3
  r1 = r1
  r2 = r2
  Clients = {c1, c2}
  Workers = {}
  Values = {v1}
  NoValue = NoValue
  Named = {}
  Requests = {r1}
  NoRequest = NoRequest
  Scopes = {"workspace"}
  Kinds = {"erasure"}
  Ids = {1}
  Expiring = {}
  BatchSize = 1
  MaxBatch = 1
  MaxCrashes = 0
