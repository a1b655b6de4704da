SPECIFICATION ServiceFairSpec
PROPERTIES
  ExpiredDeleted
CONSTANTS
  c1 = c1
  w1 = w1
  s1 = s1
  s2 = s2
  v1 = v1
  r1 = r1
  Clients = {c1}
  Workers = {w1}
  Schedulers = {s1, s2}
  Values = {v1}
  NoValue = NoValue
  Named = {}
  Requests = {r1}
  NoRequest = NoRequest
  Scopes = {}
  Kinds = {}
  Ids = {1, 2}
  Expiring = {1, 2}
  BatchSize = 1
  MaxBatch = 1
  MaxCrashes = 1
  Interval = 1
  MaxRetries = 1
  MaxQueued = 1
