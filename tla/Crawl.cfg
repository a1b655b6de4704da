SPECIFICATION Spec
INVARIANTS
  TypeOK
  AuditableIsEvidenced
  PagesOfTheSite
  FetchesBounded
  OneAnswerPerHost
  ContactTraceable
PROPERTIES
  SuccessIsClean
  CrawlReturns
CONSTANTS
  a1 = a1
  a2 = a2
  r1 = r1
  r2 = r2
  Urls <- Site
  Targets <- Leads
  Resources <- Embedded
  PriorityPaths = {"/about", "/contact"}
  Addresses = {a1, a2}
  NoPin = NoPin
  Lengths = {119, 120, 200}
  MaxPages = 2
  MaxRedirects = 0
  Requests = {r1}
  MaxLinks = 2
  MaxCrawls = 2
CHECK_DEADLOCK FALSE
