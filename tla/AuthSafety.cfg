SPECIFICATION Spec
SYMMETRY Symmetry
INVARIANTS
  TypeOK
  ManageNeedsMfa
PROPERTIES
  RevocationImmediate
  IdentityNeverMoves
  ImplementsRevocableSessions
CONSTANTS
  p1 = p1
  p2 = p2
  s1 = s1
  s2 = s2
  u1 = u1
  u2 = u2
  i1 = i1
  Procs = {p1, p2}
  Sessions = {s1}
  NoSession = NoSession
  Role = "admin"
  Users = {u1, u2}
  NoUser = NoUser
  Identities = {i1}
  CodeCount = 1
  MaxTokens = 3
  MaxEnrolments = 2
  MaxVersion = 2
CHECK_DEADLOCK FALSE
