SPECIFICATION Spec
CONSTANTS
  Request = {r1}
  Consumer = {"core", "auth"}
  StudentId = {s1}
  u1 = u1
  k1 = k1
  k2 = k2
  User <- Users
  Curriculum <- Curricula
  LegacyCurricula <- Legacy
  Year = {1, 2}
  Entered <- Rows
  MaxVersions = 1
  MaxHandlers = 1
  MaxOutages = 0
  None = None
PROPERTY StudentClaimsKept
CHECK_DEADLOCK FALSE
