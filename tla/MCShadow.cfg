SPECIFICATION Spec
CONSTANTS
  Request = {r1, r2}
  Consumer = {"academic"}
  StudentId = {s1, s2}
  u1 = u1
  k1 = k1
  k2 = k2
  User <- Users
  Curriculum <- Curricula
  LegacyCurricula <- Legacy
  Year = {1, 2}
  Entered <- Rows
  MaxVersions = 3
  MaxHandlers = 2
  MaxOutages = 1
  None = None
INVARIANTS
  ShadowTypeOK
  CopiesAreVersions
  SettledCopyIsCurrent
PROPERTIES QueuesDrain
CHECK_DEADLOCK FALSE
