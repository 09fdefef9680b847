SPECIFICATION ServicesSpec
CONSTANTS
  p1 = p1
  p2 = p2
  u1 = u1
  u2 = u2
  b1 = b1
  b2 = b2
\* AuthSession
  AuthRequest = {p1, p2}
  Client = {c1}
  LockThreshold = 2
  MaxSessions = 3
  MaxPasswords = 2
  MaxLinks = 1
  MaxFailures = 3
  Scope <- MCScope
  NoOne = NoOne
\* Inbox
  NoticeId = {i1}
  NoId = NoId
  Socket = {w1}
  MaxNotices = 2
  MaxOngoing = 2
  MaxTrouble = 2
\* InvoiceGeneration
  Clerk = {p1, p2, p3}
  Billed = {u1, u2, u3}
  WithItems = {u1, u2}
  MaxRemoved = 1
  Nothing = Nothing
\* AttendanceRoll
  Roll = {p1, p2}
  Teacher = {t1, t2}
  Pupil = {u1, u2, u3}
  Known = {u1, u2}
  MaxMarks = 2
  NoRoll = NoRoll
\* SupportTickets
  Desk = {p1, p2}
  Agent = {a1}
  MaxTickets = 2
  MaxResponses = 2
  MaxRequests = 6
  NoAgent = NoAgent
\* InvoicesPage
  Bill = {b1, b2}
  TermOf <- MCTermOf
  AllTerms = AllTerms
  Listing = {l1, l2}
  Fetch = {p1, p2}
  MaxLeaves = 1
  NoBill = NoBill
\* RegisterPage
  Wanted = {u1, u2}
  Load = {p1, p2}
  MaxEvents = 3
  NoSection = NoSection
INVARIANTS
  ServicesTypeOK
  SessionsEndWithPassword
  SoleSession
  NoticesKept
  ConnectedAreOpen
  BilledOnce
  BatchReportTrue
  RollsDoNotMix
  TicketsHold
  ShownIsSelected
  PlanIsHonoured
PROPERTIES
  LockHolds
SYMMETRY Swaps
CHECK_DEADLOCK FALSE
