CONSTANTS
  s1 = s1
  s2 = s2
  u1 = u1
  p1 = p1
  h1 = h1
  h2 = h2
  x1 = x1
  x2 = x2
  NoUser = NoUser
  Servers <- MCServers
  Handlers <- MCHandlers
  Editors <- MCEditors
  ServerOf <- MCServerOf
  Users <- MCUsers
  Projects <- MCProjects
  Requests <- MCRequests
  TTL = 1
  AllowRequestSupplied = TRUE
  MaxDelay = 1
  MaxArrivals = 3
  MaxUpserts = 2
  MaxClock = 3
SYMMETRY MCSymmetry
SPECIFICATION Spec
INVARIANT
  OwnUpdatesSeen
PROPERTIES
  AnswersRecent
CHECK_DEADLOCK FALSE
