SPECIFICATION AccountsSpec
CONSTANTS
  none = none
  b1 = b1
  h1 = h1
  h2 = h2
  s1 = s1
  s2 = s2
  t1 = t1
  u1 = u1
  v1 = v1
  v2 = v2
  p1 = p1
  Browsers = {b1}
  Handlers = {h1, h2}
  Savers = {s1, s2}
  IdleSeconds = 2
  SlideBefore = 1
  AbsoluteSeconds = 3
  RememberSeconds = 4
  UserGroups = {"INTERNAL", "EXTERNAL"}
  NoToken = none
  MaxTime = 5
  MaxSaves = 2
  MaxLogouts = 1
  RoleIds = {1, 2, 3}
  AdminRole = 1
  StaffIds = {1}
  Sections = {"bookings"}
  Transactions = {t1}
  Assignments = {u1}
  Lookups = {v1}
  GrantTtl = 2
  StartRoles <- MCRoles
  NoRole = none
  MaxEdits = 2
  MaxAssignments = 2
  People = {p1}
  Visits = {v1, v2}
  MaxFailures = 2
  Lockout = 2
  BucketTtl = 2
  Mixes <- MCMixes
  Nobody = none
  MaxVisits = 5
INVARIANTS WithinCeiling ActiveStaysSignedIn  
PROPERTIES RevokedStaysRevoked  GrantsConverge
CHECK_DEADLOCK FALSE
