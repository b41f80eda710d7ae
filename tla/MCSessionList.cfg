\* A user who polls GET /api/sessions, nothing failing.
SPECIFICATION ListFairSpec
CONSTANTS
  Users = {u1}
  Ids = {s1}
  Procs = {p1}
  FirstDomain = 100
  LastDomain = 100
  NoUser = NoUser
  NoId = NoId
  FaultKinds = {}
  MaxFaults = 0
  ApiStatuses = {}
PROPERTY
  ListedSessionResolves
CHECK_DEADLOCK FALSE
