\* A save of sessions.json that stops half-way, then a crash.
SPECIFICATION Spec
CONSTANTS
  Users = {u1, u2}
  Ids = {s1, s2}
  Procs = {p1, p2}
  FirstDomain = 100
  LastDomain = 101
  NoUser = NoUser
  NoId = NoId
  FaultKinds = {"torn", "crash"}
  MaxFaults = 2
  ApiStatuses = {}
SYMMETRY Symmetry
VIEW StateButAnswer
INVARIANT
  RestartPossible
CHECK_DEADLOCK FALSE
