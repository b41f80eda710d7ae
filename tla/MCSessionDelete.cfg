\* A delete that runs beside the create of the same session, nothing failing.
SPECIFICATION Spec
CONSTANTS
  Users = {u1, u2}
  Ids = {s1, s2}
  Procs = {p1, p2}
  FirstDomain = 100
  LastDomain = 101
  NoUser = NoUser
  NoId = NoId
  FaultKinds = {}
  MaxFaults = 2
  ApiStatuses = {}
SYMMETRY Symmetry
VIEW StateButAnswer
INVARIANT
  StoppedMeansGone
CHECK_DEADLOCK FALSE
