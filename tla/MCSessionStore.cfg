\* Two users, two session ids, two concurrent handlers and one crash, with
\* every fault of the file and of the Kubernetes API.
SPECIFICATION Spec
CONSTANTS
  Users = {u1, u2}
  Ids = {s1, s2}
  Procs = {p1, p2}
  FirstDomain = 100
  LastDomain = 101
  NoUser = NoUser
  NoId = NoId
  FaultKinds = {"refused", "torn", "api", "crash"}
  MaxFaults = 2
  ApiStatuses = {}
SYMMETRY Symmetry
VIEW StateButAnswer
INVARIANTS
  TypeOK
  ExclusiveSessions
  ByUserNamesActive
  WorkloadsAreRecorded
PROPERTIES
  FailedCreateEndsSession
  TerminalIsFinal
  ReconcileKeepsWorkloads
  LeaseUnlessStaleRestart
CHECK_DEADLOCK FALSE
