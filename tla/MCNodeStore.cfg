\* Two laptops, two handlers, two tokens, automatic approval beside the
\* operator, failing saves and crashes.
SPECIFICATION Spec
CONSTANTS
  Laptops = {l1, l2}
  Ids = {n1, n2}
  Tokens = {t1, t2}
  Procs = {p1, p2}
  NoLaptop = NoLaptop
  NoId = NoId
  NoToken = NoToken
  TokenTTL = 1
  MaxTime = 3
  AllDraws = TRUE
  Settings <- OnlyAutomatic
  FaultKinds = {"save", "crash"}
  MaxFaults = 2
SYMMETRY Symmetry
VIEW StateButAnswer
INVARIANTS
  TypeOK
  OneRequestPerLaptop
  JoinedIsLabelled
PROPERTIES
  LifecycleUnlessStaleRestart
