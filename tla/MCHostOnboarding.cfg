\* One laptop that runs the program twice, the operator, the watcher, and one
\* lost call, API fault, crash or node failure at any point.
SPECIFICATION FairOnboarding
CONSTANTS
  Laptops = {l1}
  Ids = {n1}
  Tokens = {t1, t2}
  Procs = {p1, p2}
  NoLaptop = NoLaptop
  NoId = NoId
  NoToken = NoToken
  NoProc = NoProc
  TokenTTL = 1
  MaxTime = 3
  AllDraws = FALSE
  Settings <- ThreeSettings
  FaultKinds = {"crash", "node", "lost"}
  MaxFaults = 1
  Profiles <- AroundTheBars
  Timeout = 1
  MaxRuns = 2
INVARIANTS
  ProgramTypeOK
  OnlyHostsJoin
  DoneMeansHost
  AgentMeansApproved
PROPERTIES
  ToolkitNeedsConsent
  OneEngine
  RunsEnd
CHECK_DEADLOCK FALSE
