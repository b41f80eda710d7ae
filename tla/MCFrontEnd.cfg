\* A browser with two tabs and two users in front of the session store, calls
\* that overtake each other, one fault, another browser of the same user; and
\* laptops that register.
SPECIFICATION FrontEndSpec
CONSTANTS
  Users = {u1, u2}
  Names = {u1, u2}
  Tabs = {t1, t2}
  Home = t1
  MaxLogins = 2
  Ids = {s1, s2}
  Procs = {p1, p2}
  FirstDomain = 100
  LastDomain = 101
  NoUser = NoUser
  NoId = NoId
  FaultKinds = {"api", "crash", "pod"}
  MaxFaults = 1
  ApiStatuses = {}
  Addresses = {a1, a2}
  Limit = 2
  Window = 2
  MaxClock = 3
  MaxRequests = 5
VIEW StateButAnswer
INVARIANTS
  PortalTypeOK
  TabsActAsCookie
  PageShowsOwnSession
  LimiterIsExact
PROPERTIES
  FramesShowPage
  LockoutEnds
  StepperTerminates
  ShellIsLeft
CHECK_DEADLOCK FALSE
