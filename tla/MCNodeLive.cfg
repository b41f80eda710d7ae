\* One API fault, crash or node failure, no failing save: what a request comes to.
SPECIFICATION FairSpec
CONSTANTS
  Laptops = {l1, l2}
  Ids = {n1, n2}
  Tokens = {t1, t2}
  Procs = {p1}
  NoLaptop = NoLaptop
  NoId = NoId
  NoToken = NoToken
  TokenTTL = 1
  MaxTime = 3
  AllDraws = FALSE
  Settings <- OnlyByOperator
  FaultKinds = {"api", "crash", "node"}
  MaxFaults = 1
INVARIANT
  ExpiredTokensAreDead
PROPERTIES
  ImplementsLifecycle
  ReadyNodeIsMarked
  LostTokenIsReplaced
