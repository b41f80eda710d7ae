\* A request that expires after its laptop was let in, before the watcher looks.
SPECIFICATION FairSpec
CONSTANTS
  Laptops = {l1}
  Ids = {n1}
  Tokens = {t1, t2}
  Procs = {p1}
  NoLaptop = NoLaptop
  NoId = NoId
  NoToken = NoToken
  TokenTTL = 1
  MaxTime = 3
  AllDraws = FALSE
  Settings <- OnlyByOperator
  FaultKinds = {}
  MaxFaults = 0
PROPERTY
  ReadyNodeIsLabelled
