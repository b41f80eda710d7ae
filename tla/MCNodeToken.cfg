\* Two polls of the same approved request at once, nothing failing.
SPECIFICATION Spec
CONSTANTS
  Laptops = {l1}
  Ids = {n1}
  Tokens = {t1, t2}
  Procs = {p1, p2}
  NoLaptop = NoLaptop
  NoId = NoId
  NoToken = NoToken
  TokenTTL = 1
  MaxTime = 3
  AllDraws = FALSE
  Settings <- OnlyByOperator
  FaultKinds = {}
  MaxFaults = 0
INVARIANT
  OneTokenPerApproval
