\* One crash at any point, no failing save or API call: what the store
\* promises across a restart, and what it eventually does.
SPECIFICATION FairSpec
CONSTANTS
  Users = {u1}
  Ids = {s1, s2}
  Procs = {p1, p2}
  FirstDomain = 100
  LastDomain = 101
  NoUser = NoUser
  NoId = NoId
  FaultKinds = {"crash", "pod"}
  MaxFaults = 1
  ApiStatuses = {"stopping"}
INVARIANTS
  ReadyIsComplete
PROPERTIES
  ImplementsLease
  RequestsEnd
  ProvisioningResolves
