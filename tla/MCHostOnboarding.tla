-------------------------- MODULE MCHostOnboarding --------------------------
(* Host onboarding end to end for TLC: hardware on both sides of the bars.  *)
EXTENDS HostOnboarding, TLC

ByOperator    == [autoApprove |-> FALSE, joinURL |-> TRUE, inCluster |-> TRUE]
Misconfigured == [autoApprove |-> TRUE, joinURL |-> FALSE, inCluster |-> TRUE]

OutOfCluster  == [autoApprove |-> TRUE, joinURL |-> TRUE, inCluster |-> FALSE]

ThreeSettings == {ByOperator, Misconfigured, OutOfCluster}

AtTheBar ==
  [OS |-> "linux", CPU |-> 8, RAMGB |-> 160, GPU |-> TRUE, DriverMajor |-> 535,
   DiskFreeGB |-> 250, HasSudo |-> TRUE, MasterOnline |-> FALSE]

(* A machine that meets every bar, and one below each bar in turn.          *)
AroundTheBars ==
  {AtTheBar, [AtTheBar EXCEPT !.OS = "darwin"], [AtTheBar EXCEPT !.CPU = 7],
   [AtTheBar EXCEPT !.RAMGB = 159], [AtTheBar EXCEPT !.DriverMajor = 534],
   [AtTheBar EXCEPT !.DiskFreeGB = 249], [AtTheBar EXCEPT !.HasSudo = FALSE],
   [AtTheBar EXCEPT !.GPU = FALSE, !.DriverMajor = 0]}

=============================================================================
