----------------------------- MODULE MCFrontEnd -----------------------------
(***************************************************************************)
(* The HTTP front of the panel for TLC: the student's browser, and the     *)
(* limiter in front of the laptops' registrations.  One run explores       *)
(* several small scopes side by side; a scope bounds who takes part and    *)
(* how often, never what a step does.                                      *)
(***************************************************************************)
EXTENDS StudentPortal, RateLimiter

VARIABLE scope

(* No step reads answer but the one that sends it.                         *)
StateButAnswer ==
  <<storeVars, k8sVars, bootVars, proc, faults, loginVars, page, calls,
    limiterVars, scope>>

Any(S) == {CHOOSE x \in S : TRUE}

(* Tabs that only sign in and out: the pages have no call to make.          *)
SigningIn ==
  [lanes |-> {}, tabs |-> Tabs, names |-> Names, logins |-> 2, ids |-> {},
   faults |-> 0, without |-> {}]

(* One user who stays signed in, one session, calls that overlap and        *)
(* overtake each other.                                                     *)
Overtaking ==
  [lanes |-> Procs, tabs |-> {Home}, names |-> Any(Names), logins |-> 1,
   ids |-> Any(Ids), faults |-> 0, without |-> {"frame"}]

(* The same on the launch page alone, with one session after another.       *)
Succeeding ==
  [Overtaking EXCEPT !.ids = Ids,
     !.without = {"frame", "appList", "appDetail", "appPoll", "appStop", "elsewhere"}]

(* One call at a time, and one fault: a crash, a lost pod, an API error.    *)
Failing ==
  [lanes |-> Any(Procs), tabs |-> {Home}, names |-> Any(Names), logins |-> 1,
   ids |-> Any(Ids), faults |-> 1, without |-> {}]

(* One call at a time, one session after another.                           *)
Replacing ==
  [lanes |-> Any(Procs), tabs |-> {Home}, names |-> Any(Names), logins |-> 1,
   ids |-> Ids, faults |-> 0, without |-> {}]

(* One call at a time beside another tab and another user, who signs in     *)
(* second; nobody stops the session.                                        *)
Sharing ==
  [lanes |-> Any(Procs), tabs |-> Tabs, names |-> Names, logins |-> 2,
   ids |-> Any(Ids), faults |-> 0, without |-> {"stop", "appStop", "elsewhere"}]

(* Laptops that register; no browser.                                       *)
Registering ==
  [lanes |-> {}, tabs |-> {}, names |-> {}, logins |-> 0, ids |-> {},
   faults |-> 0, without |-> {}]

Scopes ==
  {SigningIn, Overtaking, Succeeding, Failing, Replacing, Sharing, Registering}

Within ==
  /\ \A p \in Procs :
       /\ calls'[p].at # "free" => p \in scope.lanes /\ calls'[p].kind \notin scope.without
       /\ proc'[p].user \in scope.names \cup {NoUser}
       /\ ~(scope = Overtaking /\ calls'[p].kind = "elsewhere" /\ proc'[p].op = "create")
  /\ \A p \in Procs :
       calls[p].at = "free" /\ calls'[p].kind = "create"
         => scope.ids = Ids \/ \E id \in scope.ids : ~Present(sessions, id)
  /\ \A t \in Tabs : form'[t].at # "quiet" => t \in scope.tabs /\ form'[t].user \in scope.names
  /\ \A t \in Tabs : creds'[t] # 0 => t \in scope.tabs
  /\ Len(issued') <= scope.logins
  /\ scope.logins > 1 /\ issued' # <<>> => issued'[1] \in Any(Names)
  /\ overlapped' => scope.lanes = {}
  /\ \A id \in Ids \ scope.ids : ~Present(sessions', id)
  /\ faults' <= scope.faults
  /\ scope \in {Overtaking, Succeeding}
       => expired' = 0 /\ (creds[Home] # NoToken => creds'[Home] # NoToken)
  /\ scope = Sharing /\ Len(issued') = 2 => issued'[1] # issued'[2]

FrontEndNext ==
  \/ PortalNext /\ Within /\ UNCHANGED limiterVars
  \/ scope = Registering /\ LimiterNext /\ UNCHANGED portalVars

FrontEndInit == PortalInit /\ LimiterInit /\ scope \in Scopes

FrontEndSpec ==
  /\ FrontEndInit
  /\ [][FrontEndNext /\ UNCHANGED scope]_<<portalVars, limiterVars, scope>>
  /\ PortalRuns

=============================================================================
