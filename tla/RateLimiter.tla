----------------------------- MODULE RateLimiter -----------------------------
(***************************************************************************)
(* The sliding-window limiter in front of POST /api/nodes/register         *)
(* (internal/httpapi/router.go, 134, 157-160 and 301-331), which any       *)
(* laptop may call without signing in.  The map of hits is behind a mutex, *)
(* and the clock is read inside it: one call of allow is one step.         *)
(***************************************************************************)
EXTENDS Naturals, Sequences, FiniteSets

CONSTANTS
  Addresses,    (* what clientIP returns: hosts of remote addresses        *)
  Limit,        (* hits admitted per window: 10 in the code                *)
  Window,       (* length of the window: a minute in the code              *)
  MaxClock,     (* bound on the clock                                      *)
  MaxRequests   (* bound on the requests                                   *)

ASSUME LimiterAssumption == Limit \in Nat /\ Window \in Nat

VARIABLES
  clock,   (* time.Now()                                                   *)
  log,     (* history: every request, in the order of the mutex            *)
  hits     (* per address: the requests whose times the map holds          *)

limiterVars == <<clock, log, hits>>

(* The times after the cutoff.                                              *)
Kept(a) == {n \in hits[a] : log[n].at + Window > clock}

(* Mutant: a refused request is recorded as a hit.                          *)
Allow_RecordsRefused(a) ==
  LET ok == Cardinality(Kept(a)) < Limit IN
  /\ log' = Append(log, [from |-> a, at |-> clock, ok |-> ok])
  /\ hits' = [hits EXCEPT ![a] = Kept(a) \cup {Len(log) + 1}]
  /\ UNCHANGED clock

(* allow: old hits are dropped, and the request is recorded if it goes in.  *)
Allow(a) ==
  LET ok == Cardinality(Kept(a)) < Limit IN
  /\ log' = Append(log, [from |-> a, at |-> clock, ok |-> ok])
  /\ hits' = [hits EXCEPT ![a] = Kept(a) \cup (IF ok THEN {Len(log) + 1} ELSE {})]
  /\ UNCHANGED clock

(* A registration with the right join key asks the limiter.                 *)
Request(a) == Len(log) < MaxRequests /\ Allow(a)

Tick == clock < MaxClock /\ clock' = clock + 1 /\ UNCHANGED <<log, hits>>

LimiterInit == clock = 0 /\ log = <<>> /\ hits = [a \in Addresses |-> {}]

LimiterNext == Tick \/ \E a \in Addresses : Request(a)

LimiterSpec == LimiterInit /\ [][LimiterNext]_limiterVars

-----------------------------------------------------------------------------
(* Properties *)

Requests == [from : Addresses, at : Nat, ok : BOOLEAN]

LimiterTypeOK ==
  /\ clock \in Nat /\ log \in Seq(Requests)
  /\ hits \in [Addresses -> SUBSET DOMAIN log]

(* The requests of a up to the n-th that went in during the window that     *)
(* ends at time t.                                                          *)
Admitted(a, n, t) ==
  {m \in 1..n : log[m].from = a /\ log[m].ok /\ log[m].at + Window > t}

(* Over every window that ends with a request, the limiter is exact: no     *)
(* more than Limit requests of one address went in, and a request was       *)
(* refused only when Limit of them had.  The map it goes by has forgotten   *)
(* older hits and knows nothing of refused ones.                            *)
LimiterIsExact ==
  \A n \in DOMAIN log :
    LET went == Cardinality(Admitted(log[n].from, n, log[n].at))
    IN IF log[n].ok THEN went <= Limit ELSE went = Limit

(* What makes it inductive: the times in the past are not later than now,   *)
(* the hits that still count are the requests that went in, and they are    *)
(* within the limit.                                                        *)
PastIsPast == \A n \in DOMAIN log : log[n].at <= clock

HitsAreAdmitted == \A a \in Addresses : Kept(a) = Admitted(a, Len(log), clock)

HitsAreFew == \A a \in Addresses : Cardinality(Kept(a)) <= Limit

LimiterInv ==
  LimiterTypeOK /\ PastIsPast /\ HitsAreAdmitted /\ HitsAreFew /\ LimiterIsExact

=============================================================================
