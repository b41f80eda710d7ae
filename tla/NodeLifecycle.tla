--------------------------- MODULE NodeLifecycle ---------------------------
(***************************************************************************)
(* What host onboarding promises for each join request, without handlers,  *)
(* file, tokens and watcher: a request is decided once, a laptop gets a    *)
(* credential only for a request that was approved, and it is a host only  *)
(* after it got one.  An approval that was not used in time expires and    *)
(* may be renewed; nothing else is ever taken back.                        *)
(***************************************************************************)
EXTENDS Naturals

CONSTANT Ids

VARIABLES
  status,      (* of each request: "unknown" until it is made               *)
  credential   (* the requests a credential was given for                   *)

lifecycle == <<status, credential>>

Init == status = [id \in Ids |-> "unknown"] /\ credential = {}

Become(id, from, to) ==
  /\ status[id] \in from
  /\ status' = [status EXCEPT ![id] = to]
  /\ UNCHANGED credential

Request(id) == Become(id, {"unknown"}, "pending")
Approve(id) == Become(id, {"pending", "expired"}, "approved")
Deny(id)    == Become(id, {"pending"}, "denied")
Expire(id)  == id \in credential /\ Become(id, {"approved"}, "expired")
Join(id)    == id \in credential /\ Become(id, {"approved"}, "joined")

Give(id) ==
  /\ status[id] \in {"approved", "joined", "expired"}
  /\ credential' = credential \cup {id}
  /\ UNCHANGED status

Next ==
  \E id \in Ids :
    Request(id) \/ Approve(id) \/ Deny(id) \/ Expire(id) \/ Join(id) \/ Give(id)

Spec == Init /\ [][Next]_lifecycle

=============================================================================
