---------------------------- MODULE SessionLease ----------------------------
(***************************************************************************)
(* What the session store promises, without its lock, file, handlers and   *)
(* cluster: a table of leases.  A lease is granted to a user that holds no *)
(* live one, with the lowest ROS domain no live lease uses; it ends once   *)
(* and for good; and the table survives the control panel's restarts,      *)
(* because nothing here can forget a lease.                                *)
(***************************************************************************)
EXTENDS Naturals

CONSTANTS Users, Ids, Domains, NoUser

VARIABLE lease

Leases == [user : Users \cup {NoUser}, domain : Domains \cup {0},
           phase : {"unborn", "live", "over"}]

Live == {id \in Ids : lease[id].phase = "live"}

FreeDomains == Domains \ {lease[id].domain : id \in Live}

Init ==
  lease = [id \in Ids |-> [user |-> NoUser, domain |-> 0, phase |-> "unborn"]]

Grant(u, id, d) ==
  /\ lease[id].phase = "unborn"
  /\ \A other \in Live : lease[other].user # u
  /\ d \in FreeDomains /\ \A e \in FreeDomains : d <= e
  /\ lease' = [lease EXCEPT ![id] = [user |-> u, domain |-> d, phase |-> "live"]]

End(id) ==
  /\ lease[id].phase = "live"
  /\ lease' = [lease EXCEPT ![id].phase = "over"]

Next ==
  \/ \E u \in Users, id \in Ids, d \in Domains : Grant(u, id, d)
  \/ \E id \in Ids : End(id)

Spec == Init /\ [][Next]_lease

=============================================================================
