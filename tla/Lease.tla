------------------------------- MODULE Lease -------------------------------
(***************************************************************************)
(* What resource_manager promises the cameras: a resource is on lease to   *)
(* at most one holder, a lease begins on a free resource only, and it ends *)
(* by its own holder giving it back.                                       *)
(***************************************************************************)
CONSTANTS Resource, Holder

VARIABLE lease   \* the set of pairs <<resource, holder>>

LeaseInit == lease = {}

Grant(r, h) ==
  /\ \A p \in lease : p[1] # r
  /\ lease' = lease \cup {<<r, h>>}

GiveBack(r, h) ==
  /\ <<r, h>> \in lease
  /\ lease' = lease \ {<<r, h>>}

LeaseNext == \E r \in Resource, h \in Holder : Grant(r, h) \/ GiveBack(r, h)

LeaseSpec == LeaseInit /\ [][LeaseNext]_lease
=============================================================================
