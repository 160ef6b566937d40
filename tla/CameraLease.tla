---------------------------- MODULE CameraLease ----------------------------
(***************************************************************************)
(* The cameras implement Lease: a lease is an entry of the tables of       *)
(* resource_manager together with the camera that has it in m_resources.   *)
(* An entry that no camera has is on lease to NoCam; a camera that has what *)
(* the tables call free shows up as a lease too.                           *)
(***************************************************************************)
EXTENDS Camera

Resource ==
  ({"vi"} \X ViDevice) \cup ({"vpss"} \X VpssGroup) \cup ({"venc"} \X VencChn)

Holds(c, r) ==
  \/ r[1] = "vi" /\ vi[c] = r[2]
  \/ r[1] = "vpss" /\ vpss[c] = r[2]
  \/ r[1] = "venc" /\ r[2] \in Channels(c)

Taken(r) ==
  \/ r[1] = "vi" /\ r[2] \in viAlloc
  \/ r[1] = "vpss" /\ r[2] \in vpssAlloc
  \/ r[1] = "venc" /\ r[2] \in TakenVenc

LeaseOf ==
  {p \in Resource \X (Cam \cup {NoCam}) :
     IF p[2] \in Cam THEN Holds(p[2], p[1])
     ELSE Taken(p[1]) /\ \A c \in Cam : ~Holds(c, p[1])}

L == INSTANCE Lease WITH lease <- LeaseOf, Holder <- Cam, Resource <- Resource

\* Every step of the cameras, of the registry and of the tables is one grant,
\* one return, or no change of the leases at all; in particular no step of
\* start, of its roll-backs or of stop gives back a resource twice.
ImplementsLease == L!LeaseSpec
=============================================================================
