-------------------------- MODULE ResourceManager --------------------------
(***************************************************************************)
(* hisilicon::device::resource_manager: the process-wide table of VI       *)
(* devices, VPSS groups and VENC channels.  Every member function runs     *)
(* under the static m_mutex, so each call is one step.                     *)
(*                                                                         *)
(* m_vi_allocated and m_vpss_allocated map an id to "taken"; here they are *)
(* the sets of taken ids.  m_venc_allocated holds the taken channels with  *)
(* their encoder type; here a free channel has type NoType.                *)
(***************************************************************************)
EXTENDS Integers, FiniteSets

CONSTANTS MaxVi,    \* max_vi_devices
          MaxVpss,  \* max_vpss_groups
          MaxVenc,  \* max_venc_channels
          MaxH264,  \* max_h264_channels
          MaxH265   \* max_h265_channels

ASSUME LimitsAssumption ==
  /\ MaxVi \in Nat /\ MaxVpss \in Nat /\ MaxVenc \in Nat
  /\ MaxH264 \in Nat /\ MaxH265 \in Nat

ViDevice  == 0 .. MaxVi - 1
VpssGroup == 0 .. MaxVpss - 1
VencChn   == 0 .. MaxVenc - 1

H264 == "H264"
H265 == "H265"
VencType == {H264, H265}
NoType == "none"

VARIABLES rmInit,     \* m_initialized
          viAlloc,    \* taken VI devices
          vpssAlloc,  \* taken VPSS groups
          vencAlloc   \* type of every VENC channel, NoType when free

rmVars == <<rmInit, viAlloc, vpssAlloc, vencAlloc>>

-----------------------------------------------------------------------------
TakenVenc == {ch \in VencChn : vencAlloc[ch] # NoType}
OfType(type) == {ch \in VencChn : vencAlloc[ch] = type}
TypeLimit(type) == IF type = H264 THEN MaxH264 ELSE MaxH265

\* x is the first id of S that the ascending scan of the code meets.
IsFirst(x, S) == x \in S /\ \A y \in S : x <= y

\* is_vi_device_available, is_vpss_group_available
ViAvailable   == rmInit /\ ViDevice \ viAlloc # {}
VpssAvailable == rmInit /\ VpssGroup \ vpssAlloc # {}

\* Mutant: the availability query forgets the total limit.
VencAvailableTypeOnly(type) ==
  /\ rmInit
  /\ Cardinality(OfType(type)) < TypeLimit(type)

\* is_venc_channel_available
VencAvailable(type) ==
  /\ rmInit
  /\ Cardinality(OfType(type)) < TypeLimit(type)
  /\ Cardinality(TakenVenc) < MaxVenc

\* Mutant: the allocation checks the total limit only.
VencGrantNoTypeLimit(type, ch) ==
  /\ rmInit
  /\ Cardinality(TakenVenc) < MaxVenc
  /\ IsFirst(ch, VencChn \ TakenVenc)

\* The conditions under which allocate_venc_channel gives out ch.
VencGrant(type, ch) ==
  /\ rmInit
  /\ Cardinality(OfType(type)) < TypeLimit(type)
  /\ Cardinality(TakenVenc) < MaxVenc
  /\ IsFirst(ch, VencChn \ TakenVenc)

-----------------------------------------------------------------------------
EmptyVenc == [ch \in VencChn |-> NoType]

RmInitState ==
  /\ rmInit = FALSE
  /\ viAlloc = {}
  /\ vpssAlloc = {}
  /\ vencAlloc = EmptyVenc

\* init(limits): false, and no change, when already initialized.
InitRm ==
  /\ ~rmInit
  /\ rmInit' = TRUE
  /\ viAlloc' = {}
  /\ vpssAlloc' = {}
  /\ vencAlloc' = EmptyVenc

\* Mutant: release() forgets m_venc_allocated.clear().
ReleaseRmKeepsVenc ==
  /\ rmInit' = FALSE
  /\ viAlloc' = {}
  /\ vpssAlloc' = {}
  /\ UNCHANGED vencAlloc

\* release()
ReleaseRm ==
  /\ rmInit' = FALSE
  /\ viAlloc' = {}
  /\ vpssAlloc' = {}
  /\ vencAlloc' = EmptyVenc

AllocateVi(d) ==
  /\ rmInit
  /\ IsFirst(d, ViDevice \ viAlloc)
  /\ viAlloc' = viAlloc \cup {d}
  /\ UNCHANGED <<rmInit, vpssAlloc, vencAlloc>>

AllocateVpss(g) ==
  /\ rmInit
  /\ IsFirst(g, VpssGroup \ vpssAlloc)
  /\ vpssAlloc' = vpssAlloc \cup {g}
  /\ UNCHANGED <<rmInit, viAlloc, vencAlloc>>

AllocateVenc(type, ch) ==
  /\ VencGrant(type, ch)
  /\ vencAlloc' = [vencAlloc EXCEPT ![ch] = type]
  /\ UNCHANGED <<rmInit, viAlloc, vpssAlloc>>

\* The frees ignore an id that is unknown or not taken, and do nothing
\* before init.
FreeVi(d) ==
  /\ viAlloc' = IF rmInit THEN viAlloc \ {d} ELSE viAlloc
  /\ UNCHANGED <<rmInit, vpssAlloc, vencAlloc>>

FreeVpss(g) ==
  /\ vpssAlloc' = IF rmInit THEN vpssAlloc \ {g} ELSE vpssAlloc
  /\ UNCHANGED <<rmInit, viAlloc, vencAlloc>>

FreeVenc(ch) ==
  /\ vencAlloc' = [c \in VencChn |->
                     IF rmInit /\ c = ch THEN NoType ELSE vencAlloc[c]]
  /\ UNCHANGED <<rmInit, viAlloc, vpssAlloc>>

-----------------------------------------------------------------------------
(* The table on its own, called by anybody in any order.                   *)

NextRm ==
  \/ InitRm
  \/ ReleaseRm
  \/ \E d \in ViDevice : AllocateVi(d) \/ FreeVi(d)
  \/ \E g \in VpssGroup : AllocateVpss(g) \/ FreeVpss(g)
  \/ \E ch \in VencChn : FreeVenc(ch) \/ \E type \in VencType : AllocateVenc(type, ch)

SpecRm == RmInitState /\ [][NextRm]_rmVars

-----------------------------------------------------------------------------
\* Type invariant of the allocation tables.
RmTypeOK ==
  /\ rmInit \in BOOLEAN
  /\ viAlloc \subseteq ViDevice
  /\ vpssAlloc \subseteq VpssGroup
  /\ vencAlloc \in [VencChn -> VencType \cup {NoType}]

\* However the calls of all cameras interleave, neither encoder type passes
\* its own limit (allocate_venc_channel counts by scanning, it keeps no
\* counter that a free could miss).
TypeLimitsRespected ==
  \A type \in VencType : Cardinality(OfType(type)) <= TypeLimit(type)

\* The query and the operation are written twice in the code
\* (is_venc_channel_available, allocate_venc_channel): "available" is answered
\* exactly when the allocation would succeed, in every mix of types, at the
\* type limit and at the total limit.
AvailableIffGranted ==
  \A type \in VencType :
    VencAvailable(type) <=> \E ch \in VencChn : VencGrant(type, ch)

\* A manager that is not initialized holds no allocation, so init after
\* release starts from an empty table.
NothingHeldUninitialized ==
  ~rmInit => viAlloc = {} /\ vpssAlloc = {} /\ TakenVenc = {}

=============================================================================
