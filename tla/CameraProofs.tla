---------------------------- MODULE CameraProofs ----------------------------
(***************************************************************************)
(* Proofs about the resource manager and the cameras, for every set of     *)
(* cameras, threads and configurations and for all limits.                 *)
(*                                                                         *)
(* The allocation tables on their own: their type, that no encoder type    *)
(* passes its limit, that the query foretells the allocation, and that     *)
(* tables which are not initialized are empty.                             *)
(*                                                                         *)
(* The cameras: TypeOK is not inductive on its own: that the channel       *)
(* create_stream_internal adds to a camera is a channel depends on nobody  *)
(* else touching the camera meanwhile, hence on the locks (Control), on    *)
(* the objects existing (Objects) and on the locals of the calls (Locals). *)
(***************************************************************************)
EXTENDS Camera, FiniteSetTheorems, WellFoundedInduction, TLAPS

-----------------------------------------------------------------------------
(* The resource manager.                                                    *)

\* The calls that give a channel back or leave the tables alone take
\* channels of a type away, they never add one.
NoNewChannel == \A type \in VencType : OfType(type)' \subseteq OfType(type)

LEMMA OfTypeFinite == ASSUME NEW type PROVE IsFiniteSet(OfType(type))
<1>1. IsFiniteSet(VencChn)
  BY LimitsAssumption, FS_Interval DEF VencChn
<1> QED BY <1>1, FS_Subset DEF OfType

LEMMA RmTypeStep == RmTypeOK /\ [NextRm]_rmVars => RmTypeOK'
<1> SUFFICES ASSUME RmTypeOK, [NextRm]_rmVars PROVE RmTypeOK'
  OBVIOUS
<1> USE DEF RmTypeOK
<1>1. CASE UNCHANGED rmVars
  BY <1>1 DEF rmVars
<1>2. CASE InitRm \/ ReleaseRm
  BY <1>2 DEF InitRm, ReleaseRm, EmptyVenc
<1>3. ASSUME NEW d \in ViDevice, AllocateVi(d) \/ FreeVi(d) PROVE RmTypeOK'
  BY <1>3 DEF AllocateVi, FreeVi
<1>4. ASSUME NEW g \in VpssGroup, AllocateVpss(g) \/ FreeVpss(g) PROVE RmTypeOK'
  BY <1>4 DEF AllocateVpss, FreeVpss
<1>5. ASSUME NEW ch \in VencChn, NEW type \in VencType, AllocateVenc(type, ch) PROVE RmTypeOK'
  BY <1>5 DEF AllocateVenc
<1>6. ASSUME NEW ch \in VencChn, FreeVenc(ch) PROVE RmTypeOK'
  BY <1>6 DEF FreeVenc
<1> QED BY <1>1, <1>2, <1>3, <1>4, <1>5, <1>6 DEF NextRm

LEMMA RmInitType == RmInitState => RmTypeOK
  BY DEF RmInitState, RmTypeOK, EmptyVenc

\* The tables stay well typed, whoever calls them in whatever order.
THEOREM RmTypeCorrect == SpecRm => []RmTypeOK
  BY RmInitType, RmTypeStep, PTL DEF SpecRm

-----------------------------------------------------------------------------
LEMMA FewerStaysWithin ==
  ASSUME TypeLimitsRespected, NoNewChannel
  PROVE  TypeLimitsRespected'
<1> SUFFICES ASSUME NEW type \in VencType
             PROVE  Cardinality(OfType(type)') <= TypeLimit(type)
  BY DEF TypeLimitsRespected, TypeLimit
<1>1. Cardinality(OfType(type)') <= Cardinality(OfType(type))
  BY OfTypeFinite, FS_Subset DEF NoNewChannel
<1>2. IsFiniteSet(OfType(type)')
  BY OfTypeFinite, FS_Subset DEF NoNewChannel
<1>3. Cardinality(OfType(type)) \in Nat /\ Cardinality(OfType(type)') \in Nat
  BY <1>2, OfTypeFinite, FS_CardinalityType
<1>4. TypeLimit(type) \in Nat
  BY LimitsAssumption DEF TypeLimit
<1> QED BY <1>1, <1>3, <1>4 DEF TypeLimitsRespected

LEMMA GrantStaysWithin ==
  ASSUME RmTypeOK, TypeLimitsRespected,
         NEW given \in VencType, NEW ch \in VencChn, AllocateVenc(given, ch)
  PROVE  TypeLimitsRespected'
<1> SUFFICES ASSUME NEW type \in VencType
             PROVE  Cardinality(OfType(type)') <= TypeLimit(type)
  BY DEF TypeLimitsRespected, TypeLimit
<1>1. vencAlloc[ch] = NoType
  BY DEF AllocateVenc, VencGrant, IsFirst, TakenVenc
<1>2. ch \notin OfType(type)
  BY <1>1 DEF OfType, VencType, H264, H265, NoType
<1>3. OfType(type)' = IF type = given THEN OfType(type) \cup {ch} ELSE OfType(type)
  BY <1>2 DEF AllocateVenc, OfType, RmTypeOK
<1>4. Cardinality(OfType(type)) \in Nat /\ TypeLimit(type) \in Nat
  BY OfTypeFinite, FS_CardinalityType, LimitsAssumption DEF TypeLimit
<1>5. CASE type = given
  <2>1. Cardinality(OfType(type)) < TypeLimit(type)
    BY <1>5 DEF AllocateVenc, VencGrant
  <2>2. Cardinality(OfType(type) \cup {ch}) = Cardinality(OfType(type)) + 1
    BY <1>2, OfTypeFinite, FS_AddElement
  <2> QED BY <1>3, <1>4, <1>5, <2>1, <2>2
<1>6. CASE type # given
  BY <1>3, <1>6 DEF TypeLimitsRespected
<1> QED BY <1>5, <1>6

LEMMA LimitsStep == RmTypeOK /\ TypeLimitsRespected /\ [NextRm]_rmVars => TypeLimitsRespected'
<1> SUFFICES ASSUME RmTypeOK, TypeLimitsRespected, [NextRm]_rmVars PROVE TypeLimitsRespected'
  OBVIOUS
<1>1. CASE InitRm \/ ReleaseRm
  <2>1. NoNewChannel
    BY <1>1 DEF InitRm, ReleaseRm, EmptyVenc, NoNewChannel, OfType, VencType, H264, H265, NoType
  <2> QED BY <2>1, FewerStaysWithin
<1>2. CASE \/ UNCHANGED rmVars
           \/ \E d \in ViDevice : AllocateVi(d) \/ FreeVi(d)
           \/ \E g \in VpssGroup : AllocateVpss(g) \/ FreeVpss(g)
  <2>1. UNCHANGED vencAlloc
    BY <1>2 DEF rmVars, AllocateVi, FreeVi, AllocateVpss, FreeVpss
  <2> QED BY <2>1, FewerStaysWithin DEF NoNewChannel, OfType
<1>3. ASSUME NEW ch \in VencChn, FreeVenc(ch) PROVE TypeLimitsRespected'
  <2>1. NoNewChannel
    BY <1>3 DEF FreeVenc, NoNewChannel, OfType, VencType, H264, H265, NoType
  <2> QED BY <2>1, FewerStaysWithin
<1> QED BY <1>1, <1>2, <1>3, GrantStaysWithin DEF NextRm

LEMMA LimitsInit == RmInitState => TypeLimitsRespected
<1> SUFFICES ASSUME RmInitState, NEW type \in VencType
             PROVE  Cardinality(OfType(type)) <= TypeLimit(type)
  BY DEF TypeLimitsRespected
<1>1. OfType(type) = {}
  BY DEF RmInitState, EmptyVenc, OfType, VencType, H264, H265, NoType
<1>2. TypeLimit(type) \in Nat
  BY LimitsAssumption DEF TypeLimit
<1> QED BY <1>1, <1>2, FS_EmptySet

\* For all limits and all orders of the calls, neither encoder type passes its
\* own limit.
THEOREM LimitsRespected == SpecRm => []TypeLimitsRespected
  BY RmInitType, RmTypeStep, LimitsInit, LimitsStep, PTL DEF SpecRm

-----------------------------------------------------------------------------
(* The query and the allocation.                                            *)

\* A scan from 0 upwards finds something in every set that is not empty.
LEMMA ScanFinds ==
  ASSUME NEW S, S \subseteq Nat, S # {}
  PROVE  \E x : IsFirst(x, S)
<1>1. PICK x \in S : \A y \in S : <<y, x>> \notin OpToRel(<, Nat)
  BY NatLessThanWellFounded, WFMin
<1>2. ASSUME NEW y \in S PROVE x <= y
  <2>1. x \in Nat /\ y \in Nat
    OBVIOUS
  <2>2. <<y, x>> \notin {ss \in Nat \X Nat : ss[1] < ss[2]}
    BY <1>1 DEF OpToRel
  <2>3. ~(y < x)
    BY <2>1, <2>2
  <2> QED BY <2>1, <2>3
<1> QED BY <1>2 DEF IsFirst

\* Below the total limit there is a free channel.
LEMMA RoomMeansFree ==
  ASSUME Cardinality(TakenVenc) < MaxVenc
  PROVE  VencChn \ TakenVenc # {}
<1> SUFFICES ASSUME VencChn \ TakenVenc = {} PROVE FALSE
  OBVIOUS
<1>1. TakenVenc = VencChn
  BY DEF TakenVenc
<1>2. MaxVenc \in Nat /\ IsFiniteSet(VencChn) /\ Cardinality(VencChn) \in Nat
  <2>1. MaxVenc \in Nat
    BY LimitsAssumption
  <2>2. IsFiniteSet(VencChn)
    BY <2>1, FS_Interval DEF VencChn
  <2> QED BY <2>1, <2>2, FS_CardinalityType
<1>3. MaxVenc > 0
  BY <1>1, <1>2
<1>4. Cardinality(0 .. MaxVenc - 1) = MaxVenc - 1 - 0 + 1
  BY <1>2, <1>3, FS_Interval
<1> QED BY <1>1, <1>2, <1>4 DEF VencChn

LEMMA QueryForetells == AvailableIffGranted
<1> SUFFICES ASSUME NEW type \in VencType, VencAvailable(type)
             PROVE  \E ch \in VencChn : VencGrant(type, ch)
  BY DEF AvailableIffGranted, VencAvailable, VencGrant
<1>1. VencChn \subseteq Nat
  BY LimitsAssumption DEF VencChn
<1>2. PICK ch : IsFirst(ch, VencChn \ TakenVenc)
  BY <1>1, RoomMeansFree, ScanFinds DEF VencAvailable
<1>3. ch \in VencChn
  BY <1>2 DEF IsFirst
<1> QED BY <1>2, <1>3 DEF VencAvailable, VencGrant

\* For all limits and every mix of taken channels, is_venc_channel_available
\* says yes exactly when allocate_venc_channel would succeed: below both
\* limits the scan for a free channel finds one.
THEOREM QueryIsRight == SpecRm => []AvailableIffGranted
  BY QueryForetells, PTL

-----------------------------------------------------------------------------
LEMMA EmptyStep ==
  RmTypeOK /\ NothingHeldUninitialized /\ [NextRm]_rmVars => NothingHeldUninitialized'
<1> SUFFICES ASSUME RmTypeOK, NothingHeldUninitialized, [NextRm]_rmVars
             PROVE  NothingHeldUninitialized'
  OBVIOUS
<1> USE DEF NothingHeldUninitialized
<1>1. CASE InitRm \/ ReleaseRm \/ UNCHANGED rmVars
  BY <1>1 DEF InitRm, ReleaseRm, rmVars, EmptyVenc, TakenVenc
<1>2. CASE \/ \E d \in ViDevice : AllocateVi(d)
           \/ \E g \in VpssGroup : AllocateVpss(g)
           \/ \E ch \in VencChn, type \in VencType : AllocateVenc(type, ch)
  BY <1>2 DEF AllocateVi, AllocateVpss, AllocateVenc, VencGrant
<1>3. CASE \/ \E d \in ViDevice : FreeVi(d)
           \/ \E g \in VpssGroup : FreeVpss(g)
  BY <1>3 DEF FreeVi, FreeVpss, TakenVenc
<1>4. ASSUME NEW ch \in VencChn, FreeVenc(ch) PROVE NothingHeldUninitialized'
  <2>1. TakenVenc' \subseteq TakenVenc
    BY <1>4 DEF FreeVenc, TakenVenc
  <2> QED BY <1>4, <2>1 DEF FreeVenc
<1> QED BY <1>1, <1>2, <1>3, <1>4 DEF NextRm

\* Tables that were not initialized, or were released, hold nothing.
THEOREM UninitializedIsEmpty == SpecRm => []NothingHeldUninitialized
<1>1. RmInitState => NothingHeldUninitialized
  BY DEF RmInitState, NothingHeldUninitialized, EmptyVenc, TakenVenc
<1> QED BY <1>1, RmInitType, RmTypeStep, EmptyStep, PTL DEF SpecRm

-----------------------------------------------------------------------------
(* The cameras.                                                             *)

\* The steps of a call that holds the mutex of its camera.
Inside == Pc \ {"idle", "next_camera"}

\* The steps that only start goes through.
Starting == {"alloc_vpss", "init_vi", "init_streams"}

\* The calls that hold the registry's mutex.
ManagerOp == {"destroy", "destroy_all", "release"}

Control ==
  \A t \in Thread :
    /\ pc[t] \in Inside => cam[t] \in Cam /\ lock[cam[t]] = t
    /\ pc[t] = "next_camera" => op[t] \in ManagerOp
    /\ op[t] \in ManagerOp => cmLock = t /\ ids[t] \subseteq DOMAIN cameras
    /\ pc[t] \in Inside /\ op[t] = "destructor" => ~Registered(cam[t])

Objects ==
  /\ \A c \in Cam : made[c] => cfg[c] \in Config
  /\ \A c \in Cam : lock[c] # NoThread => made[c]
  /\ \A i \in DOMAIN cameras : made[cameras[i]]

Locals ==
  \A t \in Thread :
    /\ pc[t] \in Starting => op[t] = "start"
    /\ pc[t] = "init_streams" => idx[t] >= 1
    /\ pc[t] = "stream_start" => pend[cam[t]] \in VencChn /\ arg[t] \in StreamCfg

IInv == TypeOK /\ Control /\ Objects /\ Locals

-----------------------------------------------------------------------------
LEMMA NoneIsNoId == None \notin ViDevice /\ None \notin VpssGroup /\ None \notin VencChn
  BY LimitsAssumption DEF None, ViDevice, VpssGroup, VencChn

\* The calls of the tables keep them well typed.
LEMMA RmCallsType ==
  ASSUME RmTypeOK,
         \/ UNCHANGED rmVars
         \/ InitRm \/ ReleaseRm
         \/ \E d \in ViDevice : AllocateVi(d)
         \/ \E g \in VpssGroup : AllocateVpss(g)
         \/ \E type \in VencType, ch \in VencChn : AllocateVenc(type, ch)
         \/ \E d : FreeVi(d)
         \/ \E g : FreeVpss(g)
         \/ \E ch : FreeVenc(ch)
  PROVE  RmTypeOK'
<1>1. CASE UNCHANGED rmVars
  BY <1>1 DEF rmVars, RmTypeOK
<1>2. CASE InitRm \/ ReleaseRm
  BY <1>2 DEF InitRm, ReleaseRm, EmptyVenc, RmTypeOK
<1>3. CASE \E d \in ViDevice : AllocateVi(d)
  BY <1>3 DEF AllocateVi, RmTypeOK
<1>4. CASE \E g \in VpssGroup : AllocateVpss(g)
  BY <1>4 DEF AllocateVpss, RmTypeOK
<1>5. CASE \E type \in VencType, ch \in VencChn : AllocateVenc(type, ch)
  BY <1>5 DEF AllocateVenc, RmTypeOK
<1>6. CASE (\E d : FreeVi(d)) \/ (\E g : FreeVpss(g))
  BY <1>6 DEF FreeVi, FreeVpss, RmTypeOK
<1>7. CASE \E ch : FreeVenc(ch)
  BY <1>7 DEF FreeVenc, RmTypeOK
<1> QED BY <1>1, <1>2, <1>3, <1>4, <1>5, <1>6, <1>7

LEMMA VencTypeIsType == ASSUME NEW s PROVE VencTypeOf(s) \in VencType
  BY DEF VencTypeOf, VencType

-----------------------------------------------------------------------------
LEMMA InitIInv == Init => IInv
<1> SUFFICES ASSUME Init PROVE IInv
  OBVIOUS
<1> USE DEF Init
<1>1. TypeOK
  <2>1. RmTypeOK
    BY DEF RmTypeOK, RmInitState, EmptyVenc
  <2>2. nextId \in Int /\ cmLock \in Thread \cup {NoThread}
    OBVIOUS
  <2>6. DOMAIN cameras \subseteq Int /\ \A i \in DOMAIN cameras : cameras[i] \in Cam
    <3>1. DOMAIN cameras = {}
      OBVIOUS
    <3> QED BY <3>1
  <2>3. /\ made \in [Cam -> BOOLEAN] /\ ref \in [Cam -> BOOLEAN]
        /\ cfg \in [Cam -> Config \cup {NoConfig}]
        /\ running \in [Cam -> BOOLEAN]
        /\ vi \in [Cam -> ViDevice \cup {None}]
        /\ vpss \in [Cam -> VpssGroup \cup {None}]
        /\ venc \in [Cam -> SUBSET VencChn]
        /\ pend \in [Cam -> VencChn \cup {None}]
        /\ streams \in [Cam -> SUBSET Int]
        /\ viPtr \in [Cam -> {"null", "on", "off"}]
        /\ lock \in [Cam -> Thread \cup {NoThread}]
    OBVIOUS
  <2>4. /\ pc \in [Thread -> Pc] /\ op \in [Thread -> Op]
        /\ cam \in [Thread -> Cam \cup {NoCam}]
        /\ idx \in [Thread -> Nat]
        /\ arg \in [Thread -> StreamCfg \cup {NoStream}]
        /\ ids \in [Thread -> SUBSET Int]
    BY DEF Pc, Op
  <2>5. cmInit \in BOOLEAN /\ crashed \in BOOLEAN
    OBVIOUS
  <2> QED BY <2>1, <2>2, <2>3, <2>4, <2>5, <2>6 DEF TypeOK, ManagerTypeOK, ObjectTypeOK, InstanceTypeOK, ThreadTypeOK
<1>2. Control /\ Objects /\ Locals
  BY DEF Control, Objects, Locals, Inside, Registered, ManagerOp, Starting
<1> QED BY <1>1, <1>2 DEF IInv

-----------------------------------------------------------------------------
(* One lemma per group of actions: the step keeps IInv.                     *)

LEMMA ManagersStep ==
  ASSUME IInv, InitResources \/ InitManager \/ ReleaseResources \/ UNCHANGED vars
  PROVE  IInv'
<1> USE DEF cmVars, objVars, camVars, thVars
<1>1. CASE InitResources \/ ReleaseResources \/ UNCHANGED vars
  <2>1. RmTypeOK'
    BY <1>1, RmCallsType DEF IInv, TypeOK, ManagerTypeOK, ObjectTypeOK, InstanceTypeOK, ThreadTypeOK, InitResources, ReleaseResources, vars
  <2>2. UNCHANGED <<cmVars, objVars, camVars, thVars, crashed>>
    BY <1>1 DEF InitResources, ReleaseResources, vars
  <2>3. TypeOK'
    BY <2>1, <2>2 DEF IInv, TypeOK, ManagerTypeOK, ObjectTypeOK, InstanceTypeOK, ThreadTypeOK
  <2>4. Control' /\ Objects' /\ Locals'
    BY <2>2 DEF IInv, Control, Objects, Locals, Registered
  <2> QED BY <2>3, <2>4 DEF IInv
<1>2. CASE InitManager
  <2> USE <1>2 DEF InitManager
  <2>1. DOMAIN cameras' = {}
    OBVIOUS
  <2>5. cmInit' \in BOOLEAN
    BY Zenon
  <2>2. TypeOK'
    BY <2>1, <2>5 DEF IInv, TypeOK, ManagerTypeOK, ObjectTypeOK, InstanceTypeOK, ThreadTypeOK, rmVars, RmTypeOK
  <2>3. \A t \in Thread : op[t] \notin ManagerOp
    BY CameraAssumption DEF IInv, TypeOK, ManagerTypeOK, ObjectTypeOK, InstanceTypeOK, ThreadTypeOK, Control
  <2>4. Control' /\ Objects' /\ Locals'
    BY <2>1, <2>3 DEF IInv, Control, Objects, Locals, Registered
  <2> QED BY <2>2, <2>4 DEF IInv
<1> QED BY <1>1, <1>2

LEMMA CreateStep ==
  ASSUME IInv, NEW t \in Thread, NEW c \in Cam, NEW cf \in Config, CreateCamera(t, c, cf)
  PROVE  IInv'
<1> USE DEF cmVars, objVars, camVars, thVars
<1>1. PICK id \in Int :
        /\ cameras' = [i \in DOMAIN cameras \cup {id} |-> IF i = id THEN c ELSE cameras[i]]
        /\ nextId' \in Int
        /\ id \notin DOMAIN cameras
  <2>1. IdSpan \in Nat \ {0}
    BY CameraAssumption DEF IdSpan
  <2>2. PICK id \in IF cf.id < 0 THEN AutoIds ELSE {cf.id} \ DOMAIN cameras :
          /\ cameras' = [i \in DOMAIN cameras \cup {id} |-> IF i = id THEN c ELSE cameras[i]]
          /\ nextId' = IF cf.id < 0 THEN (id + 1) % IdSpan ELSE nextId
    BY DEF CreateCamera
  <2>3. id \in Int /\ id \notin DOMAIN cameras
    <3>1. CASE cf.id < 0
      BY <2>1, <2>2, <3>1 DEF AutoIds, IInv, TypeOK, ManagerTypeOK, ObjectTypeOK, InstanceTypeOK, ThreadTypeOK
    <3>2. CASE ~(cf.id < 0)
      BY <2>2, <3>2, CameraAssumption
    <3> QED BY <3>1, <3>2
  <2>4. nextId' \in Int
    BY <2>1, <2>2, <2>3 DEF IInv, TypeOK, ManagerTypeOK, ObjectTypeOK, InstanceTypeOK, ThreadTypeOK
  <2> QED BY <2>2, <2>3, <2>4
<1>2. TypeOK'
  BY <1>1, CameraAssumption DEF IInv, TypeOK, ManagerTypeOK, ObjectTypeOK, InstanceTypeOK, ThreadTypeOK, CreateCamera, rmVars, RmTypeOK
<1>3. \A u \in Thread : op[u] \notin ManagerOp
  BY CameraAssumption DEF IInv, TypeOK, ManagerTypeOK, ObjectTypeOK, InstanceTypeOK, ThreadTypeOK, Control, CreateCamera
<1>4. Control'
  <2>1. \A u \in Thread : pc[u] \in Inside => cam[u] # c
    BY CameraAssumption DEF IInv, Control, Objects, CreateCamera
  <2>2. \A d \in Cam : Registered(d)' => Registered(d) \/ d = c
    BY <1>1 DEF Registered
  <2>3. UNCHANGED <<lock, cmLock, pc, op, cam, ids>>
    BY DEF CreateCamera
  <2>4. DOMAIN cameras \subseteq DOMAIN cameras'
    BY <1>1
  <2> QED BY <2>1, <2>2, <2>3, <2>4 DEF IInv, Control
<1>5. Objects' /\ Locals'
  BY <1>1 DEF IInv, TypeOK, ManagerTypeOK, ObjectTypeOK, InstanceTypeOK, ThreadTypeOK, Objects, Locals, CreateCamera
<1> QED BY <1>2, <1>4, <1>5 DEF IInv

LEMMA RefStep ==
  ASSUME IInv, NEW c \in Cam, DropRef(c) \/ \E t \in Thread : GetCamera(t, c)
  PROVE  IInv'
<1> USE DEF cmVars, objVars, camVars, thVars
<1>1. UNCHANGED <<rmVars, cmVars, made, cfg, camVars, thVars, crashed>>
  BY DEF DropRef, GetCamera
<1>2. ref' \in [Cam -> BOOLEAN]
  BY DEF DropRef, GetCamera, IInv, TypeOK, ManagerTypeOK, ObjectTypeOK, InstanceTypeOK, ThreadTypeOK
<1>3. TypeOK'
  BY <1>1, <1>2 DEF IInv, TypeOK, ManagerTypeOK, ObjectTypeOK, InstanceTypeOK, ThreadTypeOK, rmVars, RmTypeOK
<1>4. Control' /\ Objects' /\ Locals'
  BY <1>1 DEF IInv, Control, Objects, Locals, Registered
<1> QED BY <1>3, <1>4 DEF IInv

LEMMA ManagerStep ==
  ASSUME IInv, NEW t \in Thread,
         \/ \E id \in DOMAIN cameras : Destroy(t, id)
         \/ DestroyAll(t) \/ ReleaseManager(t) \/ ManagerErase(t)
  PROVE  IInv'
<1> USE DEF cmVars, objVars, camVars, thVars
<1>1. ASSUME NEW o \in ManagerOp, NEW todo \in SUBSET DOMAIN cameras, EnterManager(t, o, todo)
      PROVE  IInv'
  <2> USE <1>1 DEF EnterManager
  <2>1. TypeOK'
    BY DEF IInv, TypeOK, ManagerTypeOK, ObjectTypeOK, InstanceTypeOK, ThreadTypeOK, rmVars, RmTypeOK, Goto, Pc, Op, ManagerOp
  <2>2. \A u \in Thread : op[u] \notin ManagerOp
    BY CameraAssumption DEF IInv, TypeOK, ManagerTypeOK, ObjectTypeOK, InstanceTypeOK, ThreadTypeOK, Control
  <2>3. Control'
    BY <2>2 DEF IInv, TypeOK, ManagerTypeOK, ObjectTypeOK, InstanceTypeOK, ThreadTypeOK, Control, Registered, Goto, Inside, ManagerOp
  <2>4. Objects' /\ Locals'
    BY DEF IInv, TypeOK, ManagerTypeOK, ObjectTypeOK, InstanceTypeOK, ThreadTypeOK, Objects, Locals, Starting, Goto
  <2> QED BY <2>1, <2>3, <2>4 DEF IInv
<1>2. CASE ManagerErase(t)
  <2> USE <1>2 DEF ManagerErase, Return
  <2>1. /\ DOMAIN cameras' \subseteq DOMAIN cameras
        /\ \A i \in DOMAIN cameras' : cameras'[i] = cameras[i]
    BY DEF RemainingCameras
  <2>2. nextId' \in Int
    BY DEF IInv, TypeOK, ManagerTypeOK, ObjectTypeOK, InstanceTypeOK, ThreadTypeOK
  <2>3. cmInit' \in BOOLEAN
    BY Zenon
  <2>4. TypeOK'
    BY <2>1, <2>2, <2>3 DEF IInv, TypeOK, ManagerTypeOK, ObjectTypeOK, InstanceTypeOK, ThreadTypeOK, rmVars, RmTypeOK, Pc, Op
  <2>5. \A u \in Thread : op[u] \in ManagerOp => u = t
    BY CameraAssumption DEF IInv, TypeOK, ManagerTypeOK, ObjectTypeOK, InstanceTypeOK, ThreadTypeOK, Control
  <2>6. \A d \in Cam : Registered(d)' => Registered(d)
    BY <2>1 DEF Registered
  <2>7. Control'
    BY <2>5, <2>6 DEF IInv, TypeOK, ManagerTypeOK, ObjectTypeOK, InstanceTypeOK, ThreadTypeOK, Control, Inside, Pc, ManagerOp
  <2>8. Objects' /\ Locals'
    BY <2>1 DEF IInv, TypeOK, ManagerTypeOK, ObjectTypeOK, InstanceTypeOK, ThreadTypeOK, Objects, Locals, Starting
  <2> QED BY <2>4, <2>7, <2>8 DEF IInv
<1> QED BY <1>1, <1>2 DEF Destroy, DestroyAll, ReleaseManager, ManagerOp

-----------------------------------------------------------------------------
(* The steps inside a call.  Three lemmas say what such a step has to do to  *)
(* keep Control, Objects and Locals: go on inside the call, return from it,  *)
(* or go back to the registry's loop.                                        *)

LEMMA InsideStep ==
  ASSUME IInv, TypeOK', NEW t \in Thread, pc[t] \in Inside,
         NEW l \in Inside, pc' = [pc EXCEPT ![t] = l],
         UNCHANGED <<cameras, cmLock, made, cfg, lock, op, cam, ids>>,
         \A u \in Thread : u # t => idx'[u] = idx[u] /\ arg'[u] = arg[u],
         \A d \in Cam : d # cam[t] => pend'[d] = pend[d],
         l \in Starting => op[t] = "start",
         l = "init_streams" => idx'[t] >= 1,
         l = "stream_start" => pend'[cam[t]] \in VencChn /\ arg'[t] \in StreamCfg
  PROVE  IInv'
<1> USE DEF IInv, TypeOK, ThreadTypeOK, InstanceTypeOK
<1>1. Control'
  BY DEF Control, Inside, Registered
<1>2. Objects'
  BY DEF Objects
<1>3. \A u \in Thread : pc[u] \in Inside /\ u # t => cam[u] # cam[t]
  BY DEF Control
<1>4. Locals'
  <2>1. pc'[t] = l /\ op' = op /\ cam' = cam
    OBVIOUS
  <2>2. \A u \in Thread : u # t => pc'[u] = pc[u] /\ idx'[u] = idx[u] /\ arg'[u] = arg[u]
    OBVIOUS
  <2>3. \A u \in Thread : u # t /\ pc[u] = "stream_start" => cam[u] \in Cam /\ pend'[cam[u]] = pend[cam[u]]
    <3>1. "stream_start" \in Inside
      BY DEF Inside, Pc
    <3> QED BY <1>3, <3>1 DEF Control
  <2>4. Locals
    OBVIOUS
  <2> HIDE DEF IInv, TypeOK
  <2> QED BY <2>1, <2>2, <2>3, <2>4 DEF Locals
<1> QED BY <1>1, <1>2, <1>4

LEMMA LeaveStep ==
  ASSUME IInv, TypeOK', NEW t \in Thread, pc[t] \in Inside,
         NEW c \in Cam, c = cam[t],
         UNCHANGED <<cameras, cmLock, ref>>,
         lock' = [lock EXCEPT ![c] = NoThread],
         \/ /\ Return(t)
            /\ op[t] \notin ManagerOp
         \/ /\ pc' = [pc EXCEPT ![t] = "next_camera"]
            /\ op[t] \in ManagerOp
            /\ UNCHANGED <<op, cam, idx, arg, ids>>,
         \A d \in Cam : d # c => pend'[d] = pend[d],
         \/ UNCHANGED <<made, cfg>>
         \/ /\ ~Registered(c)
            /\ made' = [made EXCEPT ![c] = FALSE]
            /\ cfg' = [cfg EXCEPT ![c] = NoConfig]
  PROVE  IInv'
<1> USE CameraAssumption DEF IInv, TypeOK, ThreadTypeOK, InstanceTypeOK, ObjectTypeOK,
                             ManagerTypeOK
<1>1. \A u \in Thread : pc[u] \in Inside /\ u # t => cam[u] # c
  BY DEF Control
<1>2. Control'
  BY <1>1 DEF Control, Inside, ManagerOp, Registered, Return
<1>3. Objects'
  <2>1. CASE UNCHANGED <<made, cfg>>
    BY <2>1 DEF Objects
  <2>2. CASE /\ ~Registered(c)
             /\ made' = [made EXCEPT ![c] = FALSE]
             /\ cfg' = [cfg EXCEPT ![c] = NoConfig]
    BY <2>2 DEF Objects, Registered
  <2> QED BY <2>1, <2>2
<1>4. Locals'
  <2>1. pc'[t] \in {"idle", "next_camera"}
    BY DEF Return
  <2>2. \A u \in Thread : u # t => pc'[u] = pc[u] /\ idx'[u] = idx[u] /\ arg'[u] = arg[u] /\ cam'[u] = cam[u] /\ op'[u] = op[u]
    BY DEF Return
  <2>3. \A u \in Thread : u # t /\ pc[u] = "stream_start" => cam[u] \in Cam /\ pend'[cam[u]] = pend[cam[u]]
    BY <1>1 DEF Control, Inside
  <2> HIDE DEF IInv, TypeOK
  <2>4. Locals
    BY DEF IInv
  <2> QED BY <2>1, <2>2, <2>3, <2>4 DEF Locals, Starting
<1> QED BY <1>2, <1>3, <1>4

\* The other way in: a thread that was outside locks a camera.
LEMMA EnterStep ==
  ASSUME IInv, TypeOK', NEW t \in Thread, pc[t] \in {"idle", "next_camera"},
         NEW c \in Cam, lock[c] = NoThread, made[c],
         NEW l \in Inside, pc' = [pc EXCEPT ![t] = l],
         NEW o \in Op, op' = [op EXCEPT ![t] = o],
         cam' = [cam EXCEPT ![t] = c],
         lock' = [lock EXCEPT ![c] = t],
         UNCHANGED <<cameras, cmLock, made, cfg>>,
         \A u \in Thread : u # t => idx'[u] = idx[u] /\ arg'[u] = arg[u] /\ ids'[u] = ids[u],
         \A d \in Cam : d # c => pend'[d] = pend[d],
         o \in ManagerOp => cmLock = t /\ ids'[t] \subseteq DOMAIN cameras,
         o = "destructor" => ~Registered(c),
         l # "init_streams",
         l \in Starting => o = "start",
         l = "stream_start" => pend'[c] \in VencChn /\ arg'[t] \in StreamCfg
  PROVE  IInv'
<1> USE CameraAssumption DEF IInv, TypeOK, ThreadTypeOK, InstanceTypeOK
<1>1. \A u \in Thread : pc[u] \in Inside => u # t /\ cam[u] # c
  BY DEF Control, Inside
<1>2. Control'
  BY <1>1 DEF Control, Inside, ManagerOp, Registered
<1>3. Objects'
  BY DEF Objects
<1>4. Locals'
  <2>2. \A u \in Thread : u # t => pc'[u] = pc[u] /\ idx'[u] = idx[u] /\ arg'[u] = arg[u] /\ cam'[u] = cam[u] /\ op'[u] = op[u]
    OBVIOUS
  <2>3. \A u \in Thread : u # t /\ pc[u] = "stream_start" => cam[u] \in Cam /\ pend'[cam[u]] = pend[cam[u]]
    <3>1. "stream_start" \in Inside
      BY DEF Inside, Pc
    <3> QED BY <1>1, <3>1 DEF Control
  <2>1. pc'[t] = l /\ cam'[t] = c /\ op'[t] = o
    OBVIOUS
  <2>4. Locals
    BY DEF IInv
  <2> HIDE DEF IInv, TypeOK
  <2> QED BY <2>1, <2>2, <2>3, <2>4 DEF Locals
<1> QED BY <1>2, <1>3, <1>4

LEMMA SameRegistry ==
  ASSUME TypeOK, UNCHANGED <<cmVars, objVars, crashed>>,
         RmTypeOK', InstanceTypeOK', ThreadTypeOK'
  PROVE  TypeOK'
  BY DEF TypeOK, ManagerTypeOK, ObjectTypeOK, cmVars, objVars

-----------------------------------------------------------------------------
LEMMA AllocateViStep ==
  ASSUME IInv, NEW t \in Thread, NEW c \in Cam, StartAllocateVi(t, c)
  PROVE  IInv'
<1> USE DEF IInv, TypeOK, InstanceTypeOK, ThreadTypeOK
<1>1. RmTypeOK'
  <2>1. (\E d \in ViDevice : AllocateVi(d)) \/ UNCHANGED rmVars
    BY DEF StartAllocateVi
  <2> QED BY <2>1, RmCallsType
<1>2. PICK l \in {"alloc_vpss", "free_venc"} : Enter(t, "start", c, l)
  BY DEF StartAllocateVi
<1>3. InstanceTypeOK'
  BY DEF StartAllocateVi, Lock
<1>4. ThreadTypeOK'
  BY <1>2 DEF StartAllocateVi, Enter, Goto, Pc, Op
<1>5. TypeOK'
  BY <1>1, <1>3, <1>4, SameRegistry DEF StartAllocateVi
<1>6. /\ UNCHANGED <<cameras, cmLock, made, cfg, idx, arg, ids, pend>>
      /\ lock[c] = NoThread /\ made[c] /\ lock' = [lock EXCEPT ![c] = t]
      /\ pc[t] = "idle"
  BY DEF StartAllocateVi, Lock, cmVars, objVars, Unlocked, Callable, Idle
<1>7. l \in Inside /\ l # "init_streams" /\ l # "stream_start"
  BY DEF Inside, Pc
<1>8. "start" \in Op \ ManagerOp
  BY DEF Op, ManagerOp
<1> HIDE DEF IInv, TypeOK
<1> QED BY <1>2, <1>5, <1>6, <1>7, <1>8, EnterStep DEF Enter, Goto, Starting

LEMMA AllocateVpssStep ==
  ASSUME IInv, NEW t \in Thread, StartAllocateVpss(t)
  PROVE  IInv'
<1> USE DEF IInv, TypeOK, InstanceTypeOK, ThreadTypeOK
<1>1. RmTypeOK'
  <2>1. (\E g \in VpssGroup : AllocateVpss(g)) \/ (\E d : FreeVi(d))
    BY DEF StartAllocateVpss, RollbackVi
  <2> QED BY <2>1, RmCallsType
<1>2. PICK l \in {"init_vi", "free_venc"} : pc' = [pc EXCEPT ![t] = l]
  BY DEF StartAllocateVpss, Goto
<1>3. InstanceTypeOK'
  BY DEF StartAllocateVpss, RollbackVi
<1>4. ThreadTypeOK'
  BY <1>2 DEF StartAllocateVpss, Pc
<1>5. TypeOK'
  BY <1>1, <1>3, <1>4, SameRegistry DEF StartAllocateVpss
<1>6. /\ UNCHANGED <<cameras, cmLock, made, cfg, lock, op, cam, ids, idx, arg, pend>>
      /\ pc[t] \in Inside
  BY DEF StartAllocateVpss, cmVars, objVars, Inside, Pc
<1>8. op[t] = "start"
  BY DEF StartAllocateVpss, Locals, Starting
<1>7. l \in Inside /\ l # "init_streams" /\ l # "stream_start"
  BY DEF Inside, Pc
<1> HIDE DEF IInv, TypeOK
<1> QED BY <1>2, <1>5, <1>6, <1>7, <1>8, InsideStep

LEMMA InitViStep ==
  ASSUME IInv, NEW t \in Thread, StartInitVi(t)
  PROVE  IInv'
<1> USE DEF IInv, TypeOK, InstanceTypeOK, ThreadTypeOK
<1>1. RmTypeOK'
  BY DEF StartInitVi, rmVars, RmTypeOK
<1>2. PICK l \in {"init_streams", "free_venc"} :
        /\ pc' = [pc EXCEPT ![t] = l]
        /\ idx' = IF l = "init_streams" THEN [idx EXCEPT ![t] = 1] ELSE idx
  BY DEF StartInitVi, Goto
<1>3. InstanceTypeOK'
  BY DEF StartInitVi
<1>4. ThreadTypeOK'
  BY <1>2 DEF StartInitVi, Pc
<1>5. TypeOK'
  BY <1>1, <1>3, <1>4, SameRegistry DEF StartInitVi
<1>6. /\ UNCHANGED <<cameras, cmLock, made, cfg, lock, op, cam, ids, arg, pend>>
      /\ pc[t] \in Inside
  BY DEF StartInitVi, cmVars, objVars, Inside, Pc
<1>8. op[t] = "start"
  BY DEF StartInitVi, Locals, Starting
<1>7. /\ l \in Inside /\ l # "stream_start"
      /\ \A u \in Thread : u # t => idx'[u] = idx[u]
      /\ l = "init_streams" => idx'[t] >= 1
  BY <1>2 DEF Inside, Pc
<1> HIDE DEF IInv, TypeOK
<1> QED BY <1>2, <1>5, <1>6, <1>7, <1>8, InsideStep

LEMMA NextStreamStep ==
  ASSUME IInv, NEW t \in Thread, StartNextStream(t)
  PROVE  IInv'
<1> USE DEF IInv, TypeOK, InstanceTypeOK, ThreadTypeOK
<1> DEFINE c == cam[t]
           s == cfg[c].streams[idx[t]]
<1>1. pc[t] = "init_streams" /\ c \in Cam /\ cfg[c] \in Config
  BY CameraAssumption DEF Control, Objects, Inside, Pc, StartNextStream
<1>2. s \in StreamCfg
  BY <1>1, CameraAssumption DEF Locals, StartNextStream, AllStreamsStarted
<1>3. \/ \E ch \in VencChn :
           /\ AllocateVenc(VencTypeOf(s), ch)
           /\ pend' = [pend EXCEPT ![c] = ch]
           /\ arg' = [arg EXCEPT ![t] = s]
           /\ pc' = [pc EXCEPT ![t] = "stream_start"]
           /\ UNCHANGED <<streams, viPtr>>
      \/ /\ streams' = [streams EXCEPT ![c] = {}]
         /\ viPtr' = [viPtr EXCEPT ![c] = "off"]
         /\ pc' = [pc EXCEPT ![t] = "free_venc"]
         /\ UNCHANGED <<rmVars, pend, arg>>
  BY DEF StartNextStream, Granted, AbandonStreams, Goto
<1>4. UNCHANGED <<cmVars, objVars, running, vi, vpss, venc, lock, op, cam, idx, ids, crashed>>
  BY DEF StartNextStream
<1> HIDE DEF c, s
<1>5. RmTypeOK'
  BY <1>3, VencTypeIsType, RmCallsType
<1>6. InstanceTypeOK'
  BY <1>3, <1>4
<1>7. ThreadTypeOK'
  BY <1>2, <1>3, <1>4 DEF Pc
<1>8. TypeOK'
  BY <1>4, <1>5, <1>6, <1>7, SameRegistry
<1>9. PICK l \in {"stream_start", "free_venc"} :
        /\ pc' = [pc EXCEPT ![t] = l]
        /\ l = "stream_start" => pend'[c] \in VencChn /\ arg'[t] \in StreamCfg
        /\ \A d \in Cam : d # c => pend'[d] = pend[d]
        /\ \A u \in Thread : u # t => arg'[u] = arg[u]
  BY <1>1, <1>2, <1>3
<1>10. l \in Inside /\ pc[t] \in Inside /\ l \notin Starting /\ l # "init_streams"
  BY <1>1 DEF Inside, Pc, Starting
<1> HIDE DEF IInv, TypeOK
<1> QED BY <1>4, <1>8, <1>9, <1>10, InsideStep DEF c, cmVars, objVars

LEMMA StreamStartStep ==
  ASSUME IInv, NEW t \in Thread, StreamStart(t)
  PROVE  IInv'
<1> USE DEF IInv, TypeOK, InstanceTypeOK, ThreadTypeOK
<1> DEFINE c == cam[t]
           s == arg[t]
<1>1. /\ pc[t] = "stream_start" /\ pc[t] \in Inside /\ c \in Cam
      /\ pend[c] \in VencChn /\ s \in StreamCfg /\ s.id \in Int
  BY CameraAssumption DEF Control, Locals, Inside, Pc, StreamStart
<1>2. /\ pend' = [pend EXCEPT ![c] = None]
      /\ UNCHANGED <<cmVars, objVars, running, vi, vpss, crashed>>
      /\ UNCHANGED rmVars \/ FreeVenc(pend[c])
      /\ venc' = [venc EXCEPT ![c] = @ \cup {pend[c]}] \/ venc' = venc
  BY DEF StreamStart
<1>3. /\ \/ streams' = [streams EXCEPT ![c] = @ \cup {s.id}]
         \/ streams' = [streams EXCEPT ![c] = {}]
         \/ streams' = streams
      /\ viPtr' = [viPtr EXCEPT ![c] = "off"] \/ viPtr' = viPtr
  BY DEF StreamStart, AbandonStreams
<1>4. \/ /\ op[t] = "start"
         /\ UNCHANGED <<lock, op, cam, arg, ids>>
         /\ \/ /\ pc' = [pc EXCEPT ![t] = "init_streams"]
               /\ idx' = [idx EXCEPT ![t] = @ + 1]
            \/ /\ pc' = [pc EXCEPT ![t] = "free_venc"]
               /\ UNCHANGED idx
      \/ /\ op[t] = "create_stream"
         /\ Unlock(c)
         /\ Return(t)
  BY DEF StreamStart, AbandonStreams, Goto
<1> HIDE DEF c, s
<1>5. RmTypeOK'
  BY <1>2, RmCallsType
<1>6. InstanceTypeOK'
  <2>1. venc' \in [Cam -> SUBSET VencChn] /\ pend' \in [Cam -> VencChn \cup {None}]
    BY <1>1, <1>2
  <2>2. streams' \in [Cam -> SUBSET Int] /\ viPtr' \in [Cam -> {"null", "on", "off"}]
    BY <1>1, <1>3
  <2>3. lock' \in [Cam -> Thread \cup {NoThread}]
    BY <1>4 DEF Unlock
  <2> QED BY <1>2, <2>1, <2>2, <2>3
<1>7. ThreadTypeOK'
  BY <1>4 DEF Return, Pc, Op
<1>8. TypeOK'
  BY <1>2, <1>5, <1>6, <1>7, SameRegistry
<1>9. \A d \in Cam : d # c => pend'[d] = pend[d]
  BY <1>2
<1>10. CASE op[t] = "create_stream"
  <2>1. op[t] \notin ManagerOp /\ Unlock(c) /\ Return(t)
    BY <1>4, <1>10 DEF ManagerOp
  <2> HIDE DEF IInv, TypeOK
  <2> QED BY <1>1, <1>2, <1>8, <1>9, <2>1, LeaveStep DEF c, cmVars, objVars, Unlock
<1>11. CASE op[t] = "start"
  <2>1. PICK l \in {"init_streams", "free_venc"} :
          /\ pc' = [pc EXCEPT ![t] = l]
          /\ l = "init_streams" => idx' = [idx EXCEPT ![t] = @ + 1]
          /\ l = "free_venc" => UNCHANGED idx
    BY <1>4, <1>11
  <2>2. UNCHANGED <<lock, op, cam, arg, ids>>
    BY <1>4, <1>11
  <2>3. /\ l \in Inside /\ l # "stream_start"
        /\ \A u \in Thread : u # t => idx'[u] = idx[u]
        /\ l = "init_streams" => idx'[t] >= 1
    BY <2>1 DEF Inside, Pc
  <2> HIDE DEF IInv, TypeOK
  <2> QED BY <1>1, <1>2, <1>8, <1>9, <1>11, <2>1, <2>2, <2>3, InsideStep DEF c, cmVars, objVars
<1> QED BY <1>4, <1>10, <1>11

LEMMA NullViStep ==
  ASSUME IInv, NEW t \in Thread, StreamStartNullVi(t)
  PROVE  IInv'
<1> USE DEF IInv, StreamStartNullVi
<1>1. UNCHANGED <<rmVars, cmVars, objVars, camVars, thVars>>
  OBVIOUS
<1>2. crashed' \in BOOLEAN
  BY Zenon
<1> HIDE DEF StreamStartNullVi
<1>3. TypeOK'
  BY <1>1, <1>2 DEF TypeOK, ManagerTypeOK, ObjectTypeOK, InstanceTypeOK, ThreadTypeOK,
                    RmTypeOK, rmVars, cmVars, objVars, camVars, thVars
<1>4. Control' /\ Objects' /\ Locals'
  BY <1>1 DEF Control, Objects, Locals, Registered, cmVars, objVars, camVars, thVars
<1> QED BY <1>3, <1>4

LEMMA StartDoneStep ==
  ASSUME IInv, NEW t \in Thread, StartDone(t)
  PROVE  IInv'
<1> USE DEF IInv, TypeOK, InstanceTypeOK, ThreadTypeOK
<1> DEFINE c == cam[t]
<1>1. pc[t] \in Inside /\ c \in Cam
  BY DEF StartDone, Control, Inside, Pc
<1>2. RmTypeOK'
  BY DEF StartDone, rmVars, RmTypeOK
<1>3. InstanceTypeOK'
  <2>1. running' \in [Cam -> BOOLEAN]
    BY DEF StartDone
  <2>2. UNCHANGED <<vi, vpss, venc, pend, streams, viPtr>>
    BY DEF StartDone
  <2>3. lock' \in [Cam -> Thread \cup {NoThread}]
    BY DEF StartDone, Unlock
  <2> QED BY <2>1, <2>2, <2>3
<1>4. ThreadTypeOK'
  BY DEF StartDone, Return, Pc, Op
<1>5. TypeOK'
  BY <1>2, <1>3, <1>4, SameRegistry DEF StartDone
<1>6. op[t] \notin ManagerOp
  BY DEF StartDone, Locals, Starting, ManagerOp
<1> HIDE DEF IInv, TypeOK
<1> QED BY <1>1, <1>5, <1>6, LeaveStep DEF StartDone, Unlock, cmVars, objVars

LEMMA FreeVencStep ==
  ASSUME IInv, NEW t \in Thread, FreeNextVenc(t)
  PROVE  IInv'
<1> USE DEF IInv, TypeOK, InstanceTypeOK, ThreadTypeOK
<1>1. RmTypeOK'
  <2>1. (\E ch : FreeVenc(ch)) \/ UNCHANGED rmVars
    BY DEF FreeNextVenc
  <2> QED BY <2>1, RmCallsType
<1>2. PICK l \in {"free_venc", "free_vpss"} : pc' = [pc EXCEPT ![t] = l]
  <2>1. (pc' = pc /\ pc[t] = "free_venc") \/ pc' = [pc EXCEPT ![t] = "free_vpss"]
    BY DEF FreeNextVenc, Goto
  <2>2. pc = [pc EXCEPT ![t] = pc[t]]
    OBVIOUS
  <2> QED BY <2>1, <2>2
<1>3. InstanceTypeOK'
  BY DEF FreeNextVenc, ForgetChannel
<1>4. ThreadTypeOK'
  BY <1>2 DEF FreeNextVenc, Pc
<1>5. TypeOK'
  BY <1>1, <1>3, <1>4, SameRegistry DEF FreeNextVenc
<1>6. /\ UNCHANGED <<cameras, cmLock, made, cfg, lock, op, cam, ids, idx, arg, pend>>
      /\ pc[t] \in Inside
  BY DEF FreeNextVenc, cmVars, objVars, Inside, Pc
<1>7. l \in Inside /\ l \notin Starting /\ l # "init_streams" /\ l # "stream_start"
  BY DEF Inside, Pc, Starting
<1> HIDE DEF IInv, TypeOK
<1> QED BY <1>2, <1>5, <1>6, <1>7, InsideStep

LEMMA FreeGroupStep ==
  ASSUME IInv, NEW t \in Thread, FreeGroup(t)
  PROVE  IInv'
<1> USE DEF IInv, TypeOK, InstanceTypeOK, ThreadTypeOK
<1>1. RmTypeOK'
  <2>1. (\E g : FreeVpss(g)) \/ UNCHANGED rmVars
    BY DEF FreeGroup
  <2> QED BY <2>1, RmCallsType
<1>3. InstanceTypeOK'
  BY DEF FreeGroup
<1>4. ThreadTypeOK'
  BY DEF FreeGroup, Goto, Pc
<1>5. TypeOK'
  BY <1>1, <1>3, <1>4, SameRegistry DEF FreeGroup
<1>6. /\ UNCHANGED <<cameras, cmLock, made, cfg, lock, op, cam, ids, idx, arg, pend>>
      /\ pc[t] \in Inside
      /\ pc' = [pc EXCEPT ![t] = "free_vi"]
  BY DEF FreeGroup, Goto, cmVars, objVars, Inside, Pc
<1>7. "free_vi" \in Inside \ Starting
  BY DEF Inside, Pc, Starting
<1> HIDE DEF IInv, TypeOK
<1> QED BY <1>5, <1>6, <1>7, InsideStep

LEMMA FreeDeviceStep ==
  ASSUME IInv, NEW t \in Thread, FreeDevice(t)
  PROVE  IInv'
<1> USE DEF IInv, TypeOK, InstanceTypeOK, ThreadTypeOK
<1> DEFINE c == cam[t]
<1>1. pc[t] \in Inside /\ c \in Cam
  BY DEF FreeDevice, Control, Inside, Pc
<1>2. RmTypeOK'
  <2>1. (\E d : FreeVi(d)) \/ UNCHANGED rmVars
    BY DEF FreeDevice
  <2> QED BY <2>1, RmCallsType
<1>3. InstanceTypeOK'
  <2>1. running' \in [Cam -> BOOLEAN]
    BY DEF FreeDevice
  <2>2. vi' \in [Cam -> ViDevice \cup {None}] /\ lock' \in [Cam -> Thread \cup {NoThread}]
    BY DEF FreeDevice, Unlock
  <2>3. viPtr' \in [Cam -> {"null", "on", "off"}]
    BY DEF FreeDevice
  <2>4. UNCHANGED <<vpss, venc, pend, streams>>
    BY DEF FreeDevice
  <2> QED BY <2>1, <2>2, <2>3, <2>4
<1>4. ThreadTypeOK'
  BY DEF FreeDevice, Return, Goto, Pc, Op
<1>5. UNCHANGED <<cmVars, ref, crashed, pend>> /\ lock' = [lock EXCEPT ![c] = NoThread]
  BY DEF FreeDevice, Unlock
<1>6. \/ /\ op[t] \in {"start", "stop"}
         /\ Return(t)
         /\ UNCHANGED <<made, cfg>>
      \/ /\ op[t] \in ManagerOp
         /\ pc' = [pc EXCEPT ![t] = "next_camera"]
         /\ UNCHANGED <<made, cfg, op, cam, idx, arg, ids>>
      \/ /\ op[t] = "destructor"
         /\ ~Registered(c)
         /\ made' = [made EXCEPT ![c] = FALSE]
         /\ cfg' = [cfg EXCEPT ![c] = NoConfig]
         /\ Return(t)
  BY <1>1 DEF FreeDevice, Goto, ManagerOp, Control
<1>7. ObjectTypeOK'
  BY <1>5, <1>6 DEF ObjectTypeOK
<1>8. TypeOK'
  BY <1>2, <1>3, <1>4, <1>5, <1>7 DEF ManagerTypeOK, cmVars
<1>9. {"start", "stop", "destructor"} \cap ManagerOp = {}
  BY DEF ManagerOp
<1> HIDE DEF IInv, TypeOK, c
<1>10. \/ Return(t) /\ op[t] \notin ManagerOp
       \/ /\ pc' = [pc EXCEPT ![t] = "next_camera"]
          /\ op[t] \in ManagerOp
          /\ UNCHANGED <<op, cam, idx, arg, ids>>
  BY <1>6, <1>9
<1>11. \/ UNCHANGED <<made, cfg>>
       \/ /\ ~Registered(c)
          /\ made' = [made EXCEPT ![c] = FALSE]
          /\ cfg' = [cfg EXCEPT ![c] = NoConfig]
  BY <1>6
<1> QED BY <1>1, <1>5, <1>8, <1>10, <1>11, LeaveStep DEF c, cmVars

LEMMA CreateStreamStep ==
  ASSUME IInv, NEW t \in Thread, NEW c \in Cam, NEW s \in StreamCfg, CreateStream(t, c, s)
  PROVE  IInv'
<1> USE DEF IInv, TypeOK, InstanceTypeOK, ThreadTypeOK
<1>1. PICK ch \in VencChn : AllocateVenc(VencTypeOf(s), ch) /\ pend' = [pend EXCEPT ![c] = ch]
  BY DEF CreateStream, Granted
<1>2. RmTypeOK'
  BY <1>1, VencTypeIsType, RmCallsType
<1>3. InstanceTypeOK'
  BY <1>1 DEF CreateStream, Lock
<1>4. ThreadTypeOK'
  BY DEF CreateStream, Enter, Goto, Pc, Op
<1>5. TypeOK'
  BY <1>2, <1>3, <1>4, SameRegistry DEF CreateStream
<1>6. /\ UNCHANGED <<cameras, cmLock, made, cfg, idx, ids>>
      /\ lock[c] = NoThread /\ made[c] /\ lock' = [lock EXCEPT ![c] = t]
      /\ pc[t] = "idle" /\ arg' = [arg EXCEPT ![t] = s]
      /\ Enter(t, "create_stream", c, "stream_start")
  BY DEF CreateStream, Lock, cmVars, objVars, Unlocked, Callable, Idle
<1>7. "stream_start" \in Inside \ Starting /\ "create_stream" \in Op \ ManagerOp
  BY DEF Inside, Pc, Starting, Op, ManagerOp
<1>8. pend'[c] \in VencChn /\ (\A d \in Cam : d # c => pend'[d] = pend[d])
  BY <1>1
<1>9. arg'[t] \in StreamCfg /\ (\A u \in Thread : u # t => arg'[u] = arg[u])
  BY <1>6
<1> HIDE DEF IInv, TypeOK, InstanceTypeOK, ThreadTypeOK
<1> QED BY <1>5, <1>6, <1>7, <1>8, <1>9, EnterStep DEF Enter, Goto

LEMMA StopStep ==
  ASSUME IInv, NEW t \in Thread, NEW c \in Cam, Stop(t, c)
  PROVE  IInv'
<1> USE DEF IInv, TypeOK, InstanceTypeOK, ThreadTypeOK
<1>1. RmTypeOK'
  BY DEF Stop, rmVars, RmTypeOK
<1>2. InstanceTypeOK'
  BY DEF Stop, BeginStop, Lock
<1>3. ThreadTypeOK'
  BY DEF Stop, BeginStop, Enter, Goto, Pc, Op
<1>4. TypeOK'
  BY <1>1, <1>2, <1>3, SameRegistry DEF Stop
<1>5. /\ UNCHANGED <<cameras, cmLock, made, cfg, idx, arg, ids, pend>>
      /\ lock[c] = NoThread /\ made[c] /\ lock' = [lock EXCEPT ![c] = t]
      /\ pc[t] = "idle"
      /\ Enter(t, "stop", c, "free_venc")
  BY DEF Stop, BeginStop, Lock, cmVars, objVars, Unlocked, Callable, Idle
<1>6. "free_venc" \in Inside \ Starting /\ "stop" \in Op \ ManagerOp
  BY DEF Inside, Pc, Starting, Op, ManagerOp
<1> HIDE DEF IInv, TypeOK
<1> QED BY <1>4, <1>5, <1>6, EnterStep DEF Enter, Goto

LEMMA DestroyStreamStep ==
  ASSUME IInv, NEW t \in Thread, NEW c \in Cam, NEW id, DestroyStream(t, c, id)
  PROVE  IInv'
<1> USE DEF IInv
<1>1. UNCHANGED <<rmVars, cmVars, objVars, running, vi, vpss, venc, pend, viPtr, lock,
                  thVars, crashed>>
  BY DEF DestroyStream, ReleaseStreamChannel
<1>2. streams' \in [Cam -> SUBSET Int]
  BY DEF DestroyStream, TypeOK, InstanceTypeOK
<1>3. TypeOK'
  BY <1>1, <1>2 DEF TypeOK, ManagerTypeOK, ObjectTypeOK, InstanceTypeOK, ThreadTypeOK,
                    RmTypeOK, rmVars, cmVars, objVars, thVars
<1>4. Control' /\ Objects' /\ Locals'
  BY <1>1 DEF Control, Objects, Locals, Registered, cmVars, objVars, thVars
<1> QED BY <1>3, <1>4

LEMMA ManagerStopStep ==
  ASSUME IInv, NEW t \in Thread, ManagerStop(t)
  PROVE  IInv'
<1> USE DEF IInv, TypeOK, InstanceTypeOK, ThreadTypeOK
<1>1. PICK id \in ids[t] :
        /\ ids' = [ids EXCEPT ![t] = @ \ {id}]
        /\ lock[cameras[id]] = NoThread
        /\ \/ BeginStop(t, cameras[id], op[t])
           \/ /\ cam' = [cam EXCEPT ![t] = cameras[id]]
              /\ UNCHANGED <<lock, streams, pc, op>>
  BY DEF ManagerStop, Unlocked
<1> DEFINE c == cameras[id]
<1>2. pc[t] = "next_camera" /\ op[t] \in ManagerOp /\ cmLock = t /\ ids[t] \subseteq DOMAIN cameras
  BY DEF ManagerStop, Control
<1>3. c \in Cam /\ made[c]
  BY <1>1, <1>2 DEF ManagerTypeOK, Objects
<1>4. UNCHANGED <<rmVars, cmVars, objVars, running, vi, vpss, venc, pend, viPtr, idx, arg, crashed>>
  BY DEF ManagerStop
<1>5. RmTypeOK'
  BY <1>4 DEF rmVars, RmTypeOK
<1> HIDE DEF c
<1>6. CASE BeginStop(t, c, op[t])
  <2>1. InstanceTypeOK'
    BY <1>3, <1>4, <1>6 DEF BeginStop, Lock
  <2>2. ThreadTypeOK'
    BY <1>1, <1>3, <1>4, <1>6 DEF BeginStop, Enter, Goto, Pc, Op
  <2>3. TypeOK'
    BY <1>4, <1>5, <2>1, <2>2, SameRegistry
  <2>4. /\ lock[c] = NoThread /\ lock' = [lock EXCEPT ![c] = t]
        /\ Enter(t, op[t], c, "free_venc")
    BY <1>1, <1>6 DEF BeginStop, Lock, c
  <2>5. "free_venc" \in Inside \ Starting /\ op[t] \in Op /\ op[t] # "destructor"
    BY <1>2 DEF Inside, Pc, Starting, Op, ManagerOp
  <2>6. ids'[t] \subseteq DOMAIN cameras' /\ (\A u \in Thread : u # t => ids'[u] = ids[u])
    BY <1>1, <1>2, <1>4 DEF cmVars
  <2>7. UNCHANGED <<cameras, cmLock, made, cfg, idx, arg, pend>>
    BY <1>4 DEF cmVars, objVars
  <2>8. DOMAIN cameras' = DOMAIN cameras
    BY <2>7
  <2> HIDE DEF IInv, TypeOK, InstanceTypeOK, ThreadTypeOK
  <2> QED BY <1>2, <1>3, <2>3, <2>4, <2>5, <2>6, <2>7, <2>8, EnterStep DEF Enter, Goto
<1>7. CASE cam' = [cam EXCEPT ![t] = c] /\ UNCHANGED <<lock, streams, pc, op>>
  <2>1. InstanceTypeOK'
    BY <1>4, <1>7
  <2>2. ThreadTypeOK'
    BY <1>1, <1>3, <1>4, <1>7
  <2>3. TypeOK'
    BY <1>4, <1>5, <2>1, <2>2, SameRegistry
  <2>4. pc'[t] = "next_camera" /\ t \notin {u \in Thread : pc'[u] \in Inside}
    BY <1>2, <1>7 DEF Inside
  <2>5. Control'
    BY <1>1, <1>2, <1>4, <1>7, <2>4 DEF Control, Registered, cmVars
  <2>6. Objects'
    BY <1>4, <1>7 DEF Objects, cmVars, objVars
  <2>7. Locals'
    BY <1>2, <1>4, <1>7 DEF Locals, Starting
  <2> QED BY <2>3, <2>5, <2>6, <2>7
<1> QED BY <1>1, <1>6, <1>7 DEF c

LEMMA DestructorStep ==
  ASSUME IInv, NEW t \in Thread, NEW c \in Cam, Destructor(t, c)
  PROVE  IInv'
<1> USE DEF IInv, TypeOK, InstanceTypeOK, ThreadTypeOK
<1>1. /\ pc[t] = "idle" /\ made[c] /\ ~Registered(c) /\ lock[c] = NoThread
      /\ \A u \in Thread : cam[u] # c
  BY DEF Destructor, Idle, Unreferenced, Unlocked
<1>2. UNCHANGED <<rmVars, cmVars, running, vi, vpss, pend, idx, arg, ids, crashed>>
  BY DEF Destructor
<1>3. RmTypeOK'
  BY <1>2 DEF rmVars, RmTypeOK
<1>4. CASE BeginStop(t, c, "destructor") /\ UNCHANGED <<objVars, viPtr, venc>>
  <2>1. InstanceTypeOK'
    BY <1>2, <1>4 DEF BeginStop, Lock
  <2>2. ThreadTypeOK'
    BY <1>2, <1>4 DEF BeginStop, Enter, Goto, Pc, Op
  <2>3. TypeOK'
    BY <1>2, <1>3, <1>4, <2>1, <2>2, SameRegistry
  <2>4. lock' = [lock EXCEPT ![c] = t] /\ Enter(t, "destructor", c, "free_venc")
    BY <1>4 DEF BeginStop, Lock
  <2>5. "free_venc" \in Inside \ Starting /\ "destructor" \in Op \ ManagerOp
    BY DEF Inside, Pc, Starting, Op, ManagerOp
  <2>6. UNCHANGED <<cameras, cmLock, made, cfg, idx, arg, ids, pend>>
    BY <1>2, <1>4 DEF cmVars, objVars
  <2> HIDE DEF IInv, TypeOK
  <2> QED BY <1>1, <2>3, <2>4, <2>5, <2>6, EnterStep DEF Enter, Goto
<1>5. CASE /\ made' = [made EXCEPT ![c] = FALSE]
           /\ cfg' = [cfg EXCEPT ![c] = NoConfig]
           /\ viPtr' = [viPtr EXCEPT ![c] = "null"]
           /\ venc' = [venc EXCEPT ![c] = {}]
           /\ UNCHANGED <<ref, lock, streams, pc, op, cam>>
  <2>1. InstanceTypeOK' /\ ThreadTypeOK' /\ ObjectTypeOK'
    BY <1>2, <1>5 DEF ObjectTypeOK
  <2>2. TypeOK'
    BY <1>2, <1>3, <2>1 DEF ManagerTypeOK, cmVars
  <2>3. Control' /\ Locals'
    BY <1>2, <1>5 DEF Control, Locals, Registered, cmVars
  <2>4. Objects'
    BY <1>1, <1>2, <1>5 DEF Objects, ObjectTypeOK, Registered, cmVars
  <2> QED BY <2>2, <2>3, <2>4
<1> QED BY <1>4, <1>5 DEF Destructor

-----------------------------------------------------------------------------
LEMMA InductiveStep == IInv /\ [Next]_vars => IInv'
<1> SUFFICES ASSUME IInv, [Next]_vars PROVE IInv'
  OBVIOUS
<1>1. CASE InitResources \/ InitManager \/ ReleaseResources \/ UNCHANGED vars
  BY <1>1, ManagersStep
<1>2. CASE \E c \in Cam : DropRef(c)
  BY <1>2, RefStep
<1>3. ASSUME NEW t \in Thread, InCall(t) PROVE IInv'
  BY <1>3, AllocateVpssStep, InitViStep, NextStreamStep, StreamStartStep, NullViStep,
     StartDoneStep, FreeVencStep, FreeGroupStep, FreeDeviceStep, ManagerStep DEF InCall
<1>4. ASSUME NEW t \in Thread, Call(t) PROVE IInv'
  BY <1>4, CreateStep, RefStep, AllocateViStep, StopStep, CreateStreamStep,
     DestroyStreamStep, DestructorStep, ManagerStep DEF Call
<1> QED BY <1>1, <1>2, <1>3, <1>4, ManagerStopStep DEF Next

\* In every reachable state of any number of cameras and threads the tables,
\* the registry and the insides of the cameras are well typed; in particular
\* the channel create_stream_internal stores is a channel.
THEOREM TypeCorrect == Spec => []TypeOK
<1>1. IInv => TypeOK
  BY DEF IInv
<1> QED BY <1>1, InitIInv, InductiveStep, PTL DEF Spec

\* A camera is worked on by one thread at a time: whichever call a thread is
\* in, be it its own start or stop, the registry's destroy or the destructor,
\* between its first and its last step it holds the camera's mutex.
THEOREM CameraMutex == Spec => []OneThreadPerCamera
<1>1. IInv => OneThreadPerCamera
  BY DEF IInv, TypeOK, ThreadTypeOK, Control, Inside, OneThreadPerCamera
<1> QED BY <1>1, InitIInv, InductiveStep, PTL DEF Spec

-----------------------------------------------------------------------------
(* A registry that is not initialized.                                      *)

LEMMA RegistryStep == ReleasedRegistryIsEmpty /\ [Next]_vars => ReleasedRegistryIsEmpty'
<1> SUFFICES ASSUME ReleasedRegistryIsEmpty, [Next]_vars PROVE ReleasedRegistryIsEmpty'
  OBVIOUS
<1> USE DEF ReleasedRegistryIsEmpty
<1>1. CASE UNCHANGED <<cmInit, cameras>>
  BY <1>1
<1>2. CASE InitManager
  BY <1>2 DEF InitManager
<1>3. CASE InitResources \/ ReleaseResources \/ (\E c \in Cam : DropRef(c)) \/ UNCHANGED vars
  BY <1>1, <1>3 DEF InitResources, ReleaseResources, DropRef, vars, cmVars
<1>4. ASSUME NEW t \in Thread, InCall(t) PROVE ReleasedRegistryIsEmpty'
  <2>1. CASE ManagerErase(t)
    <3>1. cmInit' = (cmInit /\ op[t] # "release") /\ cameras' = RemainingCameras(t)
      BY <2>1 DEF ManagerErase
    <3>2. CASE op[t] = "destroy"
      <4>1. DOMAIN cameras' \subseteq DOMAIN cameras
        BY <3>1, <3>2 DEF RemainingCameras
      <4>2. cmInit => cmInit'
        BY <3>1, <3>2
      <4> QED BY <4>1, <4>2
    <3>3. CASE op[t] # "destroy"
      <4>1. DOMAIN cameras' = {}
        BY <3>1, <3>3 DEF RemainingCameras
      <4> QED BY <4>1
    <3> QED BY <3>2, <3>3
  <2>2. CASE ~ManagerErase(t)
    <3>1. UNCHANGED cmVars
      BY <1>4, <2>2 DEF InCall, StartAllocateVpss, StartInitVi, StartNextStream, StreamStart,
         StreamStartNullVi, StartDone, FreeNextVenc, FreeGroup, FreeDevice
    <3> QED BY <1>1, <3>1 DEF cmVars
  <2> QED BY <2>1, <2>2
<1>5. ASSUME NEW t \in Thread, Call(t) PROVE ReleasedRegistryIsEmpty'
  <2>1. ASSUME NEW c \in Cam, NEW cf \in Config, CreateCamera(t, c, cf)
        PROVE  ReleasedRegistryIsEmpty'
    BY <2>1 DEF CreateCamera
  <2>2. ASSUME NEW c \in Cam,
               \/ GetCamera(t, c) \/ StartAllocateVi(t, c) \/ Stop(t, c) \/ Destructor(t, c)
               \/ \E s \in StreamCfg : CreateStream(t, c, s)
               \/ \E id \in streams[c] : DestroyStream(t, c, id)
        PROVE  ReleasedRegistryIsEmpty'
    <3>1. UNCHANGED cmVars
      BY <2>2 DEF GetCamera, StartAllocateVi, Stop, Destructor, CreateStream, DestroyStream
    <3> QED BY <1>1, <3>1 DEF cmVars
  <2>3. CASE (\E id \in DOMAIN cameras : Destroy(t, id)) \/ DestroyAll(t) \/ ReleaseManager(t)
    BY <1>1, <2>3 DEF Destroy, DestroyAll, ReleaseManager, EnterManager
  <2> QED BY <1>5, <2>1, <2>2, <2>3 DEF Call
<1>6. ASSUME NEW t \in Thread, ManagerStop(t) PROVE ReleasedRegistryIsEmpty'
  BY <1>1, <1>6 DEF ManagerStop, cmVars
<1> QED BY <1>2, <1>3, <1>4, <1>5, <1>6 DEF Next

\* A registry that was not initialized, or was released while other threads
\* wanted it, has no camera: init starts from nothing, and nothing is created
\* in between.
THEOREM ReleasedIsEmpty == Spec => []ReleasedRegistryIsEmpty
<1>1. Init => ReleasedRegistryIsEmpty
  BY DEF Init, ReleasedRegistryIsEmpty
<1> QED BY <1>1, RegistryStep, PTL DEF Spec
=============================================================================
