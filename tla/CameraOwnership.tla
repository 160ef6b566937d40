-------------------------- MODULE CameraOwnership --------------------------
(***************************************************************************)
(* No VI device, VPSS group or VENC channel is ever held by two cameras, as *)
(* long as the tables are not released under live cameras.                 *)
(*                                                                         *)
(* ExclusiveOwnership is not inductive: a grant is exclusive because the    *)
(* tables mark what every camera holds (HeldIsAllocated), a free takes      *)
(* nothing from others because the holders are different, and the channel   *)
(* that create_stream_internal rolls back must not be one of the camera's   *)
(* own.  The tables are emptied by init only, and then nobody holds         *)
(* anything (NothingHeldUninitialized).                                     *)
(***************************************************************************)
EXTENDS CameraProofs, CameraLease

ViOwned ==
  /\ \A c \in Cam : vi[c] # None => vi[c] \in viAlloc
  /\ \A c, d \in Cam : c # d => vi[c] # vi[d] \/ vi[c] = None

VpssOwned ==
  /\ \A c \in Cam : vpss[c] # None => vpss[c] \in vpssAlloc
  /\ \A c, d \in Cam : c # d => vpss[c] # vpss[d] \/ vpss[c] = None

VencOwned ==
  /\ \A c \in Cam : Channels(c) \subseteq TakenVenc /\ pend[c] \notin venc[c]
  /\ \A c, d \in Cam : c # d => Channels(c) \cap Channels(d) = {}

Owned == ViOwned /\ VpssOwned /\ VencOwned /\ NothingHeldUninitialized

-----------------------------------------------------------------------------
(* What one step may do to each kind of resource.                           *)

ViStep ==
  \/ UNCHANGED <<viAlloc, vi>>
  \/ \E c \in Cam, d \in ViDevice : AllocateVi(d) /\ vi' = [vi EXCEPT ![c] = d]
  \/ \E c \in Cam : FreeVi(vi[c]) /\ vi' = [vi EXCEPT ![c] = None]

VpssStep ==
  \/ UNCHANGED <<vpssAlloc, vpss>>
  \/ \E c \in Cam, g \in VpssGroup : AllocateVpss(g) /\ vpss' = [vpss EXCEPT ![c] = g]
  \/ \E c \in Cam : FreeVpss(vpss[c]) /\ vpss' = [vpss EXCEPT ![c] = None]

VencStep ==
  \/ TakenVenc' = TakenVenc /\ UNCHANGED <<venc, pend>>
  \/ \E c \in Cam, ch \in VencChn, type \in VencType :
       AllocateVenc(type, ch) /\ pend' = [pend EXCEPT ![c] = ch] /\ UNCHANGED venc
  \/ \E c \in Cam :
       /\ pend[c] \in VencChn
       /\ pend' = [pend EXCEPT ![c] = None]
       /\ \/ venc' = [venc EXCEPT ![c] = @ \cup {pend[c]}] /\ TakenVenc' = TakenVenc
          \/ FreeVenc(pend[c]) /\ UNCHANGED venc
  \/ \E c \in Cam : \E ch \in venc[c] :
       FreeVenc(ch) /\ venc' = [venc EXCEPT ![c] = @ \ {ch}] /\ UNCHANGED pend
  \/ \E c \in Cam :
       TakenVenc' = TakenVenc /\ venc' = [venc EXCEPT ![c] = {}] /\ UNCHANGED pend

LEMMA ViKept == ASSUME TypeOK, ViOwned, ViStep PROVE ViOwned'
<1> USE NoneIsNoId DEF TypeOK, RmTypeOK, InstanceTypeOK, ViOwned
<1>1. CASE UNCHANGED <<viAlloc, vi>>
  BY <1>1
<1>2. ASSUME NEW c \in Cam, NEW d \in ViDevice, AllocateVi(d), vi' = [vi EXCEPT ![c] = d]
      PROVE  ViOwned'
  <2>1. d \notin viAlloc /\ viAlloc' = viAlloc \cup {d}
    BY <1>2 DEF AllocateVi, IsFirst
  <2> QED BY <1>2, <2>1
<1>3. ASSUME NEW c \in Cam, FreeVi(vi[c]), vi' = [vi EXCEPT ![c] = None]
      PROVE  ViOwned'
  <2>1. viAlloc \ {vi[c]} \subseteq viAlloc'
    BY <1>3 DEF FreeVi
  <2> QED BY <1>3, <2>1
<1> QED BY <1>1, <1>2, <1>3 DEF ViStep

LEMMA VpssKept == ASSUME TypeOK, VpssOwned, VpssStep PROVE VpssOwned'
<1> USE NoneIsNoId DEF TypeOK, RmTypeOK, InstanceTypeOK, VpssOwned
<1>1. CASE UNCHANGED <<vpssAlloc, vpss>>
  BY <1>1
<1>2. ASSUME NEW c \in Cam, NEW g \in VpssGroup, AllocateVpss(g), vpss' = [vpss EXCEPT ![c] = g]
      PROVE  VpssOwned'
  <2>1. g \notin vpssAlloc /\ vpssAlloc' = vpssAlloc \cup {g}
    BY <1>2 DEF AllocateVpss, IsFirst
  <2> QED BY <1>2, <2>1
<1>3. ASSUME NEW c \in Cam, FreeVpss(vpss[c]), vpss' = [vpss EXCEPT ![c] = None]
      PROVE  VpssOwned'
  <2>1. vpssAlloc \ {vpss[c]} \subseteq vpssAlloc'
    BY <1>3 DEF FreeVpss
  <2> QED BY <1>3, <2>1
<1> QED BY <1>1, <1>2, <1>3 DEF VpssStep

\* A free takes at most its own channel out of the taken ones.
LEMMA FreeVencTaken ==
  ASSUME RmTypeOK, NEW ch, FreeVenc(ch)
  PROVE  TakenVenc \ {ch} \subseteq TakenVenc' /\ TakenVenc' \subseteq TakenVenc
  BY DEF FreeVenc, TakenVenc, RmTypeOK

LEMMA VencKept == ASSUME TypeOK, VencOwned, VencStep PROVE VencOwned'
<1> USE NoneIsNoId DEF TypeOK, InstanceTypeOK, VencOwned, Channels
<1>1. CASE TakenVenc' = TakenVenc /\ UNCHANGED <<venc, pend>>
  BY <1>1
<1>2. ASSUME NEW c \in Cam, NEW ch \in VencChn, NEW type \in VencType,
             AllocateVenc(type, ch), pend' = [pend EXCEPT ![c] = ch], UNCHANGED venc
      PROVE  VencOwned'
  <2>1. ch \notin TakenVenc
    BY <1>2 DEF AllocateVenc, VencGrant, IsFirst
  <2>2. TakenVenc' = TakenVenc \cup {ch}
    BY <1>2 DEF AllocateVenc, TakenVenc, RmTypeOK, VencType, H264, H265, NoType
  <2>3. \A d \in Cam : Channels(d)' = IF d = c THEN venc[c] \cup {ch} ELSE Channels(d)
    BY <1>2
  <2>4. \A d \in Cam : venc[d] \subseteq Channels(d) /\ ch \notin Channels(d)
    BY <2>1
  <2>5. \A d \in Cam : Channels(d)' \subseteq TakenVenc' /\ pend'[d] \notin venc'[d]
    BY <1>2, <2>2, <2>3, <2>4
  <2>6. \A d, e \in Cam : d # e => Channels(d)' \cap Channels(e)' = {}
    BY <2>3, <2>4
  <2> QED BY <2>5, <2>6
<1>3. ASSUME NEW c \in Cam, pend[c] \in VencChn, pend' = [pend EXCEPT ![c] = None],
             venc' = [venc EXCEPT ![c] = @ \cup {pend[c]}], TakenVenc' = TakenVenc
      PROVE  VencOwned'
  <2>1. \A d \in Cam : Channels(d)' = Channels(d)
    BY <1>3
  <2>2. \A d \in Cam : pend'[d] \notin venc'[d]
    BY <1>3
  <2> QED BY <1>3, <2>1, <2>2
<1>4. ASSUME NEW c \in Cam, pend[c] \in VencChn, pend' = [pend EXCEPT ![c] = None],
             FreeVenc(pend[c]), UNCHANGED venc
      PROVE  VencOwned'
  <2>1. \A d \in Cam : Channels(d)' = IF d = c THEN Channels(c) \ {pend[c]} ELSE Channels(d)
    BY <1>4
  <2>2. \A d \in Cam : pend'[d] \notin venc'[d]
    BY <1>4
  <2>3. \A d \in Cam : d # c => pend[c] \notin Channels(d)
    BY <1>4
  <2> QED BY <1>4, <2>1, <2>2, <2>3, FreeVencTaken
<1>5. ASSUME NEW c \in Cam, NEW ch \in venc[c], FreeVenc(ch),
             venc' = [venc EXCEPT ![c] = @ \ {ch}], UNCHANGED pend
      PROVE  VencOwned'
  <2>1. \A d \in Cam : Channels(d)' = IF d = c THEN Channels(c) \ {ch} ELSE Channels(d)
    BY <1>5
  <2>2. \A d \in Cam : pend'[d] \notin venc'[d]
    BY <1>5
  <2>3. \A d \in Cam : d # c => ch \notin Channels(d)
    BY <1>5
  <2> QED BY <1>5, <2>1, <2>2, <2>3, FreeVencTaken
<1>6. ASSUME NEW c \in Cam, TakenVenc' = TakenVenc, venc' = [venc EXCEPT ![c] = {}],
             UNCHANGED pend
      PROVE  VencOwned'
  <2>1. \A d \in Cam : Channels(d)' \subseteq Channels(d) /\ pend'[d] \notin venc'[d]
    BY <1>6
  <2> QED BY <1>6, <2>1
<1> QED BY <1>1, <1>2, <1>3, <1>4, <1>5, <1>6 DEF VencStep

-----------------------------------------------------------------------------
(* Every action is such a step, for every kind of resource.                 *)

RmCall ==
  \/ UNCHANGED rmVars
  \/ InitRm
  \/ \E d \in ViDevice : AllocateVi(d)
  \/ \E g \in VpssGroup : AllocateVpss(g)
  \/ \E type \in VencType, ch \in VencChn : AllocateVenc(type, ch)
  \/ \E d : FreeVi(d)
  \/ \E g : FreeVpss(g)
  \/ \E ch : FreeVenc(ch)

LEMMA UninitializedKept ==
  ASSUME RmTypeOK, NothingHeldUninitialized, RmCall
  PROVE  NothingHeldUninitialized'
<1> USE DEF NothingHeldUninitialized
<1>1. CASE InitRm \/ UNCHANGED rmVars
  BY <1>1 DEF InitRm, rmVars, TakenVenc
<1>2. CASE \/ \E d \in ViDevice : AllocateVi(d)
           \/ \E g \in VpssGroup : AllocateVpss(g)
           \/ \E type \in VencType, ch \in VencChn : AllocateVenc(type, ch)
  BY <1>2 DEF AllocateVi, AllocateVpss, AllocateVenc, VencGrant
<1>3. CASE (\E d : FreeVi(d)) \/ (\E g : FreeVpss(g))
  BY <1>3 DEF FreeVi, FreeVpss, TakenVenc
<1>4. ASSUME NEW ch, FreeVenc(ch) PROVE NothingHeldUninitialized'
  BY <1>4, FreeVencTaken DEF FreeVenc
<1> QED BY <1>1, <1>2, <1>3, <1>4 DEF RmCall

\* The three kinds of resource at once, and the tables.
OwnStep == ViStep /\ VpssStep /\ VencStep /\ RmCall

LEMMA OwnedKept == ASSUME TypeOK, Owned, OwnStep PROVE Owned'
  BY ViKept, VpssKept, VencKept, UninitializedKept DEF Owned, OwnStep, TypeOK

LEMMA QuietStep ==
  ASSUME UNCHANGED <<rmVars, vi, vpss, venc, pend>>
  PROVE  OwnStep
  BY DEF OwnStep, ViStep, VpssStep, VencStep, RmCall, TakenVenc, rmVars

LEMMA OwnInit == ASSUME NothingHeldUninitialized, InitResources PROVE OwnStep
<1>1. UNCHANGED <<viAlloc, vpssAlloc, vi, vpss, venc, pend>> /\ InitRm
  BY DEF InitResources, InitRm, NothingHeldUninitialized, camVars
<1>2. TakenVenc' = {} /\ TakenVenc = {}
  BY <1>1 DEF InitRm, TakenVenc, EmptyVenc, NothingHeldUninitialized
<1> QED BY <1>1, <1>2 DEF OwnStep, ViStep, VpssStep, VencStep, RmCall

LEMMA OwnAllocateVi ==
  ASSUME NEW t \in Thread, NEW c \in Cam, StartAllocateVi(t, c) PROVE OwnStep
<1>1. UNCHANGED <<vpss, venc, pend>>
  BY DEF StartAllocateVi
<1>2. CASE UNCHANGED <<rmVars, vi>>
  BY <1>1, <1>2, QuietStep
<1>3. ASSUME NEW d \in ViDevice, AllocateVi(d), vi' = [vi EXCEPT ![c] = d]
      PROVE  OwnStep
  <2>1. UNCHANGED <<vpssAlloc, vencAlloc>>
    BY <1>3 DEF AllocateVi
  <2> QED BY <1>1, <1>3, <2>1 DEF OwnStep, ViStep, VpssStep, VencStep, RmCall, TakenVenc
<1> QED BY <1>2, <1>3 DEF StartAllocateVi

LEMMA OwnAllocateVpss ==
  ASSUME IInv, NEW t \in Thread, StartAllocateVpss(t) PROVE OwnStep
<1> DEFINE c == cam[t]
<1>1. UNCHANGED <<venc, pend>>
  BY DEF StartAllocateVpss
<1>2. c \in Cam
  BY DEF StartAllocateVpss, IInv, Control, Inside, Pc
<1>3. ASSUME NEW g \in VpssGroup, AllocateVpss(g), vpss' = [vpss EXCEPT ![c] = g], UNCHANGED vi
      PROVE  OwnStep
  <2>1. UNCHANGED <<viAlloc, vencAlloc>>
    BY <1>3 DEF AllocateVpss
  <2> QED BY <1>1, <1>2, <1>3, <2>1 DEF OwnStep, ViStep, VpssStep, VencStep, RmCall, TakenVenc
<1>4. ASSUME FreeVi(vi[c]), vi' = [vi EXCEPT ![c] = None], UNCHANGED vpss
      PROVE  OwnStep
  <2>1. UNCHANGED <<vpssAlloc, vencAlloc>>
    BY <1>4 DEF FreeVi
  <2> QED BY <1>1, <1>2, <1>4, <2>1 DEF OwnStep, ViStep, VpssStep, VencStep, RmCall, TakenVenc
<1> QED BY <1>3, <1>4 DEF StartAllocateVpss, RollbackVi

LEMMA OwnGrantVenc ==
  ASSUME NEW c \in Cam, NEW ch \in VencChn, NEW s, AllocateVenc(VencTypeOf(s), ch),
         pend' = [pend EXCEPT ![c] = ch], UNCHANGED <<vi, vpss, venc>>
  PROVE  OwnStep
<1>1. UNCHANGED <<viAlloc, vpssAlloc>>
  BY DEF AllocateVenc
<1> QED BY <1>1, VencTypeIsType DEF OwnStep, ViStep, VpssStep, VencStep, RmCall

LEMMA OwnNextStream ==
  ASSUME IInv, NEW t \in Thread, StartNextStream(t) PROVE OwnStep
<1>1. cam[t] \in Cam /\ UNCHANGED <<vi, vpss, venc>>
  BY DEF StartNextStream, IInv, Control, Inside, Pc
<1>2. \/ UNCHANGED <<rmVars, pend>>
      \/ \E ch \in VencChn :
           /\ AllocateVenc(VencTypeOf(cfg[cam[t]].streams[idx[t]]), ch)
           /\ pend' = [pend EXCEPT ![cam[t]] = ch]
  BY DEF StartNextStream, Granted
<1> QED BY <1>1, <1>2, QuietStep, OwnGrantVenc

LEMMA OwnCreateStream ==
  ASSUME NEW t \in Thread, NEW c \in Cam, NEW s \in StreamCfg, CreateStream(t, c, s) PROVE OwnStep
<1>1. UNCHANGED <<vi, vpss, venc>>
  BY DEF CreateStream
<1>2. \E ch \in VencChn : AllocateVenc(VencTypeOf(s), ch) /\ pend' = [pend EXCEPT ![c] = ch]
  BY DEF CreateStream, Granted
<1> QED BY <1>1, <1>2, OwnGrantVenc

LEMMA OwnStreamStart ==
  ASSUME IInv, NEW t \in Thread, StreamStart(t) PROVE OwnStep
<1> DEFINE c == cam[t]
<1>1. c \in Cam /\ pend[c] \in VencChn
  BY DEF StreamStart, IInv, Control, Locals, Inside, Pc
<1>2. UNCHANGED <<vi, vpss>> /\ pend' = [pend EXCEPT ![c] = None]
  BY DEF StreamStart
<1>3. \/ venc' = [venc EXCEPT ![c] = @ \cup {pend[c]}] /\ UNCHANGED rmVars
      \/ FreeVenc(pend[c]) /\ UNCHANGED venc
  BY DEF StreamStart
<1>4. RmCall
  BY <1>3 DEF RmCall
<1>5. UNCHANGED <<viAlloc, vpssAlloc>>
  BY <1>3 DEF FreeVenc, rmVars
<1>6. UNCHANGED rmVars => TakenVenc' = TakenVenc
  BY DEF TakenVenc, rmVars
<1>7. VencStep
  BY <1>1, <1>2, <1>3, <1>6 DEF VencStep
<1> QED BY <1>2, <1>4, <1>5, <1>7 DEF OwnStep, ViStep, VpssStep

LEMMA OwnFreeVenc ==
  ASSUME IInv, NEW t \in Thread, FreeNextVenc(t) PROVE OwnStep
<1> DEFINE c == cam[t]
<1>1. c \in Cam /\ UNCHANGED <<vi, vpss, pend>>
  BY DEF FreeNextVenc, IInv, Control, Inside, Pc
<1>2. CASE UNCHANGED <<rmVars, venc>>
  BY <1>1, <1>2, QuietStep
<1>3. ASSUME NEW ch \in venc[c], FreeVenc(ch), venc' = [venc EXCEPT ![c] = @ \ {ch}]
      PROVE  OwnStep
  <2>1. UNCHANGED <<viAlloc, vpssAlloc>>
    BY <1>3 DEF FreeVenc
  <2> QED BY <1>1, <1>3, <2>1 DEF OwnStep, ViStep, VpssStep, VencStep, RmCall
<1> QED BY <1>2, <1>3 DEF FreeNextVenc, ForgetChannel

LEMMA OwnFreeGroup ==
  ASSUME IInv, NEW t \in Thread, FreeGroup(t) PROVE OwnStep
<1> DEFINE c == cam[t]
<1>1. c \in Cam /\ UNCHANGED <<vi, venc, pend>> /\ vpss' = [vpss EXCEPT ![c] = None]
  BY DEF FreeGroup, IInv, Control, Inside, Pc
<1>2. CASE FreeVpss(vpss[c])
  <2>1. UNCHANGED <<viAlloc, vencAlloc>>
    BY <1>2 DEF FreeVpss
  <2> QED BY <1>1, <1>2, <2>1 DEF OwnStep, ViStep, VpssStep, VencStep, RmCall, TakenVenc
<1>3. CASE UNCHANGED rmVars /\ ~HasGroup(c)
  <2>1. vpss[c] = None
    BY <1>1, <1>3, LimitsAssumption DEF IInv, TypeOK, InstanceTypeOK, VpssGroup, HasGroup, None
  <2>2. UNCHANGED vpss
    BY <1>1, <2>1 DEF IInv, TypeOK, InstanceTypeOK
  <2> QED BY <1>1, <1>3, <2>2, QuietStep
<1> QED BY <1>2, <1>3 DEF FreeGroup

LEMMA OwnFreeDevice ==
  ASSUME IInv, NEW t \in Thread, FreeDevice(t) PROVE OwnStep
<1> DEFINE c == cam[t]
<1>1. c \in Cam /\ UNCHANGED <<vpss, venc, pend>> /\ vi' = [vi EXCEPT ![c] = None]
  BY DEF FreeDevice, IInv, Control, Inside, Pc
<1>2. CASE FreeVi(vi[c])
  <2>1. UNCHANGED <<vpssAlloc, vencAlloc>>
    BY <1>2 DEF FreeVi
  <2> QED BY <1>1, <1>2, <2>1 DEF OwnStep, ViStep, VpssStep, VencStep, RmCall, TakenVenc
<1>3. CASE UNCHANGED rmVars /\ ~(vi[c] >= 0)
  <2>1. vi[c] = None
    BY <1>1, <1>3, LimitsAssumption DEF IInv, TypeOK, InstanceTypeOK, ViDevice, None
  <2>2. UNCHANGED vi
    BY <1>1, <2>1 DEF IInv, TypeOK, InstanceTypeOK
  <2> QED BY <1>1, <1>3, <2>2, QuietStep
<1> QED BY <1>2, <1>3 DEF FreeDevice

LEMMA OwnDestructor ==
  ASSUME NEW t \in Thread, NEW c \in Cam, Destructor(t, c) PROVE OwnStep
<1>1. UNCHANGED <<rmVars, vi, vpss, pend>> /\ (UNCHANGED venc \/ venc' = [venc EXCEPT ![c] = {}])
  BY DEF Destructor
<1> QED BY <1>1 DEF OwnStep, ViStep, VpssStep, VencStep, RmCall, TakenVenc, rmVars

-----------------------------------------------------------------------------
LEMMA EveryStepOwns ==
  ASSUME IInv, NothingHeldUninitialized, [Next]_vars, ~ReleaseResources
  PROVE  OwnStep
<1>1. CASE InitResources
  BY <1>1, OwnInit
<1>2. CASE InitManager \/ UNCHANGED vars \/ \E c \in Cam : DropRef(c)
  BY <1>2, QuietStep DEF InitManager, DropRef, vars, camVars
<1>4. ASSUME NEW t \in Thread, InCall(t) PROVE OwnStep
  <2>1. CASE StartInitVi(t) \/ StreamStartNullVi(t) \/ StartDone(t) \/ ManagerErase(t)
    BY <2>1, QuietStep DEF StartInitVi, StreamStartNullVi, StartDone, ManagerErase, camVars
  <2> QED BY <1>4, <2>1, OwnAllocateVpss, OwnNextStream, OwnStreamStart, OwnFreeVenc,
             OwnFreeGroup, OwnFreeDevice DEF InCall
<1>5. ASSUME NEW t \in Thread, ManagerStop(t) PROVE OwnStep
  BY <1>5, QuietStep DEF ManagerStop
<1>6. ASSUME NEW t \in Thread, Call(t) PROVE OwnStep
  <2>1. ASSUME NEW c \in Cam,
               \/ \E cf \in Config : CreateCamera(t, c, cf)
               \/ GetCamera(t, c)
               \/ Stop(t, c)
               \/ \E id \in streams[c] : DestroyStream(t, c, id)
        PROVE  OwnStep
    BY <2>1, QuietStep DEF CreateCamera, GetCamera, Stop, DestroyStream, ReleaseStreamChannel, camVars
  <2>2. CASE (\E id \in DOMAIN cameras : Destroy(t, id)) \/ DestroyAll(t) \/ ReleaseManager(t)
    BY <2>2, QuietStep DEF Destroy, DestroyAll, ReleaseManager, EnterManager, camVars
  <2> QED BY <1>6, <2>1, <2>2, OwnAllocateVi, OwnCreateStream, OwnDestructor DEF Call
<1> QED BY <1>1, <1>2, <1>4, <1>5, <1>6 DEF Next

-----------------------------------------------------------------------------
(* The cameras call the tables as anybody may: what holds of the tables on  *)
(* their own holds when the cameras use them, whatever the clients call.    *)

LEMMA CallIsStep == ASSUME RmTypeOK, RmCall PROVE [NextRm]_rmVars
<1>1. CASE UNCHANGED rmVars
  BY <1>1
<1>2. CASE InitRm
  BY <1>2 DEF NextRm
<1>3. CASE (\E d \in ViDevice : AllocateVi(d)) \/ (\E g \in VpssGroup : AllocateVpss(g))
  BY <1>3 DEF NextRm
<1>4. CASE \E type \in VencType, ch \in VencChn : AllocateVenc(type, ch)
  BY <1>4 DEF NextRm
<1>5. ASSUME NEW d, FreeVi(d) PROVE [NextRm]_rmVars
  <2>1. CASE d \in ViDevice
    BY <1>5, <2>1 DEF NextRm
  <2>2. CASE d \notin ViDevice
    <3>1. viAlloc \ {d} = viAlloc
      BY <2>2 DEF RmTypeOK
    <3> QED BY <1>5, <3>1 DEF FreeVi, rmVars
  <2> QED BY <2>1, <2>2
<1>6. ASSUME NEW g, FreeVpss(g) PROVE [NextRm]_rmVars
  <2>1. CASE g \in VpssGroup
    BY <1>6, <2>1 DEF NextRm
  <2>2. CASE g \notin VpssGroup
    <3>1. vpssAlloc \ {g} = vpssAlloc
      BY <2>2 DEF RmTypeOK
    <3> QED BY <1>6, <3>1 DEF FreeVpss, rmVars
  <2> QED BY <2>1, <2>2
<1>7. ASSUME NEW ch, FreeVenc(ch) PROVE [NextRm]_rmVars
  <2>1. CASE ch \in VencChn
    BY <1>7, <2>1 DEF NextRm
  <2>2. CASE ch \notin VencChn
    <3>1. vencAlloc = [c \in VencChn |-> IF rmInit /\ c = ch THEN NoType ELSE vencAlloc[c]]
      BY <2>2 DEF RmTypeOK
    <3> QED BY <1>7, <3>1 DEF FreeVenc, rmVars
  <2> QED BY <2>1, <2>2
<1> QED BY <1>1, <1>2, <1>3, <1>4, <1>5, <1>6, <1>7 DEF RmCall

LEMMA CameraStepOfTables ==
  IInv /\ NothingHeldUninitialized /\ [Next]_vars => [NextRm]_rmVars
<1> SUFFICES ASSUME IInv, NothingHeldUninitialized, [Next]_vars PROVE [NextRm]_rmVars
  OBVIOUS
<1>1. CASE ReleaseResources
  BY <1>1 DEF ReleaseResources, NextRm
<1>2. CASE ~ReleaseResources
  BY <1>2, EveryStepOwns, CallIsStep DEF OwnStep, IInv, TypeOK
<1> QED BY <1>1, <1>2

LEMMA EmptyStepOfTables ==
  IInv /\ NothingHeldUninitialized /\ [Next]_vars => NothingHeldUninitialized'
  BY CameraStepOfTables, EmptyStep DEF IInv, TypeOK

\* However many cameras and threads start, stop and release, what happens to
\* the tables of resource_manager is a sequence of its own calls: no camera
\* changes them in any other way.
THEOREM CamerasUseTables == Spec => SpecRm
<1>1. Init => RmInitState /\ NothingHeldUninitialized
  BY DEF Init, RmInitState, NothingHeldUninitialized, EmptyVenc, TakenVenc
<1> QED BY <1>1, CameraStepOfTables, EmptyStepOfTables, InitIInv, InductiveStep, PTL
       DEF Spec, SpecRm

\* The limits per encoder type hold for all cameras together.
THEOREM CamerasWithinLimits == Spec => []TypeLimitsRespected
  BY CamerasUseTables, LimitsRespected, PTL

\* A start that asked is_venc_channel_available can rely on the answer as long
\* as nobody allocates in between.
THEOREM CamerasAskRight == Spec => []AvailableIffGranted
  BY CamerasUseTables, QueryIsRight, PTL

\* The tables are empty before init and after release: a second life of the
\* application starts from nothing.
THEOREM ReleasedTablesAreEmpty == Spec => []NothingHeldUninitialized
  BY CamerasUseTables, UninitializedIsEmpty, PTL

-----------------------------------------------------------------------------
LEMMA OwnedInit == Init => Owned
<1> SUFFICES ASSUME Init PROVE Owned
  OBVIOUS
<1>1. TakenVenc = {} /\ viAlloc = {} /\ vpssAlloc = {}
  BY DEF Init, RmInitState, EmptyVenc, TakenVenc
<1>2. \A c \in Cam : vi[c] = None /\ vpss[c] = None /\ venc[c] = {} /\ pend[c] = None
  BY DEF Init
<1> QED BY <1>1, <1>2 DEF Owned, ViOwned, VpssOwned, VencOwned, Channels, NothingHeldUninitialized

LEMMA OwnedInductive ==
  ASSUME "release" \notin Calls
  PROVE  IInv /\ Owned /\ [Next]_vars => Owned'
  BY EveryStepOwns, OwnedKept DEF IInv, Owned, ReleaseResources

LEMMA AlwaysOwned == ASSUME "release" \notin Calls PROVE Spec => [](IInv /\ Owned)
  BY OwnedInductive, OwnedInit, InitIInv, InductiveStep, PTL DEF Spec

\* However the starts, failing starts, stops, stream creations and
\* destructions of any number of cameras and threads interleave, no VI device,
\* VPSS group or VENC channel is held by two cameras, for all limits.
THEOREM Exclusive == ASSUME "release" \notin Calls PROVE Spec => []ExclusiveOwnership
<1>1. Owned => ExclusiveOwnership
  BY DEF Owned, ViOwned, VpssOwned, VencOwned, ExclusiveOwnership
<1> QED BY <1>1, AlwaysOwned, PTL

\* What a camera holds is marked as taken, so no later allocation of any
\* thread can be given it.
THEOREM HeldStaysAllocated == ASSUME "release" \notin Calls PROVE Spec => []HeldIsAllocated
<1>1. Owned => HeldIsAllocated
  BY DEF Owned, ViOwned, VpssOwned, VencOwned, HeldIsAllocated
<1> QED BY <1>1, AlwaysOwned, PTL

-----------------------------------------------------------------------------
(***************************************************************************)
(* The cameras implement the abstract lease, nothing that is taken gets    *)
(* lost, and a stopped camera holds nothing: for every number of cameras   *)
(* and threads and all limits, as long as clients neither release the      *)
(* tables nor create streams of their own.                                 *)
(*                                                                         *)
(* A start may overwrite an id that the camera has, unless a camera that   *)
(* is neither running nor in a call has none (Tidy).  Then every step is   *)
(* one grant, one return, or nothing at all (LeaseStep).                   *)
(***************************************************************************)
\* At these steps of a call the camera has no group, no channel, no stream.
NoGroupYet == {"alloc_vpss", "free_vi"}
NoChannelLeft == {"free_vpss", "free_vi"}
NoStreamAt == {"alloc_vpss", "init_vi", "free_venc", "free_vpss", "free_vi"}

TidyCam(c) ==
  /\ ~running[c] /\ lock[c] = NoThread =>
       vi[c] = None /\ vpss[c] = None /\ venc[c] = {} /\ streams[c] = {}
  /\ pend[c] # None => \E t \in Thread : pc[t] = "stream_start" /\ cam[t] = c

TidyAt(t) ==
  /\ pc[t] \in NoGroupYet => vpss[cam[t]] = None
  /\ pc[t] \in NoChannelLeft => venc[cam[t]] = {}
  /\ pc[t] \in NoStreamAt => streams[cam[t]] = {}
  /\ op[t] # "create_stream"

Tidy == (\A c \in Cam : TidyCam(c)) /\ (\A t \in Thread : TidyAt(t))

-----------------------------------------------------------------------------
(* Tidy is inductive.                                                       *)

LEMMA TidyInit == Init => Tidy
  BY DEF Init, Tidy, TidyCam, TidyAt, NoGroupYet, NoChannelLeft, NoStreamAt

\* A step outside of the cameras: of the registry, a client or the tables
LEMMA TidyOutside ==
  ASSUME IInv, Tidy, NEW t \in Thread,
         UNCHANGED <<running, vi, vpss, venc, pend, streams, lock>>,
         \A u \in Thread \ {t} : pc'[u] = pc[u] /\ cam'[u] = cam[u] /\ op'[u] = op[u],
         pc[t] \notin Inside, pc'[t] \notin Inside, op'[t] # "create_stream"
  PROVE  Tidy'
<1>1. \A c \in Cam : TidyCam(c)'
  BY DEF Tidy, TidyCam, Inside, Pc
<1>2. \A u \in Thread : TidyAt(u)'
  BY DEF Tidy, TidyAt, Inside, Pc, NoGroupYet, NoChannelLeft, NoStreamAt
<1> QED BY <1>1, <1>2 DEF Tidy

\* A step of thread t that is about camera c only
LEMMA TidyInside ==
  ASSUME IInv, Tidy, NEW t \in Thread, NEW c \in Cam,
         \A u \in Thread \ {t} : pc'[u] = pc[u] /\ cam'[u] = cam[u] /\ op'[u] = op[u],
         \A u \in Thread \ {t} : pc[u] \in Inside => cam[u] # c,
         pc[t] \in Inside => cam[t] = c, pc'[t] \in Inside => cam'[t] = c,
         \A d \in Cam \ {c} :
           /\ running'[d] = running[d] /\ lock'[d] = lock[d] /\ vi'[d] = vi[d]
           /\ vpss'[d] = vpss[d] /\ venc'[d] = venc[d] /\ pend'[d] = pend[d]
           /\ streams'[d] = streams[d],
         ~running'[c] /\ lock'[c] = NoThread =>
           vi'[c] = None /\ vpss'[c] = None /\ venc'[c] = {} /\ streams'[c] = {},
         pend'[c] # None => pc'[t] = "stream_start" /\ cam'[t] = c,
         TidyAt(t)'
  PROVE  Tidy'
<1>1. ASSUME NEW d \in Cam PROVE TidyCam(d)'
  <2>1. CASE d = c
    BY <2>1 DEF TidyCam
  <2>2. CASE d # c
    BY <2>2 DEF Tidy, TidyCam, Inside, Pc
  <2> QED BY <2>1, <2>2
<1>2. ASSUME NEW u \in Thread PROVE TidyAt(u)'
  <2>1. CASE u # t /\ pc[u] \in Inside
    <3>1. cam[u] \in Cam \ {c}
      BY <2>1 DEF IInv, Control
    <3> QED BY <2>1, <3>1 DEF Tidy, TidyAt
  <2>2. CASE u # t /\ pc[u] \notin Inside
    BY <2>2 DEF Tidy, TidyAt, Inside, Pc, NoGroupYet, NoChannelLeft, NoStreamAt
  <2> QED BY <2>1, <2>2
<1> QED BY <1>1, <1>2 DEF Tidy

\* What a thread inside a camera knows
LEMMA InCamera ==
  ASSUME IInv, Tidy, NEW t \in Thread, pc[t] \in Inside
  PROVE  /\ cam[t] \in Cam /\ lock[cam[t]] = t /\ t # NoThread
         /\ \A u \in Thread \ {t} : pc[u] \in Inside => cam[u] # cam[t]
         /\ pc[t] # "stream_start" => pend[cam[t]] = None
         /\ TidyAt(t)
<1>1. cam[t] \in Cam /\ lock[cam[t]] = t /\ t # NoThread
  BY CameraAssumption DEF IInv, Control
<1>2. \A u \in Thread \ {t} : pc[u] \in Inside => cam[u] # cam[t]
  BY DEF IInv, Control
<1>3. pc[t] # "stream_start" => pend[cam[t]] = None
  BY <1>1, <1>2 DEF Tidy, TidyCam, Inside, Pc
<1> QED BY <1>1, <1>2, <1>3 DEF Tidy

\* A step of a call that stays in its camera
LEMMA TidyGoOn ==
  ASSUME IInv, Tidy, NEW t \in Thread, pc[t] \in Inside,
         NEW l \in Inside, pc' = [pc EXCEPT ![t] = l], UNCHANGED <<running, lock, op, cam>>,
         \A d \in Cam \ {cam[t]} :
           /\ vi'[d] = vi[d] /\ vpss'[d] = vpss[d] /\ venc'[d] = venc[d]
           /\ pend'[d] = pend[d] /\ streams'[d] = streams[d],
         l = "stream_start" \/ pend'[cam[t]] = None,
         l \in NoGroupYet => vpss'[cam[t]] = None,
         l \in NoChannelLeft => venc'[cam[t]] = {},
         l \in NoStreamAt => streams'[cam[t]] = {}
  PROVE  Tidy'
<1> USE DEF IInv, TypeOK, ThreadTypeOK
<1>1. pc'[t] = l /\ \A u \in Thread \ {t} : pc'[u] = pc[u]
  OBVIOUS
<1>2. TidyAt(t)'
  BY <1>1, InCamera DEF TidyAt
<1> HIDE DEF IInv
<1>3. cam[t] \in Cam /\ lock'[cam[t]] # NoThread
  BY InCamera
<1> QED BY <1>1, <1>2, <1>3, InCamera, TidyInside

\* A call on a stopped camera, or the end of a running one
LEMMA TidyEnter ==
  ASSUME IInv, Tidy, NEW t \in Thread, pc[t] \notin Inside,
         NEW c \in Cam, lock[c] = NoThread, lock' = [lock EXCEPT ![c] = t],
         NEW l \in {"alloc_vpss", "free_venc"}, pc' = [pc EXCEPT ![t] = l],
         cam' = [cam EXCEPT ![t] = c],
         NEW o \in Op \ {"create_stream"}, op' = [op EXCEPT ![t] = o],
         UNCHANGED <<running, vpss, venc, pend>>,
         \A d \in Cam \ {c} : vi'[d] = vi[d] /\ streams'[d] = streams[d],
         streams'[c] = {}, l = "alloc_vpss" => vpss[c] = None
  PROVE  Tidy'
<1>1. \A u \in Thread : pc[u] \in Inside => cam[u] # c
  BY CameraAssumption DEF IInv, Control
<1>2. pend[c] = None
  <2>1. "stream_start" \in Inside
    BY DEF Inside, Pc
  <2> QED BY <1>1, <2>1 DEF Tidy, TidyCam
<1> USE CameraAssumption DEF IInv, TypeOK, InstanceTypeOK, ThreadTypeOK
<1>3. TidyAt(t)'
  BY DEF TidyAt, NoGroupYet, NoChannelLeft, NoStreamAt
<1>4. lock'[c] # NoThread /\ cam'[t] = c
  OBVIOUS
<1>5. /\ \A u \in Thread \ {t} : pc'[u] = pc[u] /\ cam'[u] = cam[u] /\ op'[u] = op[u]
      /\ \A d \in Cam \ {c} : lock'[d] = lock[d]
  OBVIOUS
<1> HIDE DEF IInv, TypeOK, InstanceTypeOK, ThreadTypeOK
<1> QED BY <1>1, <1>2, <1>3, <1>4, <1>5, TidyInside

LEMMA TidyAllocateVi ==
  ASSUME IInv, Tidy, NEW t \in Thread, NEW c \in Cam, StartAllocateVi(t, c) PROVE Tidy'
<1> USE DEF IInv, TypeOK, InstanceTypeOK, ThreadTypeOK
<1>1. PICK l \in {"alloc_vpss", "free_venc"} : pc' = [pc EXCEPT ![t] = l]
  BY DEF StartAllocateVi, Enter, Goto
<1>2. /\ UNCHANGED <<running, vpss, venc, pend, streams>>
      /\ ~running[c] /\ lock[c] = NoThread /\ pc[t] = "idle"
      /\ lock' = [lock EXCEPT ![c] = t] /\ cam' = [cam EXCEPT ![t] = c]
      /\ op' = [op EXCEPT ![t] = "start"]
      /\ \A d \in Cam \ {c} : vi'[d] = vi[d]
  BY DEF StartAllocateVi, Idle, Unlocked, Lock, Enter
<1>3. vpss[c] = None /\ streams[c] = {} /\ pc[t] \notin Inside
  BY <1>2 DEF Tidy, TidyCam, Inside
<1>4. "start" \in Op \ {"create_stream"}
  BY DEF Op
<1> HIDE DEF IInv, TypeOK, InstanceTypeOK, ThreadTypeOK
<1> QED BY <1>1, <1>2, <1>3, <1>4, TidyEnter

LEMMA TidyBeginStop ==
  ASSUME IInv, Tidy, NEW t \in Thread, pc[t] \notin Inside,
         NEW c \in Cam, NEW o \in Op \ {"create_stream"}, BeginStop(t, c, o),
         UNCHANGED <<running, vi, vpss, venc, pend>>
  PROVE  Tidy'
<1> USE DEF IInv, TypeOK, InstanceTypeOK, ThreadTypeOK
<1>1. /\ lock[c] = NoThread /\ lock' = [lock EXCEPT ![c] = t] /\ cam' = [cam EXCEPT ![t] = c]
      /\ op' = [op EXCEPT ![t] = o] /\ pc' = [pc EXCEPT ![t] = "free_venc"]
      /\ streams'[c] = {} /\ \A d \in Cam \ {c} : streams'[d] = streams[d]
  BY DEF BeginStop, Unlocked, Lock, Enter, Goto
<1> HIDE DEF IInv, TypeOK, InstanceTypeOK, ThreadTypeOK
<1> QED BY <1>1, TidyEnter

LEMMA TidyAllocateVpss ==
  ASSUME IInv, Tidy, NEW t \in Thread, StartAllocateVpss(t) PROVE Tidy'
<1> USE DEF IInv, TypeOK, InstanceTypeOK, ThreadTypeOK
<1>1. PICK l \in {"init_vi", "free_venc"} : pc' = [pc EXCEPT ![t] = l]
  BY DEF StartAllocateVpss, Goto
<1>2. /\ UNCHANGED <<running, lock, op, cam, venc, pend, streams>> /\ pc[t] = "alloc_vpss"
      /\ \A d \in Cam \ {cam[t]} : vi'[d] = vi[d] /\ vpss'[d] = vpss[d]
  BY DEF StartAllocateVpss, RollbackVi
<1>3. pc[t] \in Inside /\ l \in Inside
  BY <1>2 DEF Inside, Pc
<1> HIDE DEF IInv, TypeOK, InstanceTypeOK, ThreadTypeOK
<1>4. streams[cam[t]] = {} /\ pend[cam[t]] = None
  BY <1>2, <1>3, InCamera DEF TidyAt, NoStreamAt
<1> QED BY <1>1, <1>2, <1>3, <1>4, TidyGoOn DEF NoGroupYet, NoChannelLeft

LEMMA TidyInitVi ==
  ASSUME IInv, Tidy, NEW t \in Thread, StartInitVi(t) PROVE Tidy'
<1>1. PICK l \in {"init_streams", "free_venc"} : pc' = [pc EXCEPT ![t] = l]
  BY DEF StartInitVi, Goto
<1>2. UNCHANGED <<running, lock, op, cam, vi, vpss, venc, pend, streams>> /\ pc[t] = "init_vi"
  BY DEF StartInitVi
<1>3. pc[t] \in Inside /\ l \in Inside
  BY <1>2 DEF Inside, Pc
<1>4. streams[cam[t]] = {} /\ pend[cam[t]] = None
  BY <1>2, <1>3, InCamera DEF TidyAt, NoStreamAt
<1> QED BY <1>1, <1>2, <1>3, <1>4, TidyGoOn DEF NoGroupYet, NoChannelLeft

LEMMA TidyNextStream ==
  ASSUME IInv, Tidy, NEW t \in Thread, StartNextStream(t) PROVE Tidy'
<1> USE DEF IInv, TypeOK, InstanceTypeOK, ThreadTypeOK
<1>1. UNCHANGED <<running, lock, op, cam, vi, vpss, venc>> /\ pc[t] = "init_streams"
  BY DEF StartNextStream
<1>2. pc[t] \in Inside /\ "stream_start" \in Inside /\ "free_venc" \in Inside
  BY <1>1 DEF Inside, Pc
<1>3. cam[t] \in Cam /\ pend[cam[t]] = None
  BY <1>1, <1>2, InCamera
<1>4. \/ /\ pc' = [pc EXCEPT ![t] = "stream_start"] /\ UNCHANGED streams
         /\ \A d \in Cam \ {cam[t]} : pend'[d] = pend[d]
      \/ /\ pc' = [pc EXCEPT ![t] = "free_venc"] /\ UNCHANGED pend
         /\ streams' = [streams EXCEPT ![cam[t]] = {}]
  BY DEF StartNextStream, Granted, AbandonStreams, Goto
<1>5. \A d \in Cam \ {cam[t]} : pend'[d] = pend[d] /\ streams'[d] = streams[d]
  BY <1>4
<1>6. CASE pc' = [pc EXCEPT ![t] = "stream_start"]
  <2> HIDE DEF IInv, TypeOK, InstanceTypeOK, ThreadTypeOK
  <2> QED BY <1>1, <1>2, <1>5, <1>6, TidyGoOn DEF NoGroupYet, NoChannelLeft, NoStreamAt
<1>7. CASE /\ pc' = [pc EXCEPT ![t] = "free_venc"] /\ UNCHANGED pend
           /\ streams' = [streams EXCEPT ![cam[t]] = {}]
  <2>1. streams'[cam[t]] = {} /\ pend'[cam[t]] = None
    BY <1>3, <1>7
  <2> HIDE DEF IInv, TypeOK, InstanceTypeOK, ThreadTypeOK
  <2> QED BY <1>1, <1>2, <1>5, <1>7, <2>1, TidyGoOn DEF NoGroupYet, NoChannelLeft
<1> QED BY <1>4, <1>6, <1>7

LEMMA TidyStreamStart ==
  ASSUME IInv, Tidy, NEW t \in Thread, StreamStart(t) PROVE Tidy'
<1> DEFINE c == cam[t]
<1>1. UNCHANGED <<running, vi, vpss>> /\ pc[t] = "stream_start"
  BY DEF StreamStart
<1>2. pc[t] \in Inside /\ "init_streams" \in Inside /\ "free_venc" \in Inside
  BY <1>1 DEF Inside, Pc
<1>3. c \in Cam /\ op[t] # "create_stream"
  BY <1>1, <1>2, InCamera DEF TidyAt
<1>4. /\ pend'[c] = None
      /\ \A d \in Cam \ {c} : pend'[d] = pend[d] /\ streams'[d] = streams[d] /\ venc'[d] = venc[d]
  BY <1>3 DEF StreamStart, AbandonStreams, IInv, TypeOK, InstanceTypeOK
<1>5. \/ pc' = [pc EXCEPT ![t] = "init_streams"] /\ UNCHANGED <<lock, op, cam>>
      \/ /\ pc' = [pc EXCEPT ![t] = "free_venc"] /\ UNCHANGED <<lock, op, cam>>
         /\ streams'[c] = {}
  BY <1>3 DEF StreamStart, AbandonStreams, Goto, IInv, TypeOK, InstanceTypeOK
<1> QED BY <1>1, <1>2, <1>4, <1>5, TidyGoOn DEF NoGroupYet, NoChannelLeft, NoStreamAt

LEMMA TidyFreeVenc ==
  ASSUME IInv, Tidy, NEW t \in Thread, FreeNextVenc(t) PROVE Tidy'
<1>1. UNCHANGED <<running, lock, op, cam, vi, vpss, pend, streams>> /\ pc[t] = "free_venc"
  BY DEF FreeNextVenc
<1>2. pc[t] \in Inside /\ "free_vpss" \in Inside /\ "free_venc" \in Inside
  BY <1>1 DEF Inside, Pc
<1>3. streams[cam[t]] = {} /\ pend[cam[t]] = None
  BY <1>1, <1>2, InCamera DEF TidyAt, NoStreamAt
<1>4. \A d \in Cam \ {cam[t]} : venc'[d] = venc[d]
  BY DEF FreeNextVenc, ForgetChannel, IInv, TypeOK, InstanceTypeOK
<1>5. CASE pc' = pc
  <2>1. pc' = [pc EXCEPT ![t] = "free_venc"]
    BY <1>1, <1>5 DEF IInv, TypeOK, ThreadTypeOK
  <2> QED BY <1>1, <1>2, <1>3, <1>4, <2>1, TidyGoOn DEF NoGroupYet, NoChannelLeft
<1>6. CASE pc' = [pc EXCEPT ![t] = "free_vpss"] /\ venc[cam[t]] = {} /\ UNCHANGED venc
  BY <1>1, <1>2, <1>3, <1>4, <1>6, TidyGoOn DEF NoGroupYet
<1> QED BY <1>5, <1>6 DEF FreeNextVenc, Goto

LEMMA TidyFreeGroup ==
  ASSUME IInv, Tidy, NEW t \in Thread, FreeGroup(t) PROVE Tidy'
<1>1. UNCHANGED <<running, lock, op, cam, vi, venc, pend, streams>> /\ pc[t] = "free_vpss"
  BY DEF FreeGroup
<1>2. pc[t] \in Inside /\ "free_vi" \in Inside
  BY <1>1 DEF Inside, Pc
<1>3. cam[t] \in Cam /\ streams[cam[t]] = {} /\ venc[cam[t]] = {} /\ pend[cam[t]] = None
  BY <1>1, <1>2, InCamera DEF TidyAt, NoStreamAt, NoChannelLeft
<1>4. vpss'[cam[t]] = None /\ \A d \in Cam \ {cam[t]} : vpss'[d] = vpss[d]
  BY <1>3 DEF FreeGroup, IInv, TypeOK, InstanceTypeOK
<1>5. pc' = [pc EXCEPT ![t] = "free_vi"]
  BY DEF FreeGroup, Goto
<1> QED BY <1>1, <1>2, <1>3, <1>4, <1>5, TidyGoOn

\* The steps that leave the camera
LEMMA TidyLeave ==
  ASSUME IInv, Tidy, NEW t \in Thread, StartDone(t) \/ FreeDevice(t) PROVE Tidy'
<1> DEFINE c == cam[t]
<1>1. UNCHANGED <<vpss, venc, pend, streams>> /\ pc[t] \in {"init_streams", "free_vi"}
  BY DEF StartDone, FreeDevice
<1>2. pc[t] \in Inside
  BY <1>1 DEF Inside, Pc
<1>3. c \in Cam /\ pend[c] = None
  BY <1>1, <1>2, InCamera
<1>4. \A d \in Cam \ {c} : running'[d] = running[d] /\ lock'[d] = lock[d] /\ vi'[d] = vi[d]
  BY DEF StartDone, FreeDevice, Unlock, IInv, TypeOK, InstanceTypeOK
<1>5. ~running'[c] => vi'[c] = None /\ vpss'[c] = None /\ venc'[c] = {} /\ streams'[c] = {}
  <2>1. CASE StartDone(t)
    BY <1>3, <2>1 DEF StartDone, IInv, TypeOK, InstanceTypeOK
  <2>2. CASE FreeDevice(t)
    <3>1. pc[t] = "free_vi" /\ vi'[c] = None
      BY <1>3, <2>2 DEF FreeDevice, IInv, TypeOK, InstanceTypeOK
    <3> QED BY <1>1, <1>2, <3>1, InCamera DEF TidyAt, NoStreamAt, NoChannelLeft, NoGroupYet
  <2> QED BY <2>1, <2>2
<1>6. /\ pc'[t] \in {"idle", "next_camera"} /\ op'[t] # "create_stream"
      /\ \A u \in Thread \ {t} : pc'[u] = pc[u] /\ cam'[u] = cam[u] /\ op'[u] = op[u]
  <2>1. op[t] # "create_stream"
    BY DEF Tidy, TidyAt
  <2> QED BY <2>1 DEF StartDone, FreeDevice, Return, Goto, IInv, TypeOK, ThreadTypeOK
<1>7. TidyAt(t)' /\ pc'[t] \notin Inside
  BY <1>6 DEF TidyAt, NoGroupYet, NoChannelLeft, NoStreamAt, Inside
<1> QED BY <1>1, <1>2, <1>3, <1>4, <1>5, <1>6, <1>7, InCamera, TidyInside

\* Nothing changes that Tidy is about, except streams that go
LEMMA TidyFewer ==
  ASSUME IInv, Tidy, UNCHANGED <<running, vi, vpss, venc, pend, lock, pc, op, cam>>,
         \A c \in Cam : streams'[c] \subseteq streams[c]
  PROVE  Tidy'
<1>1. \A t \in Thread : pc[t] \in NoStreamAt => cam[t] \in Cam
  BY DEF IInv, Control, Inside, Pc, NoStreamAt
<1> QED BY <1>1 DEF Tidy, TidyCam, TidyAt

LEMMA TidyManager ==
  ASSUME IInv, Tidy, NEW t \in Thread,
         \/ \E id \in DOMAIN cameras : Destroy(t, id)
         \/ DestroyAll(t) \/ ReleaseManager(t) \/ ManagerErase(t) \/ ManagerStop(t)
  PROVE  Tidy'
<1> USE DEF IInv, TypeOK, ThreadTypeOK
<1>1. ASSUME NEW o \in ManagerOp, NEW todo, EnterManager(t, o, todo) PROVE Tidy'
  <2>1. /\ UNCHANGED <<running, vi, vpss, venc, pend, streams, lock>> /\ pc[t] = "idle"
        /\ \A u \in Thread \ {t} : pc'[u] = pc[u] /\ cam'[u] = cam[u] /\ op'[u] = op[u]
        /\ pc'[t] = "next_camera" /\ op'[t] = o
    BY <1>1 DEF EnterManager, Idle, Goto, camVars
  <2> HIDE DEF IInv
  <2> QED BY <2>1, TidyOutside DEF Inside, ManagerOp
<1>2. CASE ManagerErase(t)
  <2>1. /\ UNCHANGED <<running, vi, vpss, venc, pend, streams, lock>> /\ pc[t] = "next_camera"
        /\ \A u \in Thread \ {t} : pc'[u] = pc[u] /\ cam'[u] = cam[u] /\ op'[u] = op[u]
        /\ pc'[t] = "idle" /\ op'[t] = "none"
    BY <1>2 DEF ManagerErase, Return, camVars
  <2> HIDE DEF IInv
  <2> QED BY <2>1, TidyOutside DEF Inside
<1>3. ASSUME ManagerStop(t) PROVE Tidy'
  <2>1. PICK id \in ids[t] :
          \/ BeginStop(t, cameras[id], op[t])
          \/ cam' = [cam EXCEPT ![t] = cameras[id]] /\ UNCHANGED <<lock, streams, pc, op>>
    BY <1>3 DEF ManagerStop
  <2>2. pc[t] = "next_camera" /\ UNCHANGED <<running, vi, vpss, venc, pend>>
    BY <1>3 DEF ManagerStop
  <2>3. op[t] \in ManagerOp /\ cameras[id] \in Cam
    BY <2>2 DEF Control, ManagerTypeOK
  <2>4. op[t] \in Op \ {"create_stream"} /\ pc[t] \notin Inside
    BY <2>2, <2>3 DEF ManagerOp, Op, Inside
  <2>5. CASE BeginStop(t, cameras[id], op[t])
    <3> HIDE DEF IInv
    <3> QED BY <2>2, <2>3, <2>4, <2>5, TidyBeginStop
  <2>6. CASE cam' = [cam EXCEPT ![t] = cameras[id]] /\ UNCHANGED <<lock, streams, pc, op>>
    <3>1. \A u \in Thread \ {t} : cam'[u] = cam[u]
      BY <2>6
    <3> HIDE DEF IInv
    <3> QED BY <2>2, <2>4, <2>6, <3>1, TidyOutside
  <2> QED BY <2>1, <2>5, <2>6
<1> QED BY <1>1, <1>2, <1>3 DEF Destroy, DestroyAll, ReleaseManager, ManagerOp

LEMMA TidyStep ==
  ASSUME "create_stream" \notin Calls, IInv, Tidy, [Next]_vars PROVE Tidy'
<1>1. CASE \/ InitResources \/ InitManager \/ ReleaseResources \/ UNCHANGED vars
           \/ \E c \in Cam : DropRef(c)
  BY <1>1, TidyFewer DEF InitResources, InitManager, ReleaseResources, DropRef, vars, camVars, thVars
<1>2. ASSUME NEW t \in Thread, InCall(t) PROVE Tidy'
  <2>1. CASE StreamStartNullVi(t)
    BY <2>1, TidyFewer DEF StreamStartNullVi, camVars, thVars
  <2> QED BY <1>2, <2>1, TidyAllocateVpss, TidyInitVi, TidyNextStream, TidyStreamStart,
             TidyFreeVenc, TidyFreeGroup, TidyLeave, TidyManager DEF InCall
<1>3. ASSUME NEW t \in Thread, NEW c \in Cam,
             \/ \E cf \in Config : CreateCamera(t, c, cf)
             \/ GetCamera(t, c)
      PROVE  Tidy'
  BY <1>3, TidyFewer DEF CreateCamera, GetCamera, camVars, thVars
<1>4. ASSUME NEW t \in Thread, NEW c \in Cam, NEW id, DestroyStream(t, c, id) PROVE Tidy'
  <2>1. UNCHANGED <<running, vi, vpss, venc, pend, lock, pc, op, cam>>
    BY <1>4 DEF DestroyStream, thVars
  <2>2. \A d \in Cam : streams'[d] \subseteq streams[d]
    BY <1>4 DEF DestroyStream, IInv, TypeOK, InstanceTypeOK
  <2> QED BY <2>1, <2>2, TidyFewer
<1>5. ASSUME NEW t \in Thread, NEW c \in Cam, Stop(t, c) \/ Destructor(t, c) PROVE Tidy'
  <2>1. pc[t] \notin Inside /\ UNCHANGED <<running, vi, vpss, pend>>
    BY <1>5 DEF Stop, Destructor, Idle, Inside
  <2>2. {"stop", "destructor"} \subseteq Op \ {"create_stream"}
    BY DEF Op
  <2>3. CASE Stop(t, c)
    BY <2>1, <2>2, <2>3, TidyBeginStop DEF Stop
  <2>4. CASE Destructor(t, c)
    <3>1. CASE BeginStop(t, c, "destructor") /\ UNCHANGED venc
      BY <2>1, <2>2, <3>1, TidyBeginStop
    <3>2. CASE /\ ~running[c] /\ lock[c] = NoThread
               /\ venc' = [venc EXCEPT ![c] = {}] /\ UNCHANGED <<lock, streams, pc, op, cam>>
      <4>1. venc' = venc
        BY <3>2 DEF Tidy, TidyCam, IInv, TypeOK, InstanceTypeOK
      <4> QED BY <2>1, <3>2, <4>1, TidyFewer
    <3> QED BY <2>4, <3>1, <3>2 DEF Destructor, Unreferenced, Unlocked
  <2> QED BY <1>5, <2>3, <2>4
<1>6. ASSUME NEW t \in Thread, Call(t) PROVE Tidy'
  BY <1>3, <1>4, <1>5, <1>6, TidyAllocateVi, TidyManager DEF Call, CreateStream
<1>7. ASSUME NEW t \in Thread, ManagerStop(t) PROVE Tidy'
  BY <1>7, TidyManager
<1> QED BY <1>1, <1>2, <1>6, <1>7 DEF Next

LEMMA AlwaysTidy ==
  ASSUME Calls \cap {"create_stream", "release"} = {}
  PROVE  Spec => [](IInv /\ Owned /\ Tidy)
<1>1. IInv /\ Owned /\ Tidy /\ [Next]_vars => Tidy'
  BY TidyStep
<1>2. "release" \notin Calls
  OBVIOUS
<1>3. Spec => [](IInv /\ Owned)
  BY <1>2, AlwaysOwned
<1> QED BY <1>1, <1>3, TidyInit, PTL DEF Spec

\* A camera that is not running and not in a call holds no device, no group, no
\* channel and no stream: every way out of start, from every step and for any
\* list of streams, and every stop has released all of it.
THEOREM StoppedIsEmpty ==
  ASSUME Calls \cap {"create_stream", "release"} = {}
  PROVE  Spec => []StoppedHoldsNothing
<1>1. IInv /\ Tidy => StoppedHoldsNothing
  <2> SUFFICES ASSUME IInv, Tidy, NEW c \in Cam, ~running[c], lock[c] = NoThread
               PROVE  vi[c] = None /\ vpss[c] = None /\ Channels(c) = {} /\ streams[c] = {}
    BY DEF StoppedHoldsNothing, Unlocked
  <2>1. pend[c] = None
    <3>1. ASSUME NEW t \in Thread, pc[t] = "stream_start", cam[t] = c PROVE FALSE
      BY <3>1, InCamera DEF Inside, Pc
    <3> QED BY <3>1 DEF Tidy, TidyCam
  <2> QED BY <2>1 DEF Tidy, TidyCam, Channels
<1> QED BY <1>1, AlwaysTidy, PTL

-----------------------------------------------------------------------------
(* The leases.                                                              *)

\* What one step may do to the leases, in the terms of the cameras.
Unmoved ==
  \A r \in Resource :
    /\ Taken(r)' <=> Taken(r)
    /\ \A c \in Cam : Holds(c, r)' <=> Holds(c, r)

Others(r, c) ==
  \A q \in Resource :
    /\ q # r => (Taken(q)' <=> Taken(q))
    /\ \A d \in Cam : q # r \/ d # c => (Holds(d, q)' <=> Holds(d, q))

Leased(r, c) == ~Taken(r) /\ Taken(r)' /\ Holds(c, r)' /\ Others(r, c)
Returned(r, c) == Taken(r) /\ Holds(c, r) /\ ~Taken(r)' /\ ~Holds(c, r)' /\ Others(r, c)

LeaseStep == Unmoved \/ \E r \in Resource, c \in Cam : Leased(r, c) \/ Returned(r, c)

\* Owned, and the other way round: what is held is taken, by one camera only,
\* and what is taken is held.
Sound ==
  \A r \in Resource :
    /\ Taken(r) <=> \E c \in Cam : Holds(c, r)
    /\ \A c, d \in Cam : Holds(c, r) /\ Holds(d, r) => c = d

LEMMA LeaseOfStep ==
  ASSUME Sound, Sound', LeaseStep PROVE L!LeaseNext \/ LeaseOf' = LeaseOf
<1>n. NoCam \notin Cam
  BY CameraAssumption
<1>s. \A r \in Resource : \A c \in Cam : /\ Holds(c, r) => Taken(r)
                                         /\ \A d \in Cam : Holds(c, r) /\ Holds(d, r) => c = d
  BY DEF Sound
<1>a. \A p : p \in LeaseOf <=> /\ p \in Resource \X (Cam \cup {NoCam})
                               /\ p[2] \in Cam /\ Holds(p[2], p[1])
  BY <1>n DEF Sound, LeaseOf
<1>b. \A p : p \in LeaseOf' <=> /\ p \in Resource \X (Cam \cup {NoCam})
                                /\ p[2] \in Cam /\ Holds(p[2], p[1])'
  BY <1>n DEF Sound, LeaseOf
<1>1. CASE Unmoved
  BY <1>1, <1>a, <1>b DEF Unmoved
<1>2. ASSUME NEW r \in Resource, NEW c \in Cam, Leased(r, c) PROVE L!Grant(r, c)
  <2>1. \A p \in LeaseOf : p[1] # r
    BY <1>2, <1>a, <1>s DEF Leased
  <2>2. LeaseOf' = LeaseOf \cup {<<r, c>>}
    BY <1>2, <1>a, <1>b DEF Leased, Others
  <2> QED BY <2>1, <2>2 DEF L!Grant
<1>3. ASSUME NEW r \in Resource, NEW c \in Cam, Returned(r, c) PROVE L!GiveBack(r, c)
  <2>1. <<r, c>> \in LeaseOf
    BY <1>3, <1>a DEF Returned
  <2>2. LeaseOf' = LeaseOf \ {<<r, c>>}
    BY <1>3, <1>a, <1>b DEF Returned, Others
  <2> QED BY <2>1, <2>2 DEF L!GiveBack
<1> QED BY <1>1, <1>2, <1>3 DEF LeaseStep, L!LeaseNext

-----------------------------------------------------------------------------
(* The moves of each kind of resource.                                      *)

LEMMA Kinds ==
  \A r \in Resource :
    \/ r[1] = "vi" /\ r[2] \in ViDevice /\ r = <<"vi", r[2]>>
    \/ r[1] = "vpss" /\ r[2] \in VpssGroup /\ r = <<"vpss", r[2]>>
    \/ r[1] = "venc" /\ r[2] \in VencChn /\ r = <<"venc", r[2]>>
  BY DEF Resource

LEMMA StillLease ==
  ASSUME UNCHANGED <<viAlloc, vpssAlloc, vi, vpss>>, TakenVenc' = TakenVenc,
         \A c \in Cam : Channels(c)' = Channels(c)
  PROVE  LeaseStep
  BY DEF LeaseStep, Unmoved, Taken, Holds

LEMMA ViGrant ==
  ASSUME TypeOK, NEW c \in Cam, NEW d \in ViDevice, AllocateVi(d), vi[c] = None,
         vi' = [vi EXCEPT ![c] = d], UNCHANGED <<vpss, venc, pend>>
  PROVE  LeaseStep
<1> DEFINE r == <<"vi", d>>
<1>1. r \in Resource
  BY DEF Resource
<1>2. d \notin viAlloc /\ viAlloc' = viAlloc \cup {d} /\ UNCHANGED <<vpssAlloc, vencAlloc>>
  BY DEF AllocateVi, IsFirst
<1>3. vi'[c] = d /\ \A e \in Cam \ {c} : vi'[e] = vi[e]
  BY DEF TypeOK, InstanceTypeOK
<1>4. Others(r, c)
  BY <1>2, <1>3, Kinds, NoneIsNoId DEF Others, Taken, Holds, TakenVenc, Channels
<1>5. Leased(r, c)
  BY <1>2, <1>3, <1>4 DEF Leased, Taken, Holds
<1> QED BY <1>1, <1>5 DEF LeaseStep

LEMMA ViReturn ==
  ASSUME TypeOK, Owned, NEW c \in Cam, FreeVi(vi[c]),
         vi' = [vi EXCEPT ![c] = None], UNCHANGED <<vpss, venc, pend>>
  PROVE  LeaseStep
<1>1. UNCHANGED <<vpssAlloc, vencAlloc>>
  BY DEF FreeVi
<1>2. vi'[c] = None /\ \A e \in Cam \ {c} : vi'[e] = vi[e]
  BY DEF TypeOK, InstanceTypeOK
<1>3. CASE vi[c] = None
  <2>1. viAlloc' = viAlloc
    BY <1>3, NoneIsNoId DEF FreeVi, TypeOK, RmTypeOK
  <2>2. vi' = vi
    BY <1>3 DEF TypeOK, InstanceTypeOK
  <2> QED BY <1>1, <2>1, <2>2, StillLease DEF TakenVenc, Channels
<1>4. ASSUME NEW d \in ViDevice, vi[c] = d PROVE LeaseStep
  <2> DEFINE r == <<"vi", d>>
  <2>1. r \in Resource /\ d \in viAlloc /\ d # None /\ rmInit
    BY <1>4, NoneIsNoId DEF Resource, Owned, ViOwned, NothingHeldUninitialized
  <2>2. viAlloc' = viAlloc \ {d}
    BY <1>4, <2>1 DEF FreeVi
  <2>3. Others(r, c)
    BY <1>1, <1>2, <1>4, <2>1, <2>2, Kinds, NoneIsNoId DEF Others, Taken, Holds, TakenVenc, Channels
  <2>4. Returned(r, c)
    BY <1>2, <1>4, <2>1, <2>2, <2>3 DEF Returned, Taken, Holds
  <2> QED BY <2>1, <2>4 DEF LeaseStep
<1> QED BY <1>3, <1>4 DEF TypeOK, InstanceTypeOK

LEMMA VpssGrant ==
  ASSUME TypeOK, NEW c \in Cam, NEW g \in VpssGroup, AllocateVpss(g), vpss[c] = None,
         vpss' = [vpss EXCEPT ![c] = g], UNCHANGED <<vi, venc, pend>>
  PROVE  LeaseStep
<1> DEFINE r == <<"vpss", g>>
<1>1. r \in Resource
  BY DEF Resource
<1>2. g \notin vpssAlloc /\ vpssAlloc' = vpssAlloc \cup {g} /\ UNCHANGED <<viAlloc, vencAlloc>>
  BY DEF AllocateVpss, IsFirst
<1>3. vpss'[c] = g /\ \A e \in Cam \ {c} : vpss'[e] = vpss[e]
  BY DEF TypeOK, InstanceTypeOK
<1>4. Others(r, c)
  BY <1>2, <1>3, Kinds, NoneIsNoId DEF Others, Taken, Holds, TakenVenc, Channels
<1>5. Leased(r, c)
  BY <1>2, <1>3, <1>4 DEF Leased, Taken, Holds
<1> QED BY <1>1, <1>5 DEF LeaseStep

LEMMA VpssReturn ==
  ASSUME TypeOK, Owned, NEW c \in Cam, FreeVpss(vpss[c]),
         vpss' = [vpss EXCEPT ![c] = None], UNCHANGED <<vi, venc, pend>>
  PROVE  LeaseStep
<1>1. UNCHANGED <<viAlloc, vencAlloc>>
  BY DEF FreeVpss
<1>2. vpss'[c] = None /\ \A e \in Cam \ {c} : vpss'[e] = vpss[e]
  BY DEF TypeOK, InstanceTypeOK
<1>3. CASE vpss[c] = None
  <2>1. vpssAlloc' = vpssAlloc
    BY <1>3, NoneIsNoId DEF FreeVpss, TypeOK, RmTypeOK
  <2>2. vpss' = vpss
    BY <1>3 DEF TypeOK, InstanceTypeOK
  <2> QED BY <1>1, <2>1, <2>2, StillLease DEF TakenVenc, Channels
<1>4. ASSUME NEW g \in VpssGroup, vpss[c] = g PROVE LeaseStep
  <2> DEFINE r == <<"vpss", g>>
  <2>1. r \in Resource /\ g \in vpssAlloc /\ g # None /\ rmInit
    BY <1>4, NoneIsNoId DEF Resource, Owned, VpssOwned, NothingHeldUninitialized
  <2>2. vpssAlloc' = vpssAlloc \ {g}
    BY <1>4, <2>1 DEF FreeVpss
  <2>3. Others(r, c)
    BY <1>1, <1>2, <1>4, <2>1, <2>2, Kinds, NoneIsNoId DEF Others, Taken, Holds, TakenVenc, Channels
  <2>4. Returned(r, c)
    BY <1>2, <1>4, <2>1, <2>2, <2>3 DEF Returned, Taken, Holds
  <2> QED BY <2>1, <2>4 DEF LeaseStep
<1> QED BY <1>3, <1>4 DEF TypeOK, InstanceTypeOK

\* A channel is given to c, or taken from it, in whichever of its two places.
LEMMA VencGranted ==
  ASSUME TypeOK, NEW c \in Cam, NEW ch \in VencChn, NEW type \in VencType,
         AllocateVenc(type, ch), Channels(c)' = Channels(c) \cup {ch},
         \A e \in Cam \ {c} : Channels(e)' = Channels(e), UNCHANGED <<vi, vpss>>
  PROVE  LeaseStep
<1> DEFINE r == <<"venc", ch>>
<1>1. r \in Resource
  BY DEF Resource
<1>2. ch \notin TakenVenc /\ UNCHANGED <<viAlloc, vpssAlloc>>
  BY DEF AllocateVenc, VencGrant, IsFirst
<1>3. TakenVenc' = TakenVenc \cup {ch}
  BY DEF AllocateVenc, TakenVenc, TypeOK, RmTypeOK, VencType, H264, H265, NoType
<1>4. Others(r, c)
  BY <1>2, <1>3, Kinds DEF Others, Taken, Holds
<1>5. Leased(r, c)
  BY <1>2, <1>3, <1>4 DEF Leased, Taken, Holds
<1> QED BY <1>1, <1>5 DEF LeaseStep

LEMMA VencReturned ==
  ASSUME TypeOK, Owned, NEW c \in Cam, NEW ch \in Channels(c), FreeVenc(ch),
         Channels(c)' = Channels(c) \ {ch},
         \A e \in Cam \ {c} : Channels(e)' = Channels(e), UNCHANGED <<vi, vpss>>
  PROVE  LeaseStep
<1> DEFINE r == <<"venc", ch>>
<1>1. ch \in TakenVenc /\ rmInit
  BY DEF Owned, VencOwned, NothingHeldUninitialized
<1>2. r \in Resource /\ UNCHANGED <<viAlloc, vpssAlloc>>
  BY <1>1 DEF Resource, TakenVenc, FreeVenc
<1>3. TakenVenc' = TakenVenc \ {ch}
  BY <1>1 DEF FreeVenc, TakenVenc
<1>4. Others(r, c)
  BY <1>2, <1>3, Kinds DEF Others, Taken, Holds
<1>5. Returned(r, c)
  BY <1>1, <1>3, <1>4 DEF Returned, Taken, Holds
<1> QED BY <1>2, <1>5 DEF LeaseStep

-----------------------------------------------------------------------------
(* Every action is such a step.                                             *)

LEMMA QuietLease == ASSUME UNCHANGED <<rmVars, vi, vpss, venc, pend>> PROVE LeaseStep
  BY StillLease DEF rmVars, TakenVenc, Channels

LEMMA LeaseInitResources ==
  ASSUME NothingHeldUninitialized, InitResources PROVE LeaseStep
<1>1. UNCHANGED <<viAlloc, vpssAlloc, vi, vpss, venc, pend>>
  BY DEF InitResources, InitRm, NothingHeldUninitialized, camVars
<1>2. TakenVenc' = {} /\ TakenVenc = {}
  BY DEF InitResources, InitRm, TakenVenc, EmptyVenc, NothingHeldUninitialized
<1> QED BY <1>1, <1>2, StillLease DEF Channels

LEMMA LeaseAllocateVi ==
  ASSUME IInv, Tidy, NEW t \in Thread, NEW c \in Cam, StartAllocateVi(t, c) PROVE LeaseStep
<1>1. UNCHANGED <<vpss, venc, pend>> /\ vi[c] = None
  BY DEF StartAllocateVi, Tidy, TidyCam, Unlocked
<1> QED BY <1>1, ViGrant, QuietLease DEF StartAllocateVi, IInv

LEMMA LeaseAllocateVpss ==
  ASSUME IInv, Owned, Tidy, NEW t \in Thread, StartAllocateVpss(t) PROVE LeaseStep
<1>1. pc[t] = "alloc_vpss" /\ UNCHANGED <<venc, pend>>
  BY DEF StartAllocateVpss
<1>2. pc[t] \in Inside
  BY <1>1 DEF Inside, Pc
<1>3. PICK c \in Cam : c = cam[t] /\ vpss[c] = None
  BY <1>1, <1>2, InCamera DEF TidyAt, NoGroupYet
<1>4. ASSUME NEW g \in VpssGroup, AllocateVpss(g), vpss' = [vpss EXCEPT ![c] = g], UNCHANGED vi
      PROVE  LeaseStep
  BY <1>1, <1>3, <1>4, VpssGrant DEF IInv
<1>5. ASSUME FreeVi(vi[c]), vi' = [vi EXCEPT ![c] = None], UNCHANGED vpss
      PROVE  LeaseStep
  BY <1>1, <1>5, ViReturn DEF IInv
<1> QED BY <1>3, <1>4, <1>5 DEF StartAllocateVpss, RollbackVi

LEMMA LeaseNextStream ==
  ASSUME IInv, Tidy, NEW t \in Thread, StartNextStream(t) PROVE LeaseStep
<1>1. pc[t] = "init_streams" /\ UNCHANGED <<vi, vpss, venc>>
  BY DEF StartNextStream
<1>2. pc[t] \in Inside
  BY <1>1 DEF Inside, Pc
<1>3. PICK c \in Cam : c = cam[t] /\ pend[c] = None
  BY <1>1, <1>2, InCamera
<1>4. CASE UNCHANGED <<rmVars, pend>>
  BY <1>1, <1>4, QuietLease
<1>5. ASSUME NEW ch \in VencChn, NEW s, AllocateVenc(VencTypeOf(s), ch), pend' = [pend EXCEPT ![c] = ch]
      PROVE  LeaseStep
  <2>1. Channels(c)' = Channels(c) \cup {ch} /\ \A e \in Cam \ {c} : Channels(e)' = Channels(e)
    BY <1>1, <1>3, <1>5, NoneIsNoId DEF Channels, IInv, TypeOK, InstanceTypeOK
  <2> QED BY <1>1, <1>5, <2>1, VencGranted, VencTypeIsType DEF IInv
<1> QED BY <1>3, <1>4, <1>5 DEF StartNextStream, Granted

LEMMA LeaseStreamStart ==
  ASSUME IInv, Owned, NEW t \in Thread, StreamStart(t) PROVE LeaseStep
<1>1. PICK c \in Cam, ch \in VencChn : c = cam[t] /\ ch = pend[c]
  BY DEF StreamStart, IInv, Control, Locals, Inside, Pc
<1>2. UNCHANGED <<vi, vpss>> /\ pend' = [pend EXCEPT ![c] = None]
  BY <1>1 DEF StreamStart
<1>3. CASE venc' = [venc EXCEPT ![c] = @ \cup {ch}] /\ UNCHANGED rmVars
  <2>1. \A e \in Cam : Channels(e)' = Channels(e)
    BY <1>1, <1>2, <1>3, NoneIsNoId DEF Channels, IInv, TypeOK, InstanceTypeOK
  <2> QED BY <1>2, <1>3, <2>1, StillLease DEF rmVars, TakenVenc
<1>4. CASE FreeVenc(ch) /\ UNCHANGED venc
  <2>1. ch \in Channels(c) /\ Channels(c)' = Channels(c) \ {ch}
    BY <1>1, <1>2, <1>4, NoneIsNoId DEF Channels, IInv, TypeOK, InstanceTypeOK, Owned, VencOwned
  <2>2. \A e \in Cam \ {c} : Channels(e)' = Channels(e)
    BY <1>2, <1>4 DEF Channels, IInv, TypeOK, InstanceTypeOK
  <2> QED BY <1>2, <1>4, <2>1, <2>2, VencReturned DEF IInv
<1> QED BY <1>1, <1>3, <1>4 DEF StreamStart

LEMMA LeaseFreeVenc ==
  ASSUME IInv, Owned, Tidy, NEW t \in Thread, FreeNextVenc(t) PROVE LeaseStep
<1>1. pc[t] = "free_venc" /\ UNCHANGED <<vi, vpss, pend>>
  BY DEF FreeNextVenc
<1>2. pc[t] \in Inside
  BY <1>1 DEF Inside, Pc
<1>3. PICK c \in Cam : c = cam[t] /\ pend[c] = None
  BY <1>1, <1>2, InCamera
<1>4. CASE UNCHANGED <<rmVars, venc>>
  BY <1>1, <1>4, QuietLease
<1>5. ASSUME NEW ch \in venc[c], FreeVenc(ch), venc' = [venc EXCEPT ![c] = @ \ {ch}]
      PROVE  LeaseStep
  <2>1. ch \in Channels(c) /\ Channels(c)' = Channels(c) \ {ch}
    BY <1>1, <1>3, <1>5 DEF Channels, IInv, TypeOK, InstanceTypeOK
  <2>2. \A e \in Cam \ {c} : Channels(e)' = Channels(e)
    BY <1>1, <1>5 DEF Channels, IInv, TypeOK, InstanceTypeOK
  <2> QED BY <1>1, <1>5, <2>1, <2>2, VencReturned DEF IInv
<1> QED BY <1>3, <1>4, <1>5 DEF FreeNextVenc, ForgetChannel

LEMMA LeaseFreeGroup ==
  ASSUME IInv, Owned, NEW t \in Thread, FreeGroup(t) PROVE LeaseStep
<1>1. PICK c \in Cam : c = cam[t]
  BY DEF FreeGroup, IInv, Control, Inside, Pc
<1>2. UNCHANGED <<vi, venc, pend>> /\ vpss' = [vpss EXCEPT ![c] = None]
  BY <1>1 DEF FreeGroup
<1>3. CASE FreeVpss(vpss[c])
  BY <1>2, <1>3, VpssReturn DEF IInv
<1>4. CASE UNCHANGED rmVars /\ ~HasGroup(c)
  <2>1. vpss[c] = None
    BY <1>4, LimitsAssumption DEF IInv, TypeOK, InstanceTypeOK, VpssGroup, HasGroup, None
  <2>2. UNCHANGED vpss
    BY <1>2, <2>1 DEF IInv, TypeOK, InstanceTypeOK
  <2> QED BY <1>2, <1>4, <2>2, QuietLease
<1> QED BY <1>1, <1>3, <1>4 DEF FreeGroup

LEMMA LeaseFreeDevice ==
  ASSUME IInv, Owned, NEW t \in Thread, FreeDevice(t) PROVE LeaseStep
<1>1. PICK c \in Cam : c = cam[t]
  BY DEF FreeDevice, IInv, Control, Inside, Pc
<1>2. UNCHANGED <<vpss, venc, pend>> /\ vi' = [vi EXCEPT ![c] = None]
  BY <1>1 DEF FreeDevice
<1>3. CASE FreeVi(vi[c])
  BY <1>2, <1>3, ViReturn DEF IInv
<1>4. CASE UNCHANGED rmVars /\ ~(vi[c] >= 0)
  <2>1. vi[c] = None
    BY <1>4, LimitsAssumption DEF IInv, TypeOK, InstanceTypeOK, ViDevice, None
  <2>2. UNCHANGED vi
    BY <1>2, <2>1 DEF IInv, TypeOK, InstanceTypeOK
  <2> QED BY <1>2, <1>4, <2>2, QuietLease
<1> QED BY <1>1, <1>3, <1>4 DEF FreeDevice

LEMMA LeaseDestructor ==
  ASSUME IInv, Tidy, NEW t \in Thread, NEW c \in Cam, Destructor(t, c) PROVE LeaseStep
<1>1. UNCHANGED <<rmVars, vi, vpss, pend>>
  BY DEF Destructor
<1>2. CASE ~running[c] /\ venc' = [venc EXCEPT ![c] = {}]
  <2>1. venc[c] = {}
    BY <1>2 DEF Destructor, Unreferenced, Unlocked, Tidy, TidyCam
  <2>2. UNCHANGED venc
    BY <1>2, <2>1 DEF IInv, TypeOK, InstanceTypeOK
  <2> QED BY <1>1, <2>2, QuietLease
<1> QED BY <1>1, <1>2, QuietLease DEF Destructor

LEMMA EveryStepLeases ==
  ASSUME Calls \cap {"create_stream", "release"} = {}, IInv, Owned, Tidy, [Next]_vars
  PROVE  LeaseStep
<1>1. CASE InitResources
  BY <1>1, LeaseInitResources DEF Owned
<1>2. CASE InitManager \/ UNCHANGED vars \/ \E c \in Cam : DropRef(c)
  BY <1>2, QuietLease DEF InitManager, DropRef, vars, camVars
<1>3. CASE ReleaseResources
  BY <1>3 DEF ReleaseResources
<1>4. ASSUME NEW t \in Thread, InCall(t) PROVE LeaseStep
  <2>1. CASE StartInitVi(t) \/ StreamStartNullVi(t) \/ StartDone(t) \/ ManagerErase(t)
    BY <2>1, QuietLease DEF StartInitVi, StreamStartNullVi, StartDone, ManagerErase, camVars
  <2> QED BY <1>4, <2>1, LeaseAllocateVpss, LeaseNextStream, LeaseStreamStart, LeaseFreeVenc,
             LeaseFreeGroup, LeaseFreeDevice DEF InCall
<1>5. ASSUME NEW t \in Thread, ManagerStop(t) PROVE LeaseStep
  BY <1>5, QuietLease DEF ManagerStop
<1>6. ASSUME NEW t \in Thread, Call(t) PROVE LeaseStep
  <2>1. ASSUME NEW c \in Cam,
               \/ \E cf \in Config : CreateCamera(t, c, cf)
               \/ GetCamera(t, c)
               \/ Stop(t, c)
               \/ \E id \in streams[c] : DestroyStream(t, c, id)
        PROVE  LeaseStep
    BY <2>1, QuietLease DEF CreateCamera, GetCamera, Stop, DestroyStream, ReleaseStreamChannel, camVars
  <2>2. CASE (\E id \in DOMAIN cameras : Destroy(t, id)) \/ DestroyAll(t) \/ ReleaseManager(t)
    BY <2>2, QuietLease DEF Destroy, DestroyAll, ReleaseManager, EnterManager, camVars
  <2>3. \A c \in Cam, s \in StreamCfg : ~CreateStream(t, c, s)
    BY DEF CreateStream
  <2> QED BY <1>6, <2>1, <2>2, <2>3, LeaseAllocateVi, LeaseDestructor DEF Call
<1> QED BY <1>1, <1>2, <1>3, <1>4, <1>5, <1>6 DEF Next

-----------------------------------------------------------------------------
LEMMA OwnedIsSound ==
  Owned => \A r \in Resource : /\ (\E c \in Cam : Holds(c, r)) => Taken(r)
                               /\ \A c, d \in Cam : Holds(c, r) /\ Holds(d, r) => c = d
  BY Kinds, NoneIsNoId DEF Owned, ViOwned, VpssOwned, VencOwned, Holds, Taken

LEMMA SoundInit == Init => Sound /\ LeaseOf = {}
<1> SUFFICES ASSUME Init PROVE Sound /\ LeaseOf = {}
  OBVIOUS
<1>1. TakenVenc = {} /\ viAlloc = {} /\ vpssAlloc = {}
  BY DEF Init, RmInitState, EmptyVenc, TakenVenc
<1>2. \A r \in Resource : ~Taken(r)
  BY <1>1 DEF Taken
<1>3. \A r \in Resource, c \in Cam : ~Holds(c, r)
  BY <1>2, OwnedInit, OwnedIsSound
<1> QED BY <1>2, <1>3 DEF Sound, LeaseOf

LEMMA SoundStep == ASSUME Sound, LeaseStep, Owned' PROVE Sound'
<1>1. \A r \in Resource : /\ (\E c \in Cam : Holds(c, r)') => Taken(r)'
                          /\ \A c, d \in Cam : Holds(c, r)' /\ Holds(d, r)' => c = d
  BY Kinds, NoneIsNoId DEF Owned, ViOwned, VpssOwned, VencOwned, Holds, Taken
<1>2. ASSUME NEW r \in Resource, Taken(r)' PROVE \E c \in Cam : Holds(c, r)'
  BY <1>2 DEF Sound, LeaseStep, Unmoved, Leased, Returned, Others
<1> QED BY <1>1, <1>2 DEF Sound

LEMMA AlwaysSound ==
  ASSUME Calls \cap {"create_stream", "release"} = {}
  PROVE  Spec => [](IInv /\ Owned /\ Tidy /\ Sound)
<1>1. IInv /\ Owned /\ Tidy /\ Sound /\ [Next]_vars /\ Owned' => Sound'
  BY EveryStepLeases, SoundStep
<1> QED BY <1>1, AlwaysTidy, SoundInit, PTL DEF Spec

\* Nothing gets lost: whatever the tables call taken is held by some camera, for
\* any number of cameras that start, fail to start and stop at the same time.
THEOREM TakenIsHeld ==
  ASSUME Calls \cap {"create_stream", "release"} = {}
  PROVE  Spec => []AllocatedIsHeld
<1>1. TypeOK /\ Sound => AllocatedIsHeld
  <2> SUFFICES ASSUME TypeOK, Sound PROVE AllocatedIsHeld
    OBVIOUS
  <2>1. \A d \in viAlloc : \E c \in Cam : vi[c] = d
    <3> SUFFICES ASSUME NEW d \in viAlloc PROVE \E c \in Cam : vi[c] = d
      OBVIOUS
    <3>1. <<"vi", d>> \in Resource /\ Taken(<<"vi", d>>)
      BY DEF Resource, Taken, TypeOK, RmTypeOK
    <3> QED BY <3>1 DEF Sound, Holds
  <2>2. \A g \in vpssAlloc : \E c \in Cam : vpss[c] = g
    <3> SUFFICES ASSUME NEW g \in vpssAlloc PROVE \E c \in Cam : vpss[c] = g
      OBVIOUS
    <3>1. <<"vpss", g>> \in Resource /\ Taken(<<"vpss", g>>)
      BY DEF Resource, Taken, TypeOK, RmTypeOK
    <3> QED BY <3>1 DEF Sound, Holds
  <2>3. \A ch \in TakenVenc : \E c \in Cam : ch \in Channels(c)
    <3> SUFFICES ASSUME NEW ch \in TakenVenc PROVE \E c \in Cam : ch \in Channels(c)
      OBVIOUS
    <3>1. <<"venc", ch>> \in Resource /\ Taken(<<"venc", ch>>)
      BY DEF Resource, Taken, TakenVenc
    <3> QED BY <3>1 DEF Sound, Holds
  <2> QED BY <2>1, <2>2, <2>3 DEF AllocatedIsHeld
<1> QED BY <1>1, AlwaysSound, PTL DEF IInv

\* The cameras with the tables implement the abstract lease: every step of any
\* thread is one grant of a free resource, one return by its holder, or no
\* change of the leases.
THEOREM CamerasLease ==
  ASSUME Calls \cap {"create_stream", "release"} = {}
  PROVE  Spec => ImplementsLease
<1>1. Init => L!LeaseInit
  BY SoundInit DEF L!LeaseInit
<1>2. /\ IInv /\ Owned /\ Tidy /\ Sound /\ Sound' /\ [Next]_vars
      => [L!LeaseNext]_LeaseOf
  BY EveryStepLeases, LeaseOfStep
<1> QED BY <1>1, <1>2, AlwaysSound, PTL DEF Spec, ImplementsLease, L!LeaseSpec


-----------------------------------------------------------------------------
(***************************************************************************)
(* A running camera is complete: for every number of cameras, threads and  *)
(* configured streams, as long as clients neither release the tables nor   *)
(* create or destroy streams of their own.                                 *)
(*                                                                         *)
(* What is complete at the end grows stream by stream (Built), while other *)
(* cameras take and give back channels of the same tables.                 *)
(***************************************************************************)
ChannelsOf(c, type) == {ch \in venc[c] : vencAlloc[ch] = type}
Wanted(c, type, k) == {i \in 1 .. k : VencTypeOf(cfg[c].streams[i]) = type}

\* The pipeline runs, and the first k of the configured streams.
Built(c, k) ==
  /\ vi[c] # None /\ vpss[c] # None /\ viPtr[c] = "on"
  /\ k \in 0 .. Len(cfg[c].streams)
  /\ streams[c] = {cfg[c].streams[i].id : i \in 1 .. k}
  /\ \A type \in VencType :
       Cardinality(ChannelsOf(c, type)) = Cardinality(Wanted(c, type, k))

BuiltCam(c) ==
  /\ running[c] => made[c]
  /\ running[c] /\ lock[c] = NoThread => Built(c, Len(cfg[c].streams))

BuiltAt(t) ==
  LET c == cam[t] IN
  /\ pc[t] \in {"alloc_vpss", "init_vi"} => vi[c] # None /\ venc[c] = {}
  /\ pc[t] = "init_vi" => vpss[c] # None
  /\ pc[t] \in {"init_streams", "stream_start"} => Built(c, idx[t] - 1)
  /\ pc[t] = "stream_start" =>
       /\ idx[t] <= Len(cfg[c].streams) /\ arg[t] = cfg[c].streams[idx[t]]
       /\ vencAlloc[pend[c]] = VencTypeOf(arg[t])

Building == (\A c \in Cam : BuiltCam(c)) /\ (\A t \in Thread : BuiltAt(t))

\* What a step that is about another camera leaves alone.
Untouched(d) ==
  /\ cfg'[d] = cfg[d] /\ made'[d] = made[d] /\ running'[d] = running[d] /\ lock'[d] = lock[d]
  /\ vi'[d] = vi[d] /\ vpss'[d] = vpss[d] /\ viPtr'[d] = viPtr[d] /\ streams'[d] = streams[d]
  /\ venc'[d] = venc[d] /\ pend'[d] = pend[d]
  /\ \A ch \in Channels(d) : vencAlloc'[ch] = vencAlloc[ch]

SameThread(u) == pc'[u] = pc[u] /\ cam'[u] = cam[u] /\ idx'[u] = idx[u] /\ arg'[u] = arg[u]

\* A step of thread t that is about camera c only.
OnlyCam(t, c) ==
  /\ \A u \in Thread \ {t} : SameThread(u) /\ (pc[u] \in Inside => cam[u] # c)
  /\ \A d \in Cam \ {c} : Untouched(d)

\* The steps of start that BuiltAt is about.
Busy == {"alloc_vpss", "init_vi", "init_streams", "stream_start"}

LEMMA BuiltStays ==
  ASSUME NEW d, Untouched(d), NEW k, Built(d, k) PROVE Built(d, k)'
<1>1. \A type : ChannelsOf(d, type)' = ChannelsOf(d, type)
  BY DEF Untouched, ChannelsOf, Channels
<1>2. \A type : Wanted(d, type, k)' = Wanted(d, type, k)
  BY DEF Untouched, Wanted
<1>3. streams'[d] = {cfg'[d].streams[i].id : i \in 1 .. k}
  BY DEF Untouched, Built
<1> QED BY <1>1, <1>2, <1>3 DEF Untouched, Built

LEMMA CamStays ==
  ASSUME NEW d, Untouched(d), BuiltCam(d) PROVE BuiltCam(d)'
<1>1. running'[d] => made'[d]
  BY DEF Untouched, BuiltCam
<1>2. ASSUME running'[d], lock'[d] = NoThread PROVE Built(d, Len(cfg[d].streams))'
  <2>1. Built(d, Len(cfg[d].streams))
    BY <1>2 DEF Untouched, BuiltCam
  <2>2. ASSUME NEW k, k = Len(cfg[d].streams) PROVE Built(d, k)'
    BY <2>1, <2>2, BuiltStays
  <2>3. cfg'[d] = cfg[d]
    BY DEF Untouched
  <2> QED BY <2>2, <2>3
<1> QED BY <1>1, <1>2 DEF BuiltCam

LEMMA NotBusy == ASSUME NEW u, pc[u] \notin Busy PROVE BuiltAt(u)
  BY DEF BuiltAt, Busy

LEMMA BusyInside == Busy \subseteq Inside
  BY DEF Busy, Inside, Pc

LEMMA AtStays ==
  ASSUME IInv, NEW u \in Thread, SameThread(u), Untouched(cam[u]), BuiltAt(u)
  PROVE  BuiltAt(u)'
<1> DEFINE c == cam[u]
<1>1. pc'[u] = pc[u] /\ cam'[u] = c /\ idx'[u] = idx[u] /\ arg'[u] = arg[u]
  BY DEF SameThread
<1>2. ASSUME pc[u] \in {"init_streams", "stream_start"} PROVE Built(c, idx[u] - 1)'
  <2>1. Built(c, idx[u] - 1)
    BY <1>2 DEF BuiltAt
  <2>2. ASSUME NEW k, k = idx[u] - 1, NEW d, d = c PROVE Built(d, k)'
    BY <2>1, <2>2, BuiltStays
  <2> QED BY <2>2, <1>1
<1>3. ASSUME pc[u] = "stream_start"
      PROVE  vencAlloc'[pend'[c]] = vencAlloc[pend[c]]
  <2>1. pend[c] \in Channels(c)
    BY <1>3, NoneIsNoId DEF IInv, Locals, Channels
  <2> QED BY <2>1 DEF Untouched
<1>4. vi'[c] = vi[c] /\ vpss'[c] = vpss[c] /\ venc'[c] = venc[c] /\ cfg'[c] = cfg[c]
  BY DEF Untouched
<1>5. pc'[u] \in {"alloc_vpss", "init_vi"} => vi'[c] # None /\ venc'[c] = {}
  BY <1>1, <1>4 DEF BuiltAt
<1>6. pc'[u] = "init_vi" => vpss'[c] # None
  BY <1>1, <1>4 DEF BuiltAt
<1>7. ASSUME pc'[u] = "stream_start"
      PROVE  /\ idx'[u] <= Len(cfg'[c].streams) /\ arg'[u] = cfg'[c].streams[idx'[u]]
             /\ vencAlloc'[pend'[c]] = VencTypeOf(arg'[u])
  BY <1>1, <1>3, <1>4, <1>7 DEF BuiltAt
<1> QED BY <1>1, <1>2, <1>5, <1>6, <1>7 DEF BuiltAt

\* A step about one camera only has to see to that camera and its thread.
LEMMA OnlyBuild ==
  ASSUME IInv, Building, NEW t \in Thread, NEW c \in Cam, OnlyCam(t, c),
         BuiltCam(c)', BuiltAt(t)'
  PROVE  Building'
<1>1. \A d \in Cam : BuiltCam(d)'
  BY CamStays DEF OnlyCam, Building
<1>2. ASSUME NEW u \in Thread \ {t} PROVE BuiltAt(u)'
  <2>1. CASE pc[u] \in Busy
    <3>1. cam[u] \in Cam \ {c}
      BY <2>1, BusyInside DEF IInv, Control, OnlyCam
    <3> QED BY <3>1, AtStays DEF OnlyCam, Building
  <2>2. CASE pc[u] \notin Busy
    <3>1. pc'[u] \notin Busy
      BY <2>2 DEF OnlyCam, SameThread
    <3> QED BY <3>1 DEF BuiltAt, Busy
  <2> QED BY <2>1, <2>2
<1> QED BY <1>1, <1>2 DEF Building

\* A step that is about no camera.
LEMMA QuietBuild ==
  ASSUME IInv, Building, \A d \in Cam : Untouched(d),
         \A u \in Thread : SameThread(u) \/ pc'[u] \notin Busy
  PROVE  Building'
<1>1. \A d \in Cam : BuiltCam(d)'
  BY CamStays DEF Building
<1>2. ASSUME NEW u \in Thread PROVE BuiltAt(u)'
  <2>1. CASE pc'[u] \in Busy
    <3>1. SameThread(u) /\ cam[u] \in Cam
      BY <2>1, BusyInside DEF SameThread, IInv, Control
    <3> QED BY <3>1, AtStays DEF Building
  <2>2. CASE pc'[u] \notin Busy
    BY <2>2 DEF BuiltAt, Busy
  <2> QED BY <2>1, <2>2
<1> QED BY <1>1, <1>2 DEF Building

\* What a call of the tables for camera c leaves of the others' channels.
OwnTables(c) ==
  \/ UNCHANGED vencAlloc
  \/ \E type \in VencType, ch \in VencChn : AllocateVenc(type, ch)
  \/ \E ch \in Channels(c) : FreeVenc(ch)

LEMMA OthersChannels ==
  ASSUME IInv, Owned, NEW c \in Cam, OwnTables(c)
  PROVE  \A d \in Cam \ {c} : \A ch \in Channels(d) : vencAlloc'[ch] = vencAlloc[ch]
<1> SUFFICES ASSUME NEW d \in Cam \ {c}, NEW ch \in Channels(d)
             PROVE  vencAlloc'[ch] = vencAlloc[ch]
  OBVIOUS
<1>1. ch \in TakenVenc /\ ch \in VencChn /\ ch \notin Channels(c)
  BY DEF Owned, VencOwned, TakenVenc
<1>2. vencAlloc \in [VencChn -> VencType \cup {NoType}]
  BY DEF IInv, TypeOK, RmTypeOK
<1>3. ASSUME NEW type \in VencType, NEW x \in VencChn, AllocateVenc(type, x)
      PROVE  vencAlloc'[ch] = vencAlloc[ch]
  BY <1>1, <1>2, <1>3 DEF AllocateVenc, VencGrant, IsFirst
<1>4. ASSUME NEW x \in Channels(c), FreeVenc(x) PROVE vencAlloc'[ch] = vencAlloc[ch]
  BY <1>1, <1>2, <1>4 DEF FreeVenc
<1> QED BY <1>3, <1>4 DEF OwnTables

\* One stream more.
LEMMA OneMore ==
  ASSUME IInv, Owned, NEW c \in Cam, NEW k \in Nat, Built(c, k), k + 1 <= Len(cfg[c].streams),
         cfg[c].streams \in Seq(StreamCfg),
         NEW s, s = cfg[c].streams[k + 1],
         NEW ch \in VencChn, ch \notin venc[c], vencAlloc[ch] = VencTypeOf(s),
         UNCHANGED <<vencAlloc, cfg, vi, vpss, viPtr>>,
         venc'[c] = venc[c] \cup {ch}, streams'[c] = streams[c] \cup {s.id}
  PROVE  Built(c, k + 1)'
<1>1. Len(cfg[c].streams) \in Nat
  OBVIOUS
<1>2. (1 .. k + 1) = (1 .. k) \cup {k + 1} /\ k + 1 \notin 1 .. k /\ k + 1 \in 0 .. Len(cfg[c].streams)
  BY <1>1
<1>3. streams'[c] = {cfg'[c].streams[i].id : i \in 1 .. k + 1}
  BY <1>2 DEF Built
<1>4. ASSUME NEW type \in VencType
      PROVE  Cardinality(ChannelsOf(c, type)') = Cardinality(Wanted(c, type, k + 1)')
  <2> DEFINE C == ChannelsOf(c, type)
             W == Wanted(c, type, k)
  <2>1. IsFiniteSet(C)
    <3>1. C \in SUBSET (0 .. MaxVenc - 1)
      BY DEF ChannelsOf, IInv, TypeOK, InstanceTypeOK, VencChn
    <3>2. IsFiniteSet(0 .. MaxVenc - 1)
      BY LimitsAssumption, FS_Interval
    <3> QED BY <3>1, <3>2, FS_Subset
  <2>2. IsFiniteSet(W)
    <3>1. W \in SUBSET (1 .. k)
      BY DEF Wanted
    <3>2. IsFiniteSet(1 .. k)
      BY FS_Interval
    <3> QED BY <3>1, <3>2, FS_Subset
  <2>3. Cardinality(C) = Cardinality(W)
    BY DEF Built
  <2>4. CASE VencTypeOf(s) = type
    <3>1. ChannelsOf(c, type)' = C \cup {ch} /\ ch \notin C
      BY <2>4 DEF ChannelsOf
    <3>2. Wanted(c, type, k + 1)' = W \cup {k + 1} /\ k + 1 \notin W
      BY <1>2, <2>4 DEF Wanted
    <3> HIDE DEF C, W
    <3>3. Cardinality(C \cup {ch}) = Cardinality(C) + 1
      BY <2>1, <3>1, FS_AddElement
    <3>4. Cardinality(W \cup {k + 1}) = Cardinality(W) + 1
      BY <2>2, <3>2, FS_AddElement
    <3> QED BY <2>3, <3>1, <3>2, <3>3, <3>4
  <2>5. CASE VencTypeOf(s) # type
    <3>1. ChannelsOf(c, type)' = C
      BY <2>5 DEF ChannelsOf
    <3>2. Wanted(c, type, k + 1)' = W
      BY <1>2, <2>5 DEF Wanted
    <3> QED BY <2>3, <3>1, <3>2
  <2> QED BY <2>4, <2>5
<1>5. k + 1 \in 0 .. Len(cfg'[c].streams)
  BY <1>2
<1>6. vi'[c] # None /\ vpss'[c] # None /\ viPtr'[c] = "on"
  BY DEF Built
<1> QED BY <1>3, <1>4, <1>5, <1>6 DEF Built

-----------------------------------------------------------------------------
(* The steps of start.                                                      *)

\* What a thread inside a camera knows of it.
LEMMA BusyCam ==
  ASSUME IInv, NEW t \in Thread, pc[t] \in Inside
  PROVE  /\ cam[t] \in Cam /\ lock[cam[t]] = t /\ t # NoThread /\ made[cam[t]]
         /\ cfg[cam[t]] \in Config /\ cfg[cam[t]].streams \in Seq(StreamCfg)
         /\ \A u \in Thread \ {t} : pc[u] \in Inside => cam[u] # cam[t]
  BY CameraAssumption DEF IInv, Control, Objects

\* A step inside a call that goes on.
LEMMA GoesOn ==
  ASSUME IInv, Owned, Building, NEW t \in Thread, pc[t] \in Inside,
         NEW c \in Cam, c = cam[t], NEW l \in Inside,
         pc' = [pc EXCEPT ![t] = l], UNCHANGED <<made, cfg, running, lock, cam>>,
         \A u \in Thread \ {t} : idx'[u] = idx[u] /\ arg'[u] = arg[u],
         \A d \in Cam \ {c} :
           /\ vi'[d] = vi[d] /\ vpss'[d] = vpss[d] /\ viPtr'[d] = viPtr[d]
           /\ streams'[d] = streams[d] /\ venc'[d] = venc[d] /\ pend'[d] = pend[d],
         OwnTables(c), BuiltAt(t)'
  PROVE  Building'
<1>1. OnlyCam(t, c)
  <2>1. \A u \in Thread \ {t} : SameThread(u) /\ (pc[u] \in Inside => cam[u] # c)
    BY BusyCam DEF SameThread, IInv, TypeOK, ThreadTypeOK
  <2>2. \A d \in Cam \ {c} : Untouched(d)
    BY OthersChannels DEF Untouched
  <2> QED BY <2>1, <2>2 DEF OnlyCam
<1>2. BuiltCam(c)'
  <2>1. lock'[c] # NoThread /\ made'[c]
    BY BusyCam
  <2> QED BY <2>1 DEF BuiltCam
<1> QED BY <1>1, <1>2, OnlyBuild

LEMMA BuildAllocateVpss ==
  ASSUME IInv, Owned, Tidy, Building, NEW t \in Thread, StartAllocateVpss(t),
         NEW c \in Cam, c = cam[t]
  PROVE  Building'
<1>1. pc[t] = "alloc_vpss" /\ pc[t] \in Inside /\ {"init_vi", "free_venc"} \subseteq Inside
  BY DEF StartAllocateVpss, Inside, Pc
<1>3. /\ UNCHANGED <<made, cfg, running, lock, cam, idx, arg, venc, pend, streams, viPtr>>
      /\ \A d \in Cam \ {c} : vi'[d] = vi[d] /\ vpss'[d] = vpss[d]
  BY DEF StartAllocateVpss, RollbackVi, objVars, IInv, TypeOK, InstanceTypeOK
<1>4. OwnTables(c)
  BY DEF StartAllocateVpss, RollbackVi, AllocateVpss, FreeVi, OwnTables
<1>5. CASE pc' = [pc EXCEPT ![t] = "free_venc"]
  <2>1. pc'[t] = "free_venc"
    BY <1>5 DEF IInv, TypeOK, ThreadTypeOK
  <2>2. BuiltAt(t)'
    BY <2>1 DEF BuiltAt
  <2> QED BY <1>1, <1>3, <1>4, <1>5, <2>2, GoesOn
<1>6. ASSUME NEW g \in VpssGroup, vpss' = [vpss EXCEPT ![c] = g], UNCHANGED vi,
             pc' = [pc EXCEPT ![t] = "init_vi"]
      PROVE  Building'
  <2>1. pc'[t] = "init_vi" /\ cam'[t] = c
    BY <1>3, <1>6 DEF IInv, TypeOK, ThreadTypeOK
  <2>2. vpss'[c] # None /\ vi'[c] # None /\ venc'[c] = {}
    BY <1>1, <1>3, <1>6, NoneIsNoId DEF Building, BuiltAt, IInv, TypeOK, InstanceTypeOK
  <2>3. BuiltAt(t)'
    BY <2>1, <2>2 DEF BuiltAt
  <2> QED BY <1>1, <1>3, <1>4, <1>6, <2>3, GoesOn
<1> QED BY <1>5, <1>6 DEF StartAllocateVpss, Goto

LEMMA BuildInitVi ==
  ASSUME IInv, Owned, Tidy, Building, NEW t \in Thread, StartInitVi(t),
         NEW c \in Cam, c = cam[t]
  PROVE  Building'
<1>1. pc[t] = "init_vi" /\ pc[t] \in Inside /\ {"init_streams", "free_venc"} \subseteq Inside
  BY DEF StartInitVi, Inside, Pc
<1>2. streams[c] = {} /\ cfg[c].streams \in Seq(StreamCfg)
  BY <1>1, BusyCam, InCamera DEF TidyAt, NoStreamAt
<1>3. /\ UNCHANGED <<rmVars, made, cfg, running, lock, cam, arg, vi, vpss, venc, pend, streams>>
      /\ \A d \in Cam \ {c} : viPtr'[d] = viPtr[d]
      /\ \A u \in Thread \ {t} : idx'[u] = idx[u]
  BY DEF StartInitVi, objVars, IInv, TypeOK, InstanceTypeOK, ThreadTypeOK
<1>4. OwnTables(c)
  BY <1>3 DEF OwnTables, rmVars
<1>5. CASE pc' = [pc EXCEPT ![t] = "free_venc"]
  <2>1. pc'[t] = "free_venc"
    BY <1>5 DEF IInv, TypeOK, ThreadTypeOK
  <2>2. BuiltAt(t)'
    BY <2>1 DEF BuiltAt
  <2> QED BY <1>1, <1>2, <1>3, <1>4, <1>5, <2>2, GoesOn
<1>6. CASE /\ pc' = [pc EXCEPT ![t] = "init_streams"] /\ idx' = [idx EXCEPT ![t] = 1]
           /\ viPtr' = [viPtr EXCEPT ![c] = "on"]
  <2>1. pc'[t] = "init_streams" /\ cam'[t] = c /\ idx'[t] = 1
    BY <1>3, <1>6 DEF IInv, TypeOK, ThreadTypeOK
  <2>2. vpss'[c] # None /\ vi'[c] # None /\ venc'[c] = {} /\ viPtr'[c] = "on" /\ streams'[c] = {}
    BY <1>1, <1>2, <1>3, <1>6 DEF Building, BuiltAt, IInv, TypeOK, InstanceTypeOK
  <2>3. Built(c, 0)'
    <3>1. \A type : ChannelsOf(c, type)' = {} /\ Wanted(c, type, 0)' = {}
      BY <2>2 DEF ChannelsOf, Wanted
    <3>2. cfg'[c] = cfg[c] /\ 0 \in 0 .. Len(cfg[c].streams)
      BY <1>2, <1>3
    <3>3. {cfg'[c].streams[i].id : i \in 1 .. 0} = {}
      OBVIOUS
    <3> QED BY <2>2, <3>1, <3>2, <3>3 DEF Built
  <2>4. Built(c, idx[t] - 1)'
    BY <2>1, <2>3
  <2>5. BuiltAt(t)'
    BY <2>1, <2>4 DEF BuiltAt
  <2> QED BY <1>1, <1>2, <1>3, <1>4, <1>6, <2>5, GoesOn
<1> QED BY <1>5, <1>6 DEF StartInitVi, Goto

LEMMA BuildNextStream ==
  ASSUME IInv, Owned, Tidy, Building, NEW t \in Thread, StartNextStream(t),
         NEW c \in Cam, c = cam[t]
  PROVE  Building'
<1> DEFINE s == cfg[c].streams[idx[t]]
<1>1. /\ pc[t] = "init_streams" /\ pc[t] \in Inside /\ {"stream_start", "free_venc"} \subseteq Inside
      /\ ~(idx[t] > Len(cfg[c].streams))
  BY DEF StartNextStream, AllStreamsStarted, Inside, Pc
<1>2. cfg[c].streams \in Seq(StreamCfg)
  BY <1>1, BusyCam
<1>3. /\ UNCHANGED <<made, cfg, running, lock, cam, idx, vi, vpss, venc>>
      /\ \A d \in Cam \ {c} : viPtr'[d] = viPtr[d] /\ pend'[d] = pend[d] /\ streams'[d] = streams[d]
      /\ \A u \in Thread \ {t} : arg'[u] = arg[u]
  BY DEF StartNextStream, AbandonStreams, Granted, objVars, IInv, TypeOK, InstanceTypeOK, ThreadTypeOK
<1>4. OwnTables(c)
  BY VencTypeIsType DEF StartNextStream, OwnTables, rmVars
<1>5. CASE pc' = [pc EXCEPT ![t] = "free_venc"]
  <2>1. pc'[t] = "free_venc"
    BY <1>5 DEF IInv, TypeOK, ThreadTypeOK
  <2>2. BuiltAt(t)'
    BY <2>1 DEF BuiltAt
  <2> QED BY <1>1, <1>2, <1>3, <1>4, <1>5, <2>2, GoesOn
<1>6. ASSUME NEW ch \in VencChn, AllocateVenc(VencTypeOf(s), ch), pend' = [pend EXCEPT ![c] = ch],
             arg' = [arg EXCEPT ![t] = s], pc' = [pc EXCEPT ![t] = "stream_start"],
             UNCHANGED <<streams, viPtr>>
      PROVE  Building'
  <2>1. pc'[t] = "stream_start" /\ cam'[t] = c /\ idx'[t] = idx[t] /\ arg'[t] = s /\ pend'[c] = ch
    BY <1>2, <1>3, <1>6 DEF IInv, TypeOK, ThreadTypeOK, InstanceTypeOK
  <2>2. vencAlloc'[ch] = VencTypeOf(s) /\ ch \notin TakenVenc
    BY <1>6 DEF AllocateVenc, VencGrant, IsFirst, IInv, TypeOK, RmTypeOK
  <2>k. PICK k : k = idx[t] - 1
    OBVIOUS
  <2>3. Built(c, k)'
    <3>1. \A x \in venc[c] : vencAlloc'[x] = vencAlloc[x]
      <4>1. \A x \in venc[c] : x \in VencChn /\ x # ch
        BY <2>2 DEF Owned, VencOwned, Channels, TakenVenc
      <4> QED BY <1>6, <4>1 DEF AllocateVenc, IInv, TypeOK, RmTypeOK
    <3>2. Built(c, k)
      BY <1>1, <2>k DEF Building, BuiltAt
    <3>3. \A type : ChannelsOf(c, type)' = ChannelsOf(c, type)
      BY <1>3, <3>1 DEF ChannelsOf
    <3>4. \A type : Wanted(c, type, k)' = Wanted(c, type, k)
      BY <1>3 DEF Wanted
    <3> QED BY <1>3, <1>6, <3>2, <3>3, <3>4 DEF Built
  <2>4. idx[t] <= Len(cfg[c].streams)
    BY <1>1, <1>2 DEF IInv, TypeOK, ThreadTypeOK
  <2>5. BuiltAt(t)'
    <3>1. cfg'[c] = cfg[c]
      BY <1>3
    <3> QED BY <2>1, <2>2, <2>k, <2>3, <2>4, <3>1 DEF BuiltAt
  <2> QED BY <1>1, <1>2, <1>3, <1>4, <1>6, <2>5, GoesOn
<1>7. \/ pc' = [pc EXCEPT ![t] = "free_venc"]
      \/ \E ch \in VencChn :
           /\ AllocateVenc(VencTypeOf(s), ch) /\ pend' = [pend EXCEPT ![c] = ch]
           /\ arg' = [arg EXCEPT ![t] = s] /\ pc' = [pc EXCEPT ![t] = "stream_start"]
           /\ UNCHANGED <<streams, viPtr>>
  BY DEF StartNextStream, AbandonStreams, Granted, Goto
<1> HIDE DEF s
<1> QED BY <1>5, <1>6, <1>7

LEMMA BuildStreamStart ==
  ASSUME IInv, Owned, Tidy, Building, NEW t \in Thread, StreamStart(t),
         NEW c \in Cam, c = cam[t]
  PROVE  Building'
<1>1. /\ pc[t] = "stream_start" /\ pc[t] \in Inside
      /\ {"init_streams", "free_venc"} \subseteq Inside
  BY DEF StreamStart, Inside, Pc
<1>2. op[t] # "create_stream" /\ pend[c] \in VencChn /\ pend[c] \in Channels(c)
  BY <1>1, InCamera, NoneIsNoId DEF TidyAt, IInv, Locals, Channels
<1>3. /\ UNCHANGED <<made, cfg, running, lock, cam, arg, vi, vpss>>
      /\ \A d \in Cam \ {c} : /\ viPtr'[d] = viPtr[d] /\ pend'[d] = pend[d]
                             /\ streams'[d] = streams[d] /\ venc'[d] = venc[d]
      /\ \A u \in Thread \ {t} : idx'[u] = idx[u]
  BY <1>2 DEF StreamStart, AbandonStreams, objVars, IInv, TypeOK, InstanceTypeOK, ThreadTypeOK
<1>4. OwnTables(c)
  BY <1>2 DEF StreamStart, OwnTables, rmVars
<1>5. CASE pc' = [pc EXCEPT ![t] = "free_venc"]
  <2>1. pc'[t] = "free_venc"
    BY <1>5 DEF IInv, TypeOK, ThreadTypeOK
  <2>2. BuiltAt(t)'
    BY <2>1 DEF BuiltAt
  <2> QED BY <1>1, <1>3, <1>4, <1>5, <2>2, GoesOn
<1>6. CASE /\ pc' = [pc EXCEPT ![t] = "init_streams"] /\ idx' = [idx EXCEPT ![t] = @ + 1]
           /\ streams' = [streams EXCEPT ![c] = @ \cup {arg[t].id}]
           /\ venc' = [venc EXCEPT ![c] = @ \cup {pend[c]}]
           /\ UNCHANGED <<rmVars, viPtr>>
  <2>k. PICK k : k = idx[t] - 1
    OBVIOUS
  <2>s. PICK s : s = arg[t]
    OBVIOUS
  <2>c. PICK ch \in VencChn : ch = pend[c]
    BY <1>2
  <2>1. pc'[t] = "init_streams" /\ cam'[t] = c /\ idx'[t] = k + 2
    BY <1>3, <1>6, <2>k DEF IInv, TypeOK, ThreadTypeOK
  <2>2. cfg[c].streams \in Seq(StreamCfg)
    BY <1>1, BusyCam
  <2>3. /\ Built(c, k) /\ k + 1 <= Len(cfg[c].streams) /\ s = cfg[c].streams[k + 1]
        /\ vencAlloc[ch] = VencTypeOf(s) /\ k \in Nat
    <3>1. idx[t] = k + 1
      BY <2>k DEF IInv, TypeOK, ThreadTypeOK
    <3>2. Built(c, k) /\ k + 1 <= Len(cfg[c].streams) /\ s = cfg[c].streams[k + 1]
          /\ vencAlloc[ch] = VencTypeOf(s)
      BY <1>1, <2>k, <2>s, <2>c, <3>1 DEF Building, BuiltAt
    <3> QED BY <2>2, <3>2 DEF Built
  <2>4. ch \notin venc[c]
    BY <2>c DEF Owned, VencOwned
  <2>5. venc'[c] = venc[c] \cup {ch} /\ streams'[c] = streams[c] \cup {s.id}
    BY <1>6, <2>s, <2>c DEF IInv, TypeOK, InstanceTypeOK
  <2>6. UNCHANGED <<vencAlloc, cfg, vi, vpss, viPtr>>
    BY <1>3, <1>6 DEF rmVars
  <2>7. Built(c, k + 1)'
    BY <2>2, <2>3, <2>4, <2>5, <2>6, OneMore
  <2>8. Built(c, idx[t] - 1)'
    <3>1. idx'[t] - 1 = k + 1
      BY <2>1, <2>3
    <3> QED BY <2>7, <3>1
  <2>9. BuiltAt(t)'
    BY <2>1, <2>8 DEF BuiltAt
  <2> QED BY <1>1, <1>3, <1>4, <1>6, <2>9, GoesOn
<1> QED BY <1>2, <1>5, <1>6 DEF StreamStart, AbandonStreams, Goto

\* free_resources, up to its last step
LEMMA BuildFree ==
  ASSUME IInv, Owned, Tidy, Building, NEW t \in Thread, FreeNextVenc(t) \/ FreeGroup(t),
         NEW c \in Cam, c = cam[t]
  PROVE  Building'
<1>1. pc[t] \in {"free_venc", "free_vpss"} /\ {"free_venc", "free_vpss", "free_vi"} \subseteq Inside
  BY DEF FreeNextVenc, FreeGroup, Inside, Pc
<1>2. /\ UNCHANGED <<made, cfg, running, lock, cam, idx, arg, vi, pend, streams, viPtr>>
      /\ \A d \in Cam \ {c} : vpss'[d] = vpss[d] /\ venc'[d] = venc[d]
  BY DEF FreeNextVenc, FreeGroup, ForgetChannel, objVars, IInv, TypeOK, InstanceTypeOK
<1>3. OwnTables(c)
  BY DEF FreeNextVenc, FreeGroup, FreeVpss, OwnTables, Channels, rmVars
<1>4. PICK l \in {"free_venc", "free_vpss", "free_vi"} : pc' = [pc EXCEPT ![t] = l]
  <2>1. pc[t] = "free_venc" => pc = [pc EXCEPT ![t] = "free_venc"]
    BY DEF IInv, TypeOK, ThreadTypeOK
  <2> QED BY <2>1 DEF FreeNextVenc, FreeGroup, ForgetChannel, Goto
<1>5. BuiltAt(t)'
  <2>1. pc'[t] = l
    BY <1>4 DEF IInv, TypeOK, ThreadTypeOK
  <2> QED BY <2>1 DEF BuiltAt
<1> QED BY <1>1, <1>2, <1>3, <1>4, <1>5, GoesOn

\* The steps that leave the camera
LEMMA BuildLeave ==
  ASSUME IInv, Owned, Tidy, Building, NEW t \in Thread, StartDone(t) \/ FreeDevice(t),
         NEW c \in Cam, c = cam[t]
  PROVE  Building'
<1>1. pc[t] \in {"init_streams", "free_vi"} /\ pc[t] \in Inside
  BY DEF StartDone, FreeDevice, Inside, Pc
<1>2. /\ UNCHANGED <<vpss, venc, pend, streams, vencAlloc>>
      /\ \A d \in Cam \ {c} : /\ made'[d] = made[d] /\ cfg'[d] = cfg[d] /\ running'[d] = running[d]
                             /\ lock'[d] = lock[d] /\ vi'[d] = vi[d] /\ viPtr'[d] = viPtr[d]
  BY DEF StartDone, FreeDevice, FreeVi, Unlock, objVars, rmVars,
         IInv, TypeOK, InstanceTypeOK, ObjectTypeOK
<1>3. /\ pc'[t] \in {"idle", "next_camera"}
      /\ \A u \in Thread \ {t} : SameThread(u)
  BY DEF StartDone, FreeDevice, Return, Goto, SameThread, IInv, TypeOK, ThreadTypeOK
<1>4. OnlyCam(t, c)
  BY <1>1, <1>2, <1>3, BusyCam DEF OnlyCam, Untouched
<1>5. BuiltAt(t)'
  BY <1>3 DEF BuiltAt
<1>6. CASE FreeDevice(t)
  <2>1. ~running'[c]
    BY <1>6 DEF FreeDevice, IInv, TypeOK, InstanceTypeOK
  <2>2. BuiltCam(c)'
    BY <2>1 DEF BuiltCam
  <2> QED BY <1>4, <1>5, <2>2, OnlyBuild
<1>7. CASE StartDone(t)
  <2>1. /\ pc[t] = "init_streams" /\ idx[t] > Len(cfg[c].streams)
        /\ UNCHANGED <<made, cfg, vi, viPtr>>
    BY <1>7 DEF StartDone, AllStreamsStarted, objVars
  <2>2. cfg[c].streams \in Seq(StreamCfg) /\ made[c]
    BY <1>1, BusyCam
  <2>3. Built(c, Len(cfg[c].streams))
    <3>1. Built(c, idx[t] - 1)
      BY <2>1 DEF Building, BuiltAt
    <3>2. idx[t] - 1 = Len(cfg[c].streams)
      BY <2>1, <2>2, <3>1 DEF Built, IInv, TypeOK, ThreadTypeOK
    <3> QED BY <3>1, <3>2
  <2>4. PICK k : k = Len(cfg[c].streams)
    OBVIOUS
  <2>5. Built(c, k)'
    <3>1. Built(c, k)
      BY <2>3, <2>4
    <3>2. \A type : ChannelsOf(c, type)' = ChannelsOf(c, type) /\ Wanted(c, type, k)' = Wanted(c, type, k)
      BY <1>2, <2>1 DEF ChannelsOf, Wanted
    <3> QED BY <1>2, <2>1, <3>1, <3>2 DEF Built
  <2>6. BuiltCam(c)'
    BY <2>1, <2>2, <2>4, <2>5 DEF BuiltCam
  <2> QED BY <1>4, <1>5, <2>6, OnlyBuild
<1> QED BY <1>6, <1>7

-----------------------------------------------------------------------------
(* The other steps.                                                         *)

\* A thread enters a camera that nobody is in.
LEMMA BuildEnter ==
  ASSUME IInv, Owned, Tidy, Building, NEW t \in Thread, pc[t] \notin Inside,
         NEW c \in Cam, lock[c] = NoThread, lock' = [lock EXCEPT ![c] = t],
         NEW l \in {"alloc_vpss", "free_venc"}, pc' = [pc EXCEPT ![t] = l],
         cam' = [cam EXCEPT ![t] = c], made[c],
         UNCHANGED <<made, cfg, running, idx, arg, vpss, viPtr, venc, pend, vencAlloc>>,
         \A d \in Cam \ {c} : vi'[d] = vi[d] /\ streams'[d] = streams[d],
         l = "alloc_vpss" => vi'[c] # None /\ venc[c] = {}
  PROVE  Building'
<1>1. pc'[t] = l /\ cam'[t] = c /\ lock'[c] # NoThread
  BY CameraAssumption DEF IInv, TypeOK, InstanceTypeOK, ThreadTypeOK
<1>2. OnlyCam(t, c)
  <2>1. \A u \in Thread \ {t} : SameThread(u)
    BY DEF SameThread, IInv, TypeOK, ThreadTypeOK
  <2>2. \A u \in Thread : pc[u] \in Inside => cam[u] # c
    BY CameraAssumption DEF IInv, Control
  <2>3. \A d \in Cam \ {c} : lock'[d] = lock[d]
    BY DEF IInv, TypeOK, InstanceTypeOK
  <2> QED BY <2>1, <2>2, <2>3 DEF OnlyCam, Untouched
<1>3. BuiltCam(c)'
  BY <1>1 DEF BuiltCam
<1>4. BuiltAt(t)'
  BY <1>1 DEF BuiltAt
<1> QED BY <1>2, <1>3, <1>4, OnlyBuild

LEMMA BuildAllocateVi ==
  ASSUME IInv, Owned, Tidy, Building, NEW t \in Thread, NEW c \in Cam, StartAllocateVi(t, c)
  PROVE  Building'
<1>1. /\ pc[t] = "idle" /\ lock[c] = NoThread /\ made[c] /\ ~running[c]
      /\ lock' = [lock EXCEPT ![c] = t] /\ cam' = [cam EXCEPT ![t] = c]
      /\ UNCHANGED <<made, cfg, running, idx, arg, vpss, viPtr, venc, pend, streams, vencAlloc>>
      /\ \A d \in Cam \ {c} : vi'[d] = vi[d]
  BY DEF StartAllocateVi, Idle, Callable, Unlocked, Lock, Enter, AllocateVi, rmVars, objVars,
         IInv, TypeOK, InstanceTypeOK
<1>2. pc[t] \notin Inside /\ venc[c] = {}
  BY <1>1 DEF Inside, Tidy, TidyCam
<1>3. CASE pc' = [pc EXCEPT ![t] = "free_venc"]
  BY <1>1, <1>2, <1>3, BuildEnter
<1>4. ASSUME NEW d \in ViDevice, vi' = [vi EXCEPT ![c] = d], pc' = [pc EXCEPT ![t] = "alloc_vpss"]
      PROVE  Building'
  <2>1. vi'[c] # None
    BY <1>4, NoneIsNoId DEF IInv, TypeOK, InstanceTypeOK
  <2> QED BY <1>1, <1>2, <1>4, <2>1, BuildEnter
<1> QED BY <1>3, <1>4 DEF StartAllocateVi, Enter, Goto

LEMMA BuildBeginStop ==
  ASSUME IInv, Owned, Tidy, Building, NEW t \in Thread, pc[t] \notin Inside,
         NEW c \in Cam, NEW o, BeginStop(t, c, o),
         UNCHANGED <<made, cfg, running, idx, arg, vi, vpss, viPtr, venc, pend, vencAlloc>>
  PROVE  Building'
<1>1. /\ lock[c] = NoThread /\ running[c] /\ lock' = [lock EXCEPT ![c] = t]
      /\ cam' = [cam EXCEPT ![t] = c] /\ pc' = [pc EXCEPT ![t] = "free_venc"]
      /\ \A d \in Cam \ {c} : streams'[d] = streams[d]
  BY DEF BeginStop, Unlocked, Lock, Enter, Goto, IInv, TypeOK, InstanceTypeOK
<1>2. made[c]
  BY <1>1 DEF Building, BuiltCam
<1> QED BY <1>1, <1>2, BuildEnter

\* A camera is made, or one that is not running is destructed.
LEMMA BuildObject ==
  ASSUME IInv, Owned, Tidy, Building, NEW t \in Thread, NEW c \in Cam,
         \/ \E cf \in Config : CreateCamera(t, c, cf)
         \/ Destructor(t, c) /\ ~running[c]
  PROVE  Building'
<1>1. ~running[c] /\ \A u \in Thread : pc[u] \in Inside => cam[u] # c
  <2>1. CASE Destructor(t, c) /\ ~running[c]
    BY <2>1 DEF Destructor, Unreferenced
  <2>2. CASE ~made[c]
    BY <2>2, CameraAssumption DEF IInv, Control, Objects, Building, BuiltCam
  <2> QED BY <2>1, <2>2 DEF CreateCamera
<1>2. /\ UNCHANGED <<rmVars, running, lock, vi, vpss, streams, pend, pc, cam, idx, arg>>
      /\ \A d \in Cam \ {c} : /\ made'[d] = made[d] /\ cfg'[d] = cfg[d]
                             /\ venc'[d] = venc[d] /\ viPtr'[d] = viPtr[d]
  BY DEF CreateCamera, Destructor, BeginStop, camVars, thVars, IInv, TypeOK, InstanceTypeOK, ObjectTypeOK
<1>3. OnlyCam(t, c)
  BY <1>1, <1>2 DEF OnlyCam, SameThread, Untouched, rmVars
<1>4. BuiltCam(c)'
  BY <1>1, <1>2 DEF BuiltCam
<1>5. BuiltAt(t)'
  <2>1. CASE pc[t] \in Inside
    BY <2>1, <1>2 DEF CreateCamera, Destructor, Idle, Inside
  <2>2. CASE pc[t] \notin Inside
    BY <2>2, <1>2, BusyInside DEF BuiltAt, Busy
  <2> QED BY <2>1, <2>2
<1> QED BY <1>3, <1>4, <1>5, OnlyBuild

LEMMA QuietCam ==
  ASSUME IInv, Building, UNCHANGED <<made, cfg, camVars>>,
         \A d \in Cam : \A ch \in Channels(d) : vencAlloc'[ch] = vencAlloc[ch],
         \A u \in Thread : SameThread(u) \/ pc'[u] \notin Busy
  PROVE  Building'
<1>1. \A d \in Cam : Untouched(d)
  BY DEF Untouched, camVars
<1> QED BY <1>1, QuietBuild

LEMMA BuildManager ==
  ASSUME IInv, Owned, Tidy, Building, NEW t \in Thread,
         \/ \E id \in DOMAIN cameras : Destroy(t, id)
         \/ DestroyAll(t) \/ ReleaseManager(t) \/ ManagerErase(t) \/ ManagerStop(t)
  PROVE  Building'
<1>1. ASSUME NEW o, NEW todo, EnterManager(t, o, todo) PROVE Building'
  <2>1. UNCHANGED <<made, cfg, camVars, vencAlloc>>
    BY <1>1 DEF EnterManager, objVars, rmVars
  <2>2. \A u \in Thread : SameThread(u) \/ pc'[u] \notin Busy
    BY <1>1 DEF EnterManager, Goto, SameThread, Busy, IInv, TypeOK, ThreadTypeOK
  <2> QED BY <2>1, <2>2, QuietCam
<1>2. CASE ManagerErase(t)
  <2>1. UNCHANGED <<made, cfg, camVars, vencAlloc>>
    BY <1>2 DEF ManagerErase, objVars, rmVars
  <2>2. \A u \in Thread : SameThread(u) \/ pc'[u] \notin Busy
    BY <1>2 DEF ManagerErase, Return, SameThread, Busy, IInv, TypeOK, ThreadTypeOK
  <2> QED BY <2>1, <2>2, QuietCam
<1>3. ASSUME ManagerStop(t) PROVE Building'
  <2>1. PICK id \in ids[t] :
          \/ BeginStop(t, cameras[id], op[t])
          \/ cam' = [cam EXCEPT ![t] = cameras[id]] /\ UNCHANGED <<lock, streams, pc, op>>
    BY <1>3 DEF ManagerStop
  <2>2. /\ pc[t] = "next_camera"
        /\ UNCHANGED <<made, cfg, running, idx, arg, vi, vpss, viPtr, venc, pend, vencAlloc>>
    BY <1>3 DEF ManagerStop, objVars, rmVars
  <2>3. cameras[id] \in Cam /\ pc[t] \notin Inside
    BY <2>2 DEF IInv, TypeOK, Control, ManagerTypeOK, Inside
  <2>4. CASE BeginStop(t, cameras[id], op[t])
    BY <2>2, <2>3, <2>4, BuildBeginStop
  <2>5. CASE cam' = [cam EXCEPT ![t] = cameras[id]] /\ UNCHANGED <<lock, streams, pc, op>>
    <3>1. \A u \in Thread : SameThread(u) \/ pc'[u] \notin Busy
      BY <2>2, <2>5 DEF SameThread, Busy, IInv, TypeOK, ThreadTypeOK
    <3> QED BY <2>2, <2>5, <3>1, QuietCam DEF camVars
  <2> QED BY <2>1, <2>4, <2>5
<1> QED BY <1>1, <1>2, <1>3 DEF Destroy, DestroyAll, ReleaseManager

LEMMA BuildStep ==
  ASSUME Calls \cap {"create_stream", "destroy_stream", "release"} = {},
         IInv, Owned, Tidy, Building, [Next]_vars
  PROVE  Building'
<1>1. CASE InitManager \/ UNCHANGED vars \/ \E c \in Cam : DropRef(c)
  BY <1>1, QuietCam DEF InitManager, DropRef, vars, objVars, rmVars, thVars, SameThread
<1>2. CASE InitResources
  <2>1. \A d \in Cam : Channels(d) = {}
    BY <1>2 DEF InitResources, InitRm, Owned, VencOwned, NothingHeldUninitialized
  <2> QED BY <1>2, <2>1, QuietCam DEF InitResources, objVars, thVars, SameThread
<1>3. CASE ReleaseResources
  BY <1>3 DEF ReleaseResources
<1>4. ASSUME NEW t \in Thread, InCall(t) PROVE Building'
  <2>1. CASE ManagerErase(t)
    BY <2>1, BuildManager
  <2>2. CASE StreamStartNullVi(t)
    BY <2>2, QuietCam DEF StreamStartNullVi, objVars, rmVars, thVars, SameThread
  <2>3. ASSUME \/ StartAllocateVpss(t) \/ StartInitVi(t) \/ StartNextStream(t) \/ StreamStart(t)
               \/ StartDone(t) \/ FreeNextVenc(t) \/ FreeGroup(t) \/ FreeDevice(t)
        PROVE  Building'
    <3>1. pc[t] \in Inside
      BY <2>3 DEF StartAllocateVpss, StartInitVi, StartNextStream, StreamStart, StartDone,
                  FreeNextVenc, FreeGroup, FreeDevice, Inside, Pc
    <3>2. PICK c \in Cam : c = cam[t]
      BY <3>1, BusyCam
    <3> QED BY <2>3, <3>2, BuildAllocateVpss, BuildInitVi, BuildNextStream, BuildStreamStart,
               BuildFree, BuildLeave
  <2> QED BY <1>4, <2>1, <2>2, <2>3 DEF InCall
<1>5. ASSUME NEW t \in Thread, NEW c \in Cam, GetCamera(t, c) PROVE Building'
  BY <1>5, QuietCam DEF GetCamera, rmVars, thVars, SameThread
<1>6. ASSUME NEW t \in Thread, NEW c \in Cam, Stop(t, c) PROVE Building'
  <2>1. pc[t] \notin Inside
    BY <1>6 DEF Stop, Idle, Inside
  <2> QED BY <1>6, <2>1, BuildBeginStop DEF Stop, objVars, rmVars
<1>7. ASSUME NEW t \in Thread, NEW c \in Cam, Destructor(t, c) PROVE Building'
  <2>1. pc[t] \notin Inside
    BY <1>7 DEF Destructor, Idle, Inside
  <2>2. CASE BeginStop(t, c, "destructor") /\ UNCHANGED <<objVars, viPtr, venc>>
    BY <1>7, <2>1, <2>2, BuildBeginStop DEF Destructor, objVars, rmVars
  <2>3. CASE ~running[c]
    BY <1>7, <2>3, BuildObject
  <2> QED BY <1>7, <2>2, <2>3 DEF Destructor
<1>8. ASSUME NEW t \in Thread, Call(t) PROVE Building'
  <2>1. \A c \in Cam : (\A s \in StreamCfg : ~CreateStream(t, c, s)) /\ \A id : ~DestroyStream(t, c, id)
    BY DEF CreateStream, DestroyStream
  <2> QED BY <1>5, <1>6, <1>7, <1>8, <2>1, BuildObject, BuildAllocateVi, BuildManager DEF Call
<1>9. ASSUME NEW t \in Thread, ManagerStop(t) PROVE Building'
  BY <1>9, BuildManager
<1> QED BY <1>1, <1>2, <1>3, <1>4, <1>8, <1>9 DEF Next

\* Whatever number of cameras start and stop at the same time, a camera that
\* runs has its device, its group and its pipeline, exactly the configured
\* streams, and a channel of the right type for each of them: no failing start
\* of another camera took one away, and no start ended before its last stream.
THEOREM RunningComplete ==
  ASSUME Calls \cap {"create_stream", "destroy_stream", "release"} = {}
  PROVE  Spec => []RunningIsComplete
<1>1. Init => Building
  BY DEF Init, Building, BuiltCam, BuiltAt
<1>2. IInv /\ Owned /\ Tidy /\ Building /\ [Next]_vars => Building'
  BY BuildStep
<1>3. Calls \cap {"create_stream", "release"} = {}
  OBVIOUS
<1>4. Spec => [](IInv /\ Owned /\ Tidy)
  BY <1>3, AlwaysTidy
<1>5. IInv /\ Building => RunningIsComplete
  <2> SUFFICES ASSUME IInv, Building, NEW c \in Cam, running[c], lock[c] = NoThread
               PROVE  /\ vi[c] # None /\ vpss[c] # None /\ viPtr[c] = "on"
                      /\ streams[c] = {cfg[c].streams[i].id : i \in DOMAIN cfg[c].streams}
                      /\ \A type \in VencType :
                           Cardinality({ch \in venc[c] : vencAlloc[ch] = type})
                             = Cardinality({i \in DOMAIN cfg[c].streams :
                                              VencTypeOf(cfg[c].streams[i]) = type})
    BY DEF RunningIsComplete, Unlocked
  <2>1. made[c] /\ Built(c, Len(cfg[c].streams))
    BY DEF Building, BuiltCam
  <2>2. DOMAIN cfg[c].streams = 1 .. Len(cfg[c].streams)
    BY <2>1, CameraAssumption DEF IInv, Objects
  <2> QED BY <2>1, <2>2 DEF Built, ChannelsOf, Wanted
<1> QED BY <1>1, <1>2, <1>4, <1>5, PTL DEF Spec
=============================================================================
