------------------------------- MODULE Camera -------------------------------
(***************************************************************************)
(* camera_manager (the registry), camera_instance (the life of one camera) *)
(* and resource_manager (the allocation tables), called by several threads.*)
(*                                                                         *)
(* Locks, as in the code: camera_manager::m_mutex (cmLock) is held by      *)
(* destroy_camera, destroy_all_cameras and release while they wait for     *)
(* camera_instance::m_mutex (lock[c]), which start, stop, create_stream    *)
(* and destroy_stream hold for their whole body; resource_manager::m_mutex *)
(* is taken and given back inside every call of the tables.  So the starts *)
(* and stops of two cameras interleave between two calls of the tables,    *)
(* and that is the grain of the steps here.                                *)
(***************************************************************************)
EXTENDS ResourceManager, Sequences

CONSTANTS
  Cam,           \* camera_instance objects (a pool: a destroyed one is reused)
  Thread,        \* threads that call the API
  NoThread,
  Config,        \* camera_config values the clients pass
  StreamCfg,     \* stream_config values
  NoCam, NoConfig, NoStream,
  MaxCameras,    \* the argument of camera_manager::init, 1..4
  IdsPerCamera,  \* 10 in allocate_camera_id
  Calls          \* the optional calls the clients make, see ClientCalls

(* chn_wrapper only creates, starts, stops and destroys.  The other calls    *)
(* of the API are made when their name is in Calls.                          *)
ClientCalls == {"create_stream", "destroy_stream", "drop_ref", "release"}

None == -1

ASSUME CameraAssumption ==
  /\ MaxCameras \in 1 .. 4
  /\ IdsPerCamera \in Nat \ {0}
  /\ NoThread \notin Thread
  /\ NoCam \notin Cam
  /\ NoConfig \notin Config
  /\ NoStream \notin StreamCfg
  /\ Calls \subseteq ClientCalls
  /\ \A s \in StreamCfg : s.id \in Int /\ s.enc \in {"H264", "H265", "H264_VBR", "H265_VBR"}
                          /\ s.valid \in BOOLEAN
  /\ \A cf \in Config : cf.id \in Int /\ cf.enabled \in BOOLEAN
                        /\ cf.sensor \in {"plain", "wdr_name", "unknown"}
                        /\ cf.mode \in {"liner", "linear", "2to1wdr"}
                        /\ cf.streams \in Seq(StreamCfg)

VARIABLES
  cmInit,    \* camera_manager::m_initialized
  cameras,   \* m_cameras: id -> camera object
  nextId,    \* m_next_camera_id
  cmLock,    \* holder of camera_manager::m_mutex across steps
  made,      \* the object exists
  ref,       \* a client still holds a shared_ptr to it
  cfg,       \* m_config
  running,   \* m_is_running
  vi,        \* m_resources.vi_dev
  vpss,      \* m_resources.vpss_grp
  venc,      \* m_resources.venc_channels
  pend,      \* the local venc_chn of create_stream_internal
  streams,   \* ids of m_streams
  viPtr,     \* m_vi_ptr: "null", "on" (started) or "off" (stopped)
  lock,      \* holder of camera_instance::m_mutex
  pc, op, cam,   \* where each thread is, in which call, on which camera
  idx, arg,      \* create_stream_internal: position in the config, its argument
  ids,           \* destroy_all_cameras, release: cameras still to be stopped
  crashed        \* the process died

cmVars  == <<cmInit, cameras, nextId, cmLock>>
objVars == <<made, ref, cfg>>
camVars == <<running, vi, vpss, venc, pend, streams, viPtr, lock>>
thVars  == <<pc, op, cam, idx, arg, ids>>
vars == <<rmVars, cmVars, objVars, camVars, thVars, crashed>>

-----------------------------------------------------------------------------
(* Configurations.                                                          *)

\* stream_config_helper::is_h264
VencTypeOf(s) == IF s.enc \in {"H264", "H264_VBR"} THEN H264 ELSE H265

\* stream_instance::start has no case for the VBR encoders
HasEncoder(s) == s.enc \in {"H264", "H265"}

\* init_vi knows "OS04A10", "OS08A20"; the "_WDR" names, which
\* validate_sensor_config accepts, reach its last else.
HasVi(cf) == cf.sensor = "plain"

\* The pipeline init_vi builds for a configuration: it compares the mode with
\* "linear", validate_sensor_config with "liner".
Pipeline(cf) == IF cf.mode = "linear" THEN "liner" ELSE "2to1wdr"

\* camera_manager::validate_config
ValidConfig(cf) ==
  /\ cf.enabled
  /\ \/ cf.sensor = "plain" /\ cf.mode = "liner"
     \/ cf.sensor = "wdr_name" /\ cf.mode = "2to1wdr"
  /\ cf.streams # <<>>
  /\ \A i \in DOMAIN cf.streams : cf.streams[i].valid /\ cf.streams[i].id >= 0
  /\ \A i, j \in DOMAIN cf.streams :
       i # j => cf.streams[i].id # cf.streams[j].id

Registered(c) == \E i \in DOMAIN cameras : cameras[i] = c

\* allocate_camera_id: the first free id from m_next_camera_id on, cyclically
\* (the empty set is its -1).
IdSpan == MaxCameras * IdsPerCamera
AutoIds ==
  LET At(k) == (nextId + k) % IdSpan
  IN {At(k) : k \in {n \in 0 .. IdSpan - 1 :
                       /\ At(n) \notin DOMAIN cameras
                       /\ \A j \in 0 .. n - 1 : At(j) \in DOMAIN cameras}}

-----------------------------------------------------------------------------
Init ==
  /\ RmInitState
  /\ cmInit = FALSE
  /\ cameras = [i \in {} |-> NoCam]
  /\ nextId = 0
  /\ cmLock = NoThread
  /\ made = [c \in Cam |-> FALSE]
  /\ ref = [c \in Cam |-> FALSE]
  /\ cfg = [c \in Cam |-> NoConfig]
  /\ running = [c \in Cam |-> FALSE]
  /\ vi = [c \in Cam |-> None]
  /\ vpss = [c \in Cam |-> None]
  /\ venc = [c \in Cam |-> {}]
  /\ pend = [c \in Cam |-> None]
  /\ streams = [c \in Cam |-> {}]
  /\ viPtr = [c \in Cam |-> "null"]
  /\ lock = [c \in Cam |-> NoThread]
  /\ pc = [t \in Thread |-> "idle"]
  /\ op = [t \in Thread |-> "none"]
  /\ cam = [t \in Thread |-> NoCam]
  /\ idx = [t \in Thread |-> 0]
  /\ arg = [t \in Thread |-> NoStream]
  /\ ids = [t \in Thread |-> {}]
  /\ crashed = FALSE

Idle(t) == pc[t] = "idle"
Unlocked(c) == lock[c] = NoThread
Callable(c) == made[c] /\ ref[c]

Goto(t, label) == pc' = [pc EXCEPT ![t] = label]

\* Thread t enters call o on camera c; label is its next step.
Enter(t, o, c, label) ==
  /\ Goto(t, label)
  /\ op' = [op EXCEPT ![t] = o]
  /\ cam' = [cam EXCEPT ![t] = c]

Lock(t, c) == lock' = [lock EXCEPT ![c] = t]
Unlock(c) == lock' = [lock EXCEPT ![c] = NoThread]

\* A thread that goes back to idle forgets its locals.
Return(t) ==
  /\ pc' = [pc EXCEPT ![t] = "idle"]
  /\ op' = [op EXCEPT ![t] = "none"]
  /\ idx' = [idx EXCEPT ![t] = 0]
  /\ arg' = [arg EXCEPT ![t] = NoStream]
  /\ ids' = [ids EXCEPT ![t] = {}]
  /\ cam' = [cam EXCEPT ![t] = NoCam]

-----------------------------------------------------------------------------
(* chn_wrapper::init initializes the tables, then the registry; release goes *)
(* the other way round.                                                      *)

InitResources ==
  /\ InitRm
  /\ UNCHANGED <<cmVars, objVars, camVars, thVars, crashed>>

\* camera_manager::init
InitManager ==
  /\ cmLock = NoThread
  /\ rmInit /\ ~cmInit
  /\ cmInit' = TRUE
  /\ cameras' = [i \in {} |-> NoCam]
  /\ nextId' = 0
  /\ UNCHANGED <<rmVars, cmLock, objVars, camVars, thVars, crashed>>

\* camera_manager::create_camera: one step, it calls nothing that locks.
\* The refusals (not initialized, too many cameras, bad configuration, id in
\* use) change nothing.
CreateCamera(t, c, cf) ==
  /\ Idle(t) /\ ~made[c]
  /\ cmLock = NoThread
  /\ cmInit
  /\ Cardinality(DOMAIN cameras) < MaxCameras
  /\ ValidConfig(cf)
  /\ \E id \in IF cf.id < 0 THEN AutoIds ELSE {cf.id} \ DOMAIN cameras :
       /\ cameras' = [i \in DOMAIN cameras \cup {id} |-> IF i = id THEN c ELSE cameras[i]]
       /\ nextId' = IF cf.id < 0 THEN (id + 1) % IdSpan ELSE nextId
  /\ made' = [made EXCEPT ![c] = TRUE]
  /\ ref' = [ref EXCEPT ![c] = TRUE]
  /\ cfg' = [cfg EXCEPT ![c] = cf]
  /\ UNCHANGED <<rmVars, cmInit, cmLock, camVars, thVars, crashed>>

\* camera_manager::get_camera hands out another shared_ptr.
GetCamera(t, c) ==
  /\ Idle(t) /\ cmLock = NoThread /\ cmInit
  /\ Registered(c)
  /\ ref' = [ref EXCEPT ![c] = TRUE]
  /\ UNCHANGED <<rmVars, cmVars, made, cfg, camVars, thVars, crashed>>

-----------------------------------------------------------------------------
(* camera_instance::start, under lock[c] from its first step to its last.   *)

\* allocate_resources, first half.  start of a running camera returns false.
StartAllocateVi(t, c) ==
  /\ Idle(t) /\ Callable(c) /\ Unlocked(c) /\ ~running[c]
  /\ Lock(t, c)
  /\ \/ \E d \in ViDevice :
          /\ AllocateVi(d)
          /\ vi' = [vi EXCEPT ![c] = d]
          /\ Enter(t, "start", c, "alloc_vpss")
     \/ /\ ~ViAvailable
        /\ Enter(t, "start", c, "free_venc")
        /\ UNCHANGED <<rmVars, vi>>
  /\ UNCHANGED <<cmVars, objVars, running, vpss, venc, pend, streams, viPtr,
                 idx, arg, ids, crashed>>

\* Mutant: the VI device is given back but m_resources.vi_dev keeps its id.
RollbackViKeepsId(c) ==
  /\ FreeVi(vi[c])
  /\ UNCHANGED vi

\* allocate_resources gives the VI device back.
RollbackVi(c) ==
  /\ FreeVi(vi[c])
  /\ vi' = [vi EXCEPT ![c] = None]

\* allocate_resources, second half: no group gives the VI device back.
StartAllocateVpss(t) ==
  LET c == cam[t] IN
  /\ pc[t] = "alloc_vpss"
  /\ \/ \E g \in VpssGroup :
          /\ AllocateVpss(g)
          /\ vpss' = [vpss EXCEPT ![c] = g]
          /\ Goto(t, "init_vi")
          /\ UNCHANGED vi
     \/ /\ ~VpssAvailable
        /\ RollbackVi(c)
        /\ Goto(t, "free_venc")
        /\ UNCHANGED vpss
  /\ UNCHANGED <<cmVars, objVars, running, venc, pend, streams, viPtr, lock,
                 op, cam, idx, arg, ids, crashed>>

\* init_vi drops the old pipeline object without stopping it, then builds and
\* starts a new one; the SDK may refuse.
StartInitVi(t) ==
  LET c == cam[t] IN
  /\ pc[t] = "init_vi"
  /\ \/ /\ HasVi(cfg[c])
        /\ viPtr' = [viPtr EXCEPT ![c] = "on"]
        /\ Goto(t, "init_streams")
        /\ idx' = [idx EXCEPT ![t] = 1]
     \/ /\ viPtr' = [viPtr EXCEPT ![c] = "null"]
        /\ Goto(t, "free_venc")
        /\ UNCHANGED idx
  /\ UNCHANGED <<rmVars, cmVars, objVars, running, vi, vpss, venc, pend,
                 streams, lock, op, cam, arg, ids, crashed>>

\* Mutant: the streams already started are left running.
AbandonStreamsOnlyVi(t, c) ==
  /\ UNCHANGED streams
  /\ viPtr' = [viPtr EXCEPT ![c] = "off"]
  /\ Goto(t, "free_venc")

\* start's way out when a stream cannot be created: stop_streams, stop the
\* VI pipeline, then free_resources.
AbandonStreams(t, c) ==
  /\ streams' = [streams EXCEPT ![c] = {}]
  /\ viPtr' = [viPtr EXCEPT ![c] = "off"]
  /\ Goto(t, "free_venc")

\* Mutant: the out-parameter of allocate_venc_channel is not written.
GrantedLost(c, ch) == UNCHANGED pend

\* allocate_venc_channel's out-parameter.
Granted(c, ch) == pend' = [pend EXCEPT ![c] = ch]

\* Mutant: the loop of init_streams ends one stream early.
AllStreamsStartedEarly(t) == idx[t] >= Len(cfg[cam[t]].streams)

AllStreamsStarted(t) == idx[t] > Len(cfg[cam[t]].streams)

\* init_streams: the next configured stream asks for its VENC channel.
StartNextStream(t) ==
  LET c == cam[t]
      s == cfg[c].streams[idx[t]]
  IN
  /\ pc[t] = "init_streams" /\ ~AllStreamsStarted(t)
  /\ \/ \E ch \in VencChn :
          /\ s.id \notin streams[c]
          /\ AllocateVenc(VencTypeOf(s), ch)
          /\ Granted(c, ch)
          /\ arg' = [arg EXCEPT ![t] = s]
          /\ Goto(t, "stream_start")
          /\ UNCHANGED <<streams, viPtr>>
     \/ /\ s.id \in streams[c] \/ ~VencAvailable(VencTypeOf(s))
        /\ AbandonStreams(t, c)
        /\ UNCHANGED <<rmVars, pend, arg>>
  /\ UNCHANGED <<cmVars, objVars, running, vi, vpss, venc, lock,
                 op, cam, idx, ids, crashed>>

\* create_stream_internal after the allocation, for init_streams and for
\* create_stream: stream_instance::start fails exactly for the VBR encoders.
\* m_vi_ptr is dereferenced unchecked.
StreamStart(t) ==
  LET c == cam[t]
      s == arg[t]
  IN
  /\ pc[t] = "stream_start" /\ viPtr[c] # "null"
  /\ pend' = [pend EXCEPT ![c] = None]
  /\ \/ /\ HasEncoder(s)
        /\ streams' = [streams EXCEPT ![c] = @ \cup {s.id}]
        /\ venc' = [venc EXCEPT ![c] = @ \cup {pend[c]}]
        /\ UNCHANGED <<rmVars, viPtr>>
        /\ \/ /\ op[t] = "start"
              /\ Goto(t, "init_streams")
              /\ idx' = [idx EXCEPT ![t] = @ + 1]
              /\ UNCHANGED <<lock, op, cam, arg, ids>>
           \/ /\ op[t] = "create_stream"
              /\ Unlock(c) /\ Return(t)
     \/ /\ ~HasEncoder(s)
        /\ FreeVenc(pend[c])
        /\ UNCHANGED venc
        /\ \/ /\ op[t] = "start"
              /\ AbandonStreams(t, c)
              /\ UNCHANGED <<lock, op, cam, idx, arg, ids>>
           \/ /\ op[t] = "create_stream"
              /\ Unlock(c) /\ Return(t)
              /\ UNCHANGED <<streams, viPtr>>
  /\ UNCHANGED <<cmVars, objVars, running, vi, vpss, crashed>>

\* The same line with m_vi_ptr still null.
StreamStartNullVi(t) ==
  /\ pc[t] = "stream_start" /\ viPtr[cam[t]] = "null"
  /\ crashed' = TRUE
  /\ UNCHANGED <<rmVars, cmVars, objVars, camVars, thVars>>

\* All streams run: init_features (always true), m_is_running = true.
StartDone(t) ==
  LET c == cam[t] IN
  /\ pc[t] = "init_streams" /\ AllStreamsStarted(t)
  /\ running' = [running EXCEPT ![c] = TRUE]
  /\ Unlock(c) /\ Return(t)
  /\ UNCHANGED <<rmVars, cmVars, objVars, vi, vpss, venc, pend, streams,
                 viPtr, crashed>>

-----------------------------------------------------------------------------
(* camera_instance::stop and the free_resources it shares with start.       *)

\* Mutant: the registry's stop() does not wait for the camera's mutex.
BeginStopUnlocked(t, c, o) ==
  /\ running[c]
  /\ Lock(t, c)
  /\ streams' = [streams EXCEPT ![c] = {}]
  /\ Enter(t, o, c, "free_venc")

\* stop's first half; a camera that is not running is left alone.  The VI
\* pipeline is not stopped.
BeginStop(t, c, o) ==
  /\ running[c] /\ Unlocked(c)
  /\ Lock(t, c)
  /\ streams' = [streams EXCEPT ![c] = {}]
  /\ Enter(t, o, c, "free_venc")

Stop(t, c) ==
  /\ Idle(t) /\ Callable(c)
  /\ BeginStop(t, c, "stop")
  /\ UNCHANGED <<rmVars, cmVars, objVars, running, vi, vpss, venc, pend, viPtr,
                 idx, arg, ids, crashed>>

\* Mutant: the loop over venc_channels never moves on.
ForgetChannelNever(c, ch) == UNCHANGED venc

ForgetChannel(c, ch) == venc' = [venc EXCEPT ![c] = @ \ {ch}]

\* free_resources: the channels one by one,
FreeNextVenc(t) ==
  LET c == cam[t] IN
  /\ pc[t] = "free_venc"
  /\ \/ \E ch \in venc[c] :
          /\ FreeVenc(ch)
          /\ ForgetChannel(c, ch)
          /\ UNCHANGED pc
     \/ /\ venc[c] = {}
        /\ Goto(t, "free_vpss")
        /\ UNCHANGED <<rmVars, venc>>
  /\ UNCHANGED <<cmVars, objVars, running, vi, vpss, pend, streams, viPtr, lock,
                 op, cam, idx, arg, ids, crashed>>

\* Mutant: id 0 is taken for "no group".
HasGroupPositive(c) == vpss[c] > 0

HasGroup(c) == vpss[c] >= 0

\* then the VPSS group,
FreeGroup(t) ==
  LET c == cam[t] IN
  /\ pc[t] = "free_vpss"
  /\ IF HasGroup(c) THEN FreeVpss(vpss[c]) ELSE UNCHANGED rmVars
  /\ vpss' = [vpss EXCEPT ![c] = None]
  /\ Goto(t, "free_vi")
  /\ UNCHANGED <<cmVars, objVars, running, vi, venc, pend, streams, viPtr, lock,
                 op, cam, idx, arg, ids, crashed>>

\* then the VI device; the call then returns to its caller.
FreeDevice(t) ==
  LET c == cam[t] IN
  /\ pc[t] = "free_vi"
  /\ IF vi[c] >= 0 THEN FreeVi(vi[c]) ELSE UNCHANGED rmVars
  /\ vi' = [vi EXCEPT ![c] = None]
  /\ running' = [running EXCEPT ![c] = FALSE]
  /\ Unlock(c)
  /\ \/ /\ op[t] \in {"start", "stop"}
        /\ Return(t)
        /\ UNCHANGED <<made, cfg, viPtr>>
     \/ /\ op[t] \in {"destroy", "destroy_all", "release"}
        /\ Goto(t, "next_camera")
        /\ UNCHANGED <<made, cfg, viPtr, op, cam, idx, arg, ids>>
     \/ /\ op[t] = "destructor"
        /\ made' = [made EXCEPT ![c] = FALSE]
        /\ cfg' = [cfg EXCEPT ![c] = NoConfig]
        /\ viPtr' = [viPtr EXCEPT ![c] = "null"]
        /\ Return(t)
  /\ UNCHANGED <<cmVars, ref, vpss, venc, pend, streams, crashed>>

-----------------------------------------------------------------------------
(* Streams added and removed while the camera exists.                       *)

\* create_stream up to the allocation; a bad configuration, an id in use or
\* no channel change nothing.  m_is_running is not looked at.
CreateStream(t, c, s) ==
  /\ "create_stream" \in Calls
  /\ Idle(t) /\ Callable(c) /\ Unlocked(c)
  /\ s.valid /\ s.id >= 0 /\ s.id \notin streams[c]
  /\ \E ch \in VencChn :
       /\ AllocateVenc(VencTypeOf(s), ch)
       /\ Granted(c, ch)
  /\ Lock(t, c)
  /\ Enter(t, "create_stream", c, "stream_start")
  /\ arg' = [arg EXCEPT ![t] = s]
  /\ UNCHANGED <<cmVars, objVars, running, vi, vpss, venc, streams, viPtr,
                 idx, ids, crashed>>

\* Mutant: a channel is given back and stays in venc_channels.
ReleaseStreamChannelKeepsIt(c) == \E ch \in venc[c] : FreeVenc(ch)

\* "Free VENC channel" of destroy_stream: only a comment, nothing is freed.
ReleaseStreamChannel(c) == UNCHANGED rmVars

\* destroy_stream stops and erases the stream; its channel stays in
\* m_resources.venc_channels until the camera stops.
DestroyStream(t, c, id) ==
  /\ "destroy_stream" \in Calls
  /\ Idle(t) /\ Callable(c) /\ Unlocked(c)
  /\ id \in streams[c]
  /\ streams' = [streams EXCEPT ![c] = @ \ {id}]
  /\ ReleaseStreamChannel(c)
  /\ UNCHANGED <<cmVars, objVars, running, vi, vpss, venc, pend, viPtr,
                 lock, thVars, crashed>>

-----------------------------------------------------------------------------
(* destroy_camera, destroy_all_cameras, release: under cmLock throughout.    *)

EnterManager(t, o, todo) ==
  /\ Idle(t) /\ cmLock = NoThread
  /\ cmLock' = t
  /\ Goto(t, "next_camera")
  /\ op' = [op EXCEPT ![t] = o]
  /\ ids' = [ids EXCEPT ![t] = todo]
  /\ UNCHANGED <<rmVars, cmInit, cameras, nextId, objVars, camVars,
                 cam, idx, arg, crashed>>

Destroy(t, id) == cmInit /\ id \in DOMAIN cameras /\ EnterManager(t, "destroy", {id})

DestroyAll(t) == cmInit /\ EnterManager(t, "destroy_all", DOMAIN cameras)

\* camera_manager::release; chn_wrapper::release then releases the tables.
ReleaseManager(t) ==
  /\ "release" \in Calls
  /\ EnterManager(t, "release", DOMAIN cameras)

\* The next camera of the list, in id order: stop() it.
ManagerStop(t) ==
  /\ pc[t] = "next_camera"
  /\ \E id \in ids[t] :
       /\ IsFirst(id, ids[t])
       /\ ids' = [ids EXCEPT ![t] = @ \ {id}]
       /\ Unlocked(cameras[id])
       /\ \/ BeginStop(t, cameras[id], op[t])
          \/ /\ ~running[cameras[id]]
             /\ cam' = [cam EXCEPT ![t] = cameras[id]]
             /\ UNCHANGED <<lock, streams, pc, op>>
  /\ UNCHANGED <<rmVars, cmVars, objVars, running, vi, vpss, venc, pend, viPtr,
                 idx, arg, crashed>>

\* Mutant: release() forgets m_cameras.clear().
RemainingCamerasKept(t) ==
  CASE op[t] = "destroy" -> [i \in {j \in DOMAIN cameras : cameras[j] # cam[t]} |-> cameras[i]]
    [] op[t] = "destroy_all" -> [i \in {} |-> NoCam]
    [] OTHER -> cameras

RemainingCameras(t) ==
  IF op[t] = "destroy"
  THEN [i \in {j \in DOMAIN cameras : cameras[j] # cam[t]} |-> cameras[i]]
  ELSE [i \in {} |-> NoCam]

\* Every stop() has returned.  destroy_camera erases its camera; the other two
\* clear the map.  The camera's own lock is free since its stop() returned.
ManagerErase(t) ==
  /\ pc[t] = "next_camera" /\ ids[t] = {}
  /\ cmLock' = NoThread
  /\ cameras' = RemainingCameras(t)
  /\ cmInit' = (cmInit /\ op[t] # "release")
  /\ nextId' = IF op[t] = "release" THEN 0 ELSE nextId
  /\ Return(t)
  /\ UNCHANGED <<rmVars, objVars, camVars, crashed>>

ReleaseResources ==
  /\ "release" \in Calls
  /\ ~cmInit /\ rmInit
  /\ ReleaseRm
  /\ UNCHANGED <<cmVars, objVars, camVars, thVars, crashed>>

-----------------------------------------------------------------------------
(* References and the destructor.                                           *)

\* A client lets its last shared_ptr go (no call of its own is under way).
DropRef(c) ==
  /\ "drop_ref" \in Calls
  /\ Callable(c)
  /\ \A t \in Thread : op[t] \in {"start", "stop", "create_stream"} => cam[t] # c
  /\ ref' = [ref EXCEPT ![c] = FALSE]
  /\ UNCHANGED <<rmVars, cmVars, made, cfg, camVars, thVars, crashed>>

\* No client, no call, not the map, and no stream, whose encoder keeps the camera
\* alive as its observer, refers to the object.
Unreferenced(c) ==
  /\ made[c] /\ ~ref[c] /\ ~Registered(c) /\ Unlocked(c)
  /\ streams[c] = {}
  /\ \A t \in Thread : cam[t] # c

\* ~camera_instance calls stop().
Destructor(t, c) ==
  /\ Idle(t) /\ Unreferenced(c)
  /\ \/ /\ BeginStop(t, c, "destructor")
        /\ UNCHANGED <<objVars, viPtr, venc>>
     \/ /\ ~running[c]
        /\ made' = [made EXCEPT ![c] = FALSE]
        /\ cfg' = [cfg EXCEPT ![c] = NoConfig]
        /\ viPtr' = [viPtr EXCEPT ![c] = "null"]
        /\ venc' = [venc EXCEPT ![c] = {}]
        /\ UNCHANGED <<ref, lock, streams, pc, op, cam>>
  /\ UNCHANGED <<rmVars, cmVars, running, vi, vpss, pend, idx, arg, ids, crashed>>

-----------------------------------------------------------------------------
\* The steps inside a call, taken without waiting for another camera.
InCall(t) ==
  \/ StartAllocateVpss(t) \/ StartInitVi(t) \/ StartNextStream(t)
  \/ StreamStart(t) \/ StreamStartNullVi(t) \/ StartDone(t)
  \/ FreeNextVenc(t) \/ FreeGroup(t) \/ FreeDevice(t)
  \/ ManagerErase(t)

\* A thread enters a call.
Call(t) ==
  \/ \E c \in Cam :
       \/ \E cf \in Config : CreateCamera(t, c, cf)
       \/ GetCamera(t, c)
       \/ StartAllocateVi(t, c)
       \/ Stop(t, c)
       \/ \E s \in StreamCfg : CreateStream(t, c, s)
       \/ \E id \in streams[c] : DestroyStream(t, c, id)
       \/ Destructor(t, c)
  \/ \E id \in DOMAIN cameras : Destroy(t, id)
  \/ DestroyAll(t)
  \/ ReleaseManager(t)

Next ==
  /\ ~crashed
  /\ \/ InitResources
     \/ InitManager
     \/ ReleaseResources
     \/ \E c \in Cam : DropRef(c)
     \/ \E t \in Thread : Call(t) \/ InCall(t) \/ ManagerStop(t)

Fairness == \A t \in Thread : WF_vars(~crashed /\ InCall(t))

Spec == Init /\ [][Next]_vars /\ Fairness

-----------------------------------------------------------------------------
(* Properties.                                                              *)

Pc == {"idle", "alloc_vpss", "init_vi", "init_streams", "stream_start",
       "free_venc", "free_vpss", "free_vi", "next_camera"}
Op == {"none", "start", "stop", "create_stream", "destroy", "destroy_all",
       "release", "destructor"}

ManagerTypeOK ==
  /\ cmInit \in BOOLEAN
  /\ DOMAIN cameras \subseteq Int
  /\ \A i \in DOMAIN cameras : cameras[i] \in Cam
  /\ nextId \in Int
  /\ cmLock \in Thread \cup {NoThread}

ObjectTypeOK ==
  /\ made \in [Cam -> BOOLEAN]
  /\ ref \in [Cam -> BOOLEAN]
  /\ cfg \in [Cam -> Config \cup {NoConfig}]

InstanceTypeOK ==
  /\ running \in [Cam -> BOOLEAN]
  /\ vi \in [Cam -> ViDevice \cup {None}]
  /\ vpss \in [Cam -> VpssGroup \cup {None}]
  /\ venc \in [Cam -> SUBSET VencChn]
  /\ pend \in [Cam -> VencChn \cup {None}]
  /\ streams \in [Cam -> SUBSET Int]
  /\ viPtr \in [Cam -> {"null", "on", "off"}]
  /\ lock \in [Cam -> Thread \cup {NoThread}]

ThreadTypeOK ==
  /\ pc \in [Thread -> Pc]
  /\ op \in [Thread -> Op]
  /\ cam \in [Thread -> Cam \cup {NoCam}]
  /\ idx \in [Thread -> Nat]
  /\ arg \in [Thread -> StreamCfg \cup {NoStream}]
  /\ ids \in [Thread -> SUBSET Int]

\* Type invariant: the tables, the registry, the objects, the insides of the
\* cameras, and where the threads are.
TypeOK ==
  RmTypeOK /\ ManagerTypeOK /\ ObjectTypeOK /\ InstanceTypeOK /\ ThreadTypeOK
  /\ crashed \in BOOLEAN

\* The channels camera c answers for: those in m_resources and the one that
\* create_stream_internal has just been given.
Channels(c) == venc[c] \cup ({pend[c]} \ {None})

\* No VI device, VPSS group or VENC channel is held by two cameras, however
\* their starts, failing starts, stops and destructions interleave: the
\* allocation and the roll-backs of start (allocate_resources,
\* create_stream_internal, free_resources) never give back what another camera
\* was given in between.
ExclusiveOwnership ==
  \A c1, c2 \in Cam : c1 # c2 =>
    /\ vi[c1] # vi[c2] \/ vi[c1] = None
    /\ vpss[c1] # vpss[c2] \/ vpss[c1] = None
    /\ Channels(c1) \cap Channels(c2) = {}

\* What a camera believes it holds is marked as taken in the tables of
\* resource_manager, so that nobody else can be given it.
HeldIsAllocated ==
  \A c \in Cam :
    /\ vi[c] # None => vi[c] \in viAlloc
    /\ vpss[c] # None => vpss[c] \in vpssAlloc
    /\ Channels(c) \subseteq TakenVenc

\* Nothing is lost: every entry marked as taken belongs to some camera.  Every
\* exit of start gives back what that start had been given.
AllocatedIsHeld ==
  /\ \A d \in viAlloc : \E c \in Cam : vi[c] = d
  /\ \A g \in vpssAlloc : \E c \in Cam : vpss[c] = g
  /\ \A ch \in TakenVenc : \E c \in Cam : ch \in Channels(c)

\* A camera that is not running and not inside a call holds nothing: stop and
\* every failing start release all of it.  The VI pipeline is not part of it:
\* stop neither stops nor drops m_vi_ptr, so a stopped camera has one that is on.
StoppedHoldsNothing ==
  \A c \in Cam : ~running[c] /\ Unlocked(c) =>
    vi[c] = None /\ vpss[c] = None /\ Channels(c) = {} /\ streams[c] = {}

\* A running camera is complete: pipeline on, exactly the configured streams,
\* one channel of the right type for each of them.
RunningIsComplete ==
  \A c \in Cam : running[c] /\ Unlocked(c) =>
    /\ vi[c] # None /\ vpss[c] # None /\ viPtr[c] = "on"
    /\ streams[c] = {cfg[c].streams[i].id : i \in DOMAIN cfg[c].streams}
    /\ \A type \in VencType :
         Cardinality({ch \in venc[c] : vencAlloc[ch] = type})
           = Cardinality({i \in DOMAIN cfg[c].streams :
                            VencTypeOf(cfg[c].streams[i]) = type})

\* The inside of a camera is touched by one thread at a time, also when one
\* comes from the registry (destroy_camera) and one from a client.
OneThreadPerCamera ==
  \A t \in Thread : pc[t] \notin {"idle", "next_camera"} => lock[cam[t]] = t

\* A released manager keeps no camera, so that init starts from nothing.
ReleasedRegistryIsEmpty == ~cmInit => DOMAIN cameras = {}

\* No call blocks for ever while it holds a camera: whatever the other threads
\* do, a camera that is locked is unlocked again.
CameraLockReleased ==
  \A c \in Cam : lock[c] # NoThread ~> (lock[c] = NoThread \/ crashed)

-----------------------------------------------------------------------------
(* What the documentation says and the code does not do.                    *)

\* camera_instance.h, sensor_config::mode: "e.g., "liner", "2to1wdr"".  The
\* pipeline that runs is of the mode the configuration asks for.
PipelineHasMode ==
  \A c \in Cam : viPtr[c] = "on" => Pipeline(cfg[c]) = cfg[c].mode

\* "Stop and destroy": a camera that leaves the registry is not running.
DestroyedIsStopped ==
  [][\A c \in Cam : Registered(c) /\ ~Registered(c)' => ~running'[c]]_vars

\* "Resources are automatically freed in destructors": the channels that a
\* camera had when it was destructed can be granted again.
FreedByDestructor ==
  [][\A c \in Cam : made[c] /\ ~made'[c] => Channels(c) \cap TakenVenc' = {}]_vars
=============================================================================
