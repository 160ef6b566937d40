# A verification project for hi_app

`hi_app` is the application of an IP camera (HiSilicon SoC, C++): it opens
sensors, encodes video and audio, and serves the encoded frames over RTSP, pushes
them over RTMP, stores them as MP4 and takes snapshots. The modules here model
the part of it that is concurrent, stateful and hard to test. TLC checks small
instances; TLAPS proves the theorems listed below for every value of the
constants.

Paths are relative to the root of the repository.

## 1. Inventory

| Component | Source | State it keeps | Operations |
|---|---|---|---|
| resource_manager | `cn_analyst/device/src/resource_manager.*` | which VI devices, VPSS groups and VENC channels are taken, and as which encoder type | init, release, allocate and free per kind, "is one available" queries |
| camera_manager | `cn_analyst/device/src/camera_manager.*` | the registry id -> camera, the next automatic id | init, release, create, get, destroy, destroy all; can_create and the other queries |
| camera_instance | `cn_analyst/device/src/camera_instance.*` | configuration, running flag, allocated resources, streams, VI pipeline | start, stop, create and destroy stream, frame callbacks |
| chn_wrapper | `device/dev_chn_wrapper.*` | which of the two camera implementations a channel uses, its camera, a camera cached in each look-up | init, start, stop, release, look-ups by number |
| legacy chn | `device/dev_chn.*` | fixed array of channels, the pointers to input and encoders, the MP4 recorder | start, stop, start_save, stop_save, look-ups by number, frame callback |
| venc capture | `device/dev_venc.*` | global list of encoders, the capture thread | register, capture loop, OSD |
| stream_post / stream_observer | `util/stream_observer.h` | list of observers, one mutex | register, unregister, post |
| stream_buf | `util/stream_buf.h` | a ring of bytes | input_data, copy_data, get_data |
| RTSP streams | `rtsp/stream/*` | list of stream_stock by (channel, stream), last frame time, the checker thread | get_stream, del_stream, process_data, once-a-second check |
| RTSP request handler | `rtsp/rtsp_request_handler.*` | state, stream and the two handlers of one connection | OPTIONS, DESCRIBE, SETUP, PLAY, TEARDOWN, GET_PARAMETER, dtor |
| RTSP session, server | `rtsp/session.*`, `rtsp/rtsp_session.*`, `rtsp/server.*` | input and output buffers, two timeouts, list of sessions | select loop: accept, read, write, time-out, stop |
| RTSP request parser | `rtsp/request_parser.*` | state of the text automaton | consume one character |
| RTP serialization | `rtsp/rtp_serialize/*`, `rtsp/rtp_session/*` | sequence number, buffer of fragments | packetize a frame (FU-A, FU), send over UDP or inside the TCP connection |
| RTMP | `rtmp/session.*`, `rtmp/session_manager.*` | list of push sessions, one frame ring and one connection each | create, delete, process_data, worker thread |
| MP4 recorder | `stream_save/mp4_save.*` | buffered frames, the two track ids, a thread | open, close, input, write |
| OSD, snapshot, VO, VI/ISP, sys | `device/dev_osd.*`, `dev_snap.*`, `dev_vo*`, `dev_vi*`, `dev_sys.*` | handles of the SDK | start, stop |
| AI: aiisp, yolov5 | `aiisp/*`, `device/dev_svp_yolov5.*` | models loaded, result queue | start, stop, detect |
| main | `main.cpp` | the order of starts and stops, thread_1s, the signal handler | start-up, do_exit |
| configuration, log, fonts | `json/*`, `log/*`, `device/ceanic_freetype.*` | | |

How they meet: the capture thread of the encoders posts every frame to its
observers (`stream_post`), which are the camera or the legacy channel, and
through it the RTSP stream manager, the RTMP manager and the MP4 recorder. The
RTSP server thread registers and removes handlers in the stream that the capture
thread is posting to, and writes the output buffers that the capture thread
fills. The RTMP sessions and the recorder each have a thread of their own behind
a ring of bytes. The camera layer is called by `main`, and by number from the
RTSP server thread (get_stream_head, request_i_frame, through chn_wrapper). main
starts the RTSP server first, then the channels, the capture thread and
thread_1s; do_exit stops them in the other order but leaves the server running.

Hard behaviours, by component (the list with lines is `hazards` in
`PROJECT.json`):

* starts that fail half-way and roll back while another camera allocates;
* the registry waiting for a camera while it is locked; the gap between the
  stop and the erase of destroy_camera;
* ids kept across a release of the tables;
* RTSP streams erased by the once-a-second check while sessions hold them,
  handlers left registered when a SETUP is repeated;
* output buffers, frame queues and time-outs at their limits, a time-out that two
  threads write;
* bytes of a connection cut into reads anywhere, with RTCP packets in between;
* a recorder closed, and encoders and inputs dismantled, with threads at work
  that take no mutex: only the order of do_exit keeps them apart;
* a camera remembered from the first look-up on.

What makes each part correct:

* the tables: an id is granted once, within the limit of its type and of its
  kind, and the availability queries agree with what an allocation would answer;
* the cameras: what a camera holds is its own and marked as taken, whatever is
  taken is held by some camera, a start that fails leaves nothing behind, a
  running camera is complete;
* the registry: it is empty when it is released, never keeps a camera locked for
  ever, and the cameras it gives up are stopped and go away;
* RTSP streams: one stream per key, nobody's stream is deleted by somebody else,
  a handler is never called after its connection is gone, the server thread gets
  past the mutexes of the capture thread;
* RTSP server: a request is handled once however it is cut, a client that plays
  does not lose its connection by its RTCP, a client that is there is not timed
  out, one that is gone is, replies get out;
* recorder: the file is a log of the frames that were accepted, the library is
  never called without a file, the exit completes;
* RTMP: what reaches the server can be decoded from its first byte on, records
  come out of the ring as they went in, a session that is gone left no thread
  and no connection.

## 2. The modules

| Module | Models | Extends / uses |
|---|---|---|
| `ResourceManager` | the allocation tables | |
| `Camera` | registry and cameras, on top of the tables | `ResourceManager` |
| `Lease` | abstract: resources leased to one holder at a time | |
| `CameraLease` | the refinement mapping from `Camera` to `Lease` | `Camera`, `Lease` |
| `ChnWrapper` | channels over cameras or legacy channels, look-ups by number | |
| `RtspStreams` | stream manager, streams, connections, handlers; server, capture and checker thread | |
| `RequestParser` | the automaton of the request parser, over classes of characters | |
| `RtspInput` | one connection's bytes in reads, requests out of them | `RequestParser` |
| `RtspServer` | select loop, sessions, time-outs, output; capture thread and clients | |
| `StreamBuf` | the ring of bytes, as operators | |
| `RtmpSessions` | RTMP manager and sessions with their threads | `StreamBuf` |
| `FrameLog` | abstract: what a recorder promises | |
| `Mp4Recorder` | recorder objects and their threads, as actions per object | `StreamBuf`, `FrameLog` |
| `LegacyChannel` | main, do_exit, legacy channel, capture thread, thread_1s, look-ups | `Mp4Recorder` |
| `CameraProofs`, `CameraOwnership`, `StreamBufProofs`, `RtmpProofs`, `LegacyProofs`, `RtspInputProofs`, `RtspServerProofs`, `RtspStreamsProofs` | theorems (those about the tables are in `CameraProofs`) | the module they are about |
| `MCCamera`, `MCRtspStreams`, `MCRtspInput`, `MCRtspServer`, `MCRtmpSessions`, `MCLegacyChannel` | small instances | |

### Tables, cameras, registry

`viAlloc`, `vpssAlloc` and `vencAlloc` are the three containers of
resource_manager; every call of it is one step because it takes and gives back
its mutex inside. The ids it hands out are counted from 0 and the lowest free
one is taken (`IsFirst`), as in the loops of the code.

`Camera` composes them with the registry and the camera objects. A thread is
inside at most one call; `pc`, `op`, `cam` are its place in it. A step of the
model is what happens between two calls of the tables, because that is where
other threads get in: a start is `StartAllocateVi`, `StartAllocateVpss`,
`StartInitVi`, then `StartNextStream` and `StreamStart` for every stream, and
`StartDone`. Every early return is a disjunct: the roll-back of the VI device in
allocate_resources (`RollbackVi`), followed by free_resources
(`FreeNextVenc`, `FreeGroup`, `FreeDevice`), the streams dropped by
`AbandonStreams`. The camera's mutex is `lock[c]`; the registry's is `cmLock`,
visible only in the calls that keep it while they wait for a camera. Shared
pointers are counted by who refers to the object: the registry, a client
(`ref`), the encoders (`streams`); `Destructor` runs when nobody is left. That it
does not run earlier is what a shared pointer is, and no property says so. It may
never run: the encoders of a running camera own a reference to it, so a client that
keeps its reference over destroy_camera, starts the camera again and drops the
reference leaves a camera that nobody can stop. No property promises otherwise.
`StoppedHoldsNothing` is about devices, groups, channels and streams. The VI
pipeline is not part of it: stop neither stops nor drops m_vi_ptr, and a stopped
camera keeps one that is on. What the sensor, the pipeline and the encoders do is
either fixed by the configuration (`HasVi`, `HasEncoder`) or outside.

### Wrapper

`ChnWrapper` is about which camera answers. A camera is a number, new for every
camera that is created; what it does while it starts is in `Camera`. `wrapper`
is the chn_wrapper objects, `cameras` the registry by number, `legacy` the array
of legacy channels. The application thread runs one call at a time; start of a
camera is two steps (`StartCreate`, `StartCamera`), because a look-up of the
server thread may come in between. `cached` is the static variable in each
look-up: empty until the first call, then what that call found.

### RTSP streams

`list` is the list of stream_manager, `stock` the stream objects with their
observers, `hdl` the handlers, `conn` the connections. The server thread is one
thread for all connections, so a request is one step, except where it calls
something that waits for the capture thread: SETUP is `Setup` and `Register`,
stop_play is `StopHandler`, `Unregister` for each handler and
`StopPlayDelStream`, the end of a connection is `CloseSession`, the same steps
and `Gone`. The capture thread holds m_stream_mu and the observers' mutex for a
whole post (`Frame`, then `Deliver` and `Send` per handler, `EndPost`); that
`cap.obj` is set is what "locked" means to the others. The checker thread is
`Tick` and `Check`. Objects behind shared pointers disappear when nothing refers
to them (`LivingStock`, `LivingHdl`). A handler over TCP keeps a plain reference
to its connection, so `Gone` clears `owner` and a call of such a handler would
be a call into freed memory: `CallsLiveSession` says it does not happen.

A connection begins with a zeroed media head, which in the program's numbering is video
of H.264 and no audio (`Closed`): a SETUP that comes before any DESCRIBE finds a
codec for the video track.

`Ordered` is an assumption about clients, not about the code: DESCRIBE once,
SETUP once per track, PLAY, TEARDOWN last. Without it `CallsLiveSession` and
`NothingLeftBehind` do not hold (a second SETUP of a track forgets a registered
handler); the other properties do.

### RTSP connections

`RequestParser` translates request_parser::consume into a table (`Consumes`) of
state, class of characters and next state; the classes are those that the code's
comparisons tell apart. Of the headers only Content-Length is kept, because it
decides where the request ends; `TakeHead` and `TakeBody` are what parse does to
the request with a character of the head and with a piece of the body. The loops
of parse and of rtsp_session::handle_read are the actions of `RtspInput`: `Read`
brings a chunk, `ParseHead` takes a character, `ParseBody` a piece of the body,
and `ParseEnd` returns to select. A request that is complete is handled
(`Process`) and the parser is reset. `Grant` is what the handler makes of it: SETUP is refused while
playing, PLAY unless in the state SETUPED, and any request may be refused for
what `RtspStreams` models; a DESCRIBE that succeeds takes `state` back to
DESCRIBED also from PLAYING, TEARDOWN takes PLAYING to IDLE and shuts the socket.
`granted` is the history of these answers. What is no request ends the connection
or, in the state PLAYING, is dropped as RTCP with the rest of the chunk. So a client
that sends DESCRIBE behind its PLAY loses the connection at its next RTCP packet, and
`OnlyIdleRtcpRefused` says that this, RTCP before PLAY and TEARDOWN are the only
ways.
What comes out is compared with `Alone`, the parser after each character of a
message that is read on its own. What a client sends is a parameter: any
requests that the parser takes to their end and no further (`IsRequest`), and any
packets that it refuses inside a head (`IsRefused`). TLC evaluates that the six
messages of the run are such.
`AloneRtcp` is an assumption about the network: a packet of RTCP comes in a read
of its own. Without it the requests that share its read are lost.

`RtspServer` is the select loop. It looks at sessions when select reports data
(`ServeRequest`, `ServeEnd`, `Accept`) and at time-outs and outputs when nothing
is reported (`RoundStart` and what follows). A round counts down both time-outs
when a second has passed; the one for RTCP is read (`RoundReduce`) and written
back (`RoundWrite`) in two steps, because the capture thread writes it in between
(`PacketTcp`, `PacketUdp`) and its value is then lost. Output is counted in
packets, in the buffer (`out`) and in the sockets (`sock`); `owed` is how far the
last reply is from the front. `quiet` and `idle` are the history that
`NotTimedOutEarly` is about. `Noticed` says which packets reset `idle`: those
whose value the server does not overwrite. A store that is lost is thereby
not counted as a sign of life: the property is about the judging, not about the loss.

### Recorder and legacy channel

`Mp4Recorder` has the actions of one recorder object: construct, open,
input_data, the two halves of close (`CloseFlag`, then `CloseDestroy` after the
join), the destructor, and the thread's `ThreadCheck`, `ThreadTake`,
`ThreadWrite`. A record is a header of two cells and one cell per byte. `taken`
and `filed` are the frames accepted and the frames handed to the MP4 library:
the variables of `FrameLog`, which the recorder refines.

`LegacyChannel` composes recorders with everything around them. `main` walks
from `"start"` through start-up to `"run"` and, when a signal comes (`Quit`, at
any moment), through do_exit: join thread_1s, stop_save, stop the capture
thread, stop the channel in the four steps of chn::stop. The capture thread is
`Select`, the walk over the list of encoders, and for a frame of the main stream
the two reads of m_save (`MainFrame`, `Dereference`), with the call of the
recorder after them. Where the code would use a null or freed pointer
(`Dereference`, `InputGone`, `UseEncoder`), the step may end the process
(`crashed`); the properties do not say this never happens, because it can.

This composition is that of the program over `dev::chn`, which chn_wrapper hands
everything to in its legacy mode. With the camera manager, main starts and stops
things in the same order, but there is no recorder: chn_wrapper::start_save logs
and returns. The signal is taken to be handled by the thread of main; on a
thread that do_exit joins, join would throw, and do_exit would stop nothing more.

### RTMP

`mgr` is the call that holds m_sess_mu; it visits the sessions of the frame's
stream one by one and the nalus of the frame one by one, and between these steps
the sessions' threads run. A failing input (a closed connection, a full ring, a
nalu that is refused) stops the session in the three steps of session::stop
(`StopFlag`, `StopClose`, `StopJoin`) and erases it. A session's thread is
`CheckStart`, `Take`, `SendSpsPps`, `SendAacSpec`, `ProcessVideo`. A record is a head
cell and the cells of its body, put into a `StreamBuf` ring byte offsets and all,
so that wrapping around is part of what is checked. A cell carries the number and
kind of its frame and its place in the record, which is all the properties tell
apart.

Each of the three sends takes the thread into librtmp (`sending`), and `EndSend`
takes it back: the send succeeded or it closed the connection, and nobody looks
at which. Nothing makes it come back: `EndSend` and `StopClose`, which sends
messages of its own, have no fairness. `Link.timeout` (rtmp/session.cpp:36) bounds
connecting and receiving; a peer that is there and does not read holds a send,
`RTMP_Close` on another thread does not wake it, and the join of stop() waits for
it under m_sess_mu.

The parameter sets of a session are numbered by the key frame they came with.
The thread copies both without the mutex under which input_one_nalu replaces them,
so what it sends may be of a later key frame than the record it has in its hand.
`Playable` says it is never of an earlier one. A copy that is torn, of two key
frames' sets, counts as the older; whether a decoder can use its bytes is not
modelled. `Create` is one step: the call holds m_sess_mu while it connects, and
what waits for it waits as for any other call.

## 3. What the runs check

| Run | Instance | Shows |
|---|---|---|
| camera_app | 2 cameras, 2 threads, 2 devices, 1 group, 2 channels of which 1 is H.264 and 2 are H.265 | the calls chn_wrapper makes, with starts failing at each step; refinement of `Lease`; no camera stays locked |
| camera_calls | 2 cameras, 2 threads, 1 place in the registry, 3 channels | every call: streams created and destroyed, references dropped, registry and tables released and initialized again |
| rtsp_ordered | 1 key, 3 stream objects, 2 clients with 2 tracks, 5 handlers | client leaves during a post while the other watches the same stream, checker drops streams |
| rtsp_any_order | 2 keys, 2 stream objects, 1 client with 1 track in any order | one stream per key, PLAY has a stream, the server returns |
| rtsp_input | every sequence of 3 messages of 6 kinds, every 2 behind SETUP and PLAY, one that plays twice; reads of up to 20 characters | requests come out whole, once, in order, however they are cut; who plays keeps the connection |
| rtsp_server | one client that does everything, one that only asks | nobody is timed out early, the silent are let go, replies arrive |
| rtmp_sessions | 1 session, ring of 5 cells, 4 frames of 1 or 2 cells | decodable output, intact records, clean ends; while the peer reads, no caller is held up for ever |
| recorder | 1 recorder, ring of 7 cells, 4 frames of 1 or 2 cells | the file is a log of frames, nothing is dismantled under a thread, the exit completes |

Four more runs each refute one sentence of the repository:

* `pipeline_mode`: the mode of the documentation and of the validation is
  `liner`, init_vi asks for `linear`; every plain configuration gets the WDR
  pipeline.
* `destroy_race`: between the stop and the erase of destroy_camera the camera is
  unlocked; a start of another thread leaves a running camera that is in no
  registry.
* `destructor_leak`: "Resources are automatically freed in destructors". A stream
  created on a stopped camera takes a channel; destroy_stream keeps it, and the
  destructor's stop returns at once because the camera is not running.
* `stale_camera`: "Can I use multiple cameras with the wrapper? Yes". The two
  look-ups answer every channel with the camera of their first call, also after
  that camera is gone, and with none when a client came before start.

### Bounds, and why they are enough

Cameras: two cameras and two threads are enough for each of the hazards, which
are all about one thread's call between two steps of another's. The limits of
the tables are chosen so that some start always runs out: a single VPSS group
makes the roll-back of the VI device happen while the other camera allocates, and
of the limits per type one binds before the limit of the kind and one with it.
`IdsPerCamera` is 1 instead of 10: automatic ids then collide with the explicit
id 0. `camera_calls` has more kinds of calls and therefore one place in the
registry; a second camera lives outside it, by a reference.

RTSP streams: `DeadAfter` is 0 instead of 5, so that the checker may drop a
stream one tick after its last frame. Three stream objects let two clients hold
an orphan each while a third is listed. Five handlers are one more than two
clients with two tracks use: a handler may still be in a post while its
successor exists. `Tick` stops counting at DeadAfter + 1.

RTSP input: the messages are DESCRIBE with a folded header, SETUP, PLAY and
TEARDOWN without headers, a request of another method with a body, and RTCP. Three
in a row put each of them before, between and after the others; two behind SETUP and
PLAY have each of them while the client plays, RTCP behind DESCRIBE among them; the
sequence of six leaves PLAYING and comes back. Reads of 1 to 20 characters cut a message at every place, and the
longest may end a request, hold the shortest (18) and begin a third. The run ends when the
input is used up, so it does not check for deadlock.

RTSP server: the time-outs are 1 instead of 60 and the extra time is 1 instead of
3; what matters is which of them reaches 0 first and what happens in the tick
before. The output holds two packets and the sockets one, so a reply may be put
behind a packet, and both may be full. The first client makes three requests,
enough for SETUP, PLAY and TEARDOWN; the second one request, so that the round
visits two sessions. The clients' requests are bounded and the server may end, so
the run does not check for deadlock.

Recorder: the records take three or four cells and the ring has seven: two
records fit or one and a rest, the next one wraps around, and a frame is refused
when both are in. Four frames wrap twice. The process ends, so the run does not
check for deadlock.

RTMP: a record is two or three cells and the ring has five, so one of each fits
exactly, the third overflows, and a record put after a read lies across the end of
the ring, cut before and inside its body. Four frames are a key frame, one that is
lost or sent, one after it, and one for a session that is created again. There
is one session: what a session does depends on its own ring, its own connection and
the manager, and the manager serves one session at a time; that the safety
properties hold for any number of sessions is proved. `ManagerReturns` for several
sessions is not checked.

Wrapper: two channels, of which the array of legacy channels holds one, and three
cameras, so that one is stopped and started anew.

Symmetry is used in camera_calls, pipeline_mode, destructor_leak and rtsp_ordered,
for invariants and for `WatchedStreamStays`, `ViewersStayRegistered` and
`FreedByDestructor`, formulas `[][...]` that do not tell cameras, threads, clients or objects apart; never in a
run with a liveness property.

### Fairness

* `Camera`: weak fairness of the steps inside a call, per thread; a thread that
  is inside a call and not blocked goes on. Nothing is assumed about clients
  making calls.
* `RtspStreams`: weak fairness of the capture thread inside a post, and strong
  fairness of the server thread inside a request: it waits for mutexes that the
  capture thread takes for every frame and frees between frames, and the
  mutexes of the platform do not starve a waiting thread for ever. No fairness
  for frames, ticks or requests.
* `RtspServer`: weak fairness of the server thread's steps and of a client that
  reads what arrived; strong fairness of a round that finds a new second, because
  rounds come every 10 ms and no clock jumps over all of them. Clients make a
  bounded number of requests, so they do not keep select busy for ever; a server
  that they do keep busy writes no output (server.cpp:122). Frames need not come.
* `LegacyChannel`, whose `ExitCompletes` begins where do_exit joins on main's
  thread and says nothing of a join that throws: weak fairness of main, of the
  capture thread, of thread_1s and of the recorder's thread: select comes back within its time-out, the recorder
  sleeps 10 ms at a time. Nobody has to send a signal or to connect.
* `RtmpSessions`: weak fairness of the manager's call and of each session's
  thread in the program's own code, none of what is inside librtmp (`EndSend`,
  `StopClose`). `ManagerReturns` therefore has a premise about the peers,
  `PeersRead`: whoever is in a send, or in RTMP_Close, comes back. What is left to
  show is that the rest of the way has no other trap (m_bstart read without a
  mutex, the join, the erase). Without the premise the property is
  false: one peer that does not read stops the capture thread and all other
  sessions, which is a hazard of the code and not excluded by it.

## 4. What is proved

All of it holds for every value of the constants that satisfies the assumptions
of the modules (the limits are numbers, the null values are not in the sets).

* `CameraProofs`, about the tables: `RmTypeCorrect`, `LimitsRespected`, `QueryIsRight` and
  `UninitializedIsEmpty`. The limit of a type is preserved because an allocation
  adds one id to a set that was below its limit (`GrantStaysWithin`), the rest is
  subsets (`FewerStaysWithin`). That "available" means that the allocation will
  find a channel rests on two facts about the scan: fewer taken channels than
  `MaxVenc` leave a free one (`RoomMeansFree`, by counting), and a set of numbers
  that is not empty has a first one (`ScanFinds`).
* `CameraProofs`, about the cameras: `TypeCorrect` and `CameraMutex`, from one
  inductive invariant `IInv`. Type correctness is not inductive alone: a step
  inside a call uses `cam[t]`, which is a camera only because the control state
  says so (`Control`, `Locals`), and a lock is only given back by its holder
  because the thread between first and last step of a call has it
  (`OneThreadPerCamera`). `Objects` says that what is registered, running or
  locked is not destructed, so a call that found its camera still has it. There is one lemma per action.
  `ReleasedIsEmpty` is an invariant by itself; its one interesting step is
  `ManagerErase` of a release.
* `CameraOwnership` has four groups of theorems.
  `CamerasUseTables` holds without any assumption on the clients: whatever the
  cameras do, the tables under them follow `SpecRm`, the specification of the
  tables alone. So the theorems about the tables carry over to the cameras
  (`CamerasWithinLimits`, `CamerasAskRight`, `ReleasedTablesAreEmpty`) and are not
  proved twice.
  `Exclusive` and `HeldStaysAllocated` are for clients that do not release the
  tables under live cameras (`"release" \notin Calls`). The argument: a grant is
  exclusive because all that is held is marked, a free takes only what the
  freeing camera holds, and the channel that create_stream_internal rolls back is
  not yet among the camera's channels. The steps are first shown to be one of a
  few per-resource moves (`OwnStep`), and the invariant is shown for those moves.
  `StoppedIsEmpty`, `TakenIsHeld` and `CamerasLease` are for clients that neither
  release the tables nor call create_stream themselves
  (`Calls \cap {"create_stream", "release"} = {}`). With create_stream on a stopped
  camera the three are false of the code: the destructor drops the channels, which
  the run `destructor_leak` shows. The invariant is `Tidy`: a camera that is not
  running and not in a call has nothing, and a camera in a call has what the place
  in the call says. It is needed because a start writes `m_vi_dev` and
  `m_vpss_grp` without looking at them: an id that was still there would be
  overwritten and lost. With `Tidy` every step is one grant, one return or neither
  (`LeaseStep`), which gives both `TakenIsHeld` and the refinement of `Lease`.
  `RunningComplete` also excludes destroy_stream, which takes a stream from a
  running camera and is not meant to leave it complete. Its invariant `Building`
  says what is there at each place of start: the first `idx - 1` configured
  streams, and for each encoder type as many channels as there are such streams
  among them (`Built`). A step of another camera cannot change the type of a
  channel this one has (`OthersChannels`, from `Owned`), and one more stream adds
  one to both counts because its channel is new to the camera (`OneMore`).
* `StreamBufProofs`: `InputAppends` and `GetRemovesFront`: the ring is a queue.
  For any capacity, offset and fill, what a reader reads after input_data is
  what it would have read before, then the new bytes; after get_data it is the
  rest. The offset may be one past the end, which the code allows after a get
  that ends there.

* `RtmpProofs`: all four invariants of `RtmpSessions`: `RtmpTypeCorrect`,
  `ErasedSessionsOver`, `RecordsStayIntact` and `AlwaysPlayable`, for any sessions,
  any ring and any frames, from the inductive invariant `RInv`. `Whole` describes a
  ring locally (a head is followed by its body, a body by the head of the next
  frame), so that a record put behind the others and the first one taken out
  leave a whole ring; the two theorems about the ring make this independent of
  where it wraps. `Continuous` carries the numbers of the frames from what was
  sent over the record in the thread's hand and the ring to the next frame the
  manager will bring (`LastNo` is one lower while its call has not come to the
  session yet); it is stated for an open connection, because the first record that
  does not fit closes it. `Configured` says that the parameter sets a session has
  are not older than any key frame in its ring, also while newer ones replace
  them, which needs the place of the manager in its loop over
  the nalus (`Serving`).
* `LegacyProofs`, about the life of the recorders: `WritersHaveFiles` and
  `DismantledAlone`: for any number of recorders, sizes and frames, the library is called only with an open file of a
  living recorder, and no capture or snapshot is under way when chn::stop takes
  the encoders and the input away. Both are about the order of do_exit, so the
  inductive invariants relate the place of `main` to the state of the other
  threads: a thread that was joined is `"ended"` and is not started again, a
  recorder that is writing is the one m_save refers to and is open, or is being
  closed by `main` at `"closing"`. The recorder's own actions are treated once,
  as a step of any of its owners (`RecorderStep`, `StopStep`).
* `LegacyProofs`, about what is in the files: `ChannelTypes` and `RecorderIsLog`, the
  refinement of `FrameLog`. What the abstract log calls taken and not yet filed is
  in the code bytes of a ring, a header before each frame's body. `Kept` relates
  the two without recursion: an offset function places the frames that are not
  filed one behind the other in the ring, the first where the thread will read
  next, each as long as its header says (`Queued`). input_data extends the
  function at its end, a get moves all offsets down, and the theorems about the
  ring (`StreamBufProofs`) say that the bytes behind stay as they are, so it does
  not matter where the ring wraps. Type correctness needs the same invariant: that
  the ring holds bytes of frames is what makes a get return a record.
* `RtspInputProofs`: `InputTypes`, `InputCutsDoNotMatter` and
  `InputOnlyIdleRtcpRefused`, for any requests, any sequence of them, any size of
  the buffer and any cutting into reads. The invariant `InStep` is what makes cuts
  harmless: at every step of the loops there are `i` and `k` such that the bytes
  parsed so far are `i` messages and `k` bytes of the next one, the parser is where
  it would be after these `k` bytes alone (`Amid`), the requests among the `i`
  messages were handled, and the state is PLAYING if by the history of what was
  granted the client plays (`PlaysAfter`). Nothing about the reads occurs in it. A
  request that is handled extends that history and changes nothing before
  it (`GrantedStays`), so after it the client plays only if it did before or was
  granted PLAY, and not if it was granted DESCRIBE or TEARDOWN (`PlaysRequest`). A packet of RTCP is refused before its end
  (`RefusedInside`), and because it came alone (`RtcpApart`) the chunk that is
  dropped with it is the rest of the packet and nothing else. A body in pieces is
  the body in one (`BodyAlone`, `BodyPiece`), and what a request lacks is what is
  left of the message (`MissingAlone`).
  What clients send, and what the parser does alone, are recursive functions, so
  the lemmas are inductions over bytes and messages. The library's induction
  theorems take an operator as a parameter, which the provers cannot instantiate;
  `SetInduction` says the same of a set of naturals and follows from the pigeonhole
  principle, and `RecursionExists` gives from it that a recursive function is what
  its definition says.
* `RtspServerProofs`: `ServerTypeCorrect` and `NobodyTimedOutEarly`. The invariant
  `Counted` says that the time a client has been silent is never less than what
  was taken off its time-out. For the RTCP time-out this is about two threads:
  between the capture thread's read of it and its store, what counts is the value
  that will be stored (`InHand`).
* `RtspStreamsProofs`, for any keys, streams, handlers, tracks and clients. In any
  order of the requests: `StreamTypes`, `KeysAreUnique`, `PlayFindsStream`,
  `WatchedStays` and `ViewersStay`, from the invariant `StreamInv`. `SetUpHasStream` is about a state of
  the connection and a pointer that two different requests write; it needs to
  know where the server thread is in stop_play (`ServerKnows`, `WithoutStream`).
  `PostKeepsStream` is the part about the capture thread: the stream it posts to
  stays listed, and those it has still to call are still registered, because
  the server thread waits for the end of the post. `ViewersStay` needs two facts
  more: a handler refers to one connection only (`HandlersOwned`, a part of
  `StreamInv`), and the tracks of a connection have handlers of their own
  (`TracksApart`), so taking out one handler takes out no other.
  For clients that keep the order DESCRIBE, SETUP per track, PLAY, TEARDOWN
  (`Ordered`): `NothingStaysBehind` and `CallsAreLive`. The assumption is needed:
  with a second SETUP or a DESCRIBE of another stream a handler is forgotten while
  it is registered (the hazard at rtsp_request_handler.cpp:484), and TLC finds both
  violated with `Ordered = FALSE`.

Only model-checked:

* everything temporal under fairness (`CameraLockReleased`, `ServerReturns`,
  `ManagerReturns`, `ExitCompletes`, `FollowedFrameFiled`, `SilentLetGo`,
  `RepliesArrive`), which is out of the prover's reach;
* the findings of the runs that expect a violation, and `ChnWrapper`.

## 5. What is not modelled

Most of the repository's lines are not the program's: headers of gpac and
freetype, register tables of the sensors and the vendor's ISP glue. They hold no
state machine of this program.

* Audio in RTMP and in the recorder: nothing in the program posts audio frames.
  If it did, input_audio_frame of RTMP would write the ring without its mutex.
* RTP over UDP except for its time-out: sockets, the search for free ports, and
  get_transport, which reads the client's ports with scanf from standard input,
  so that the server would wait there.
* The layout of RTP packets and of RTMP tags, the text of answers, the headers of
  a request other than Content-Length. Output is counted in packets.
* RTCP packets that are cut or share a read with a request (`AloneRtcp`): they
  cost the requests of that read.
* A second SETUP of a track (`Ordered`): it forgets a registered handler.
* What the server does after accept has failed: its loop ends (`"ended"`), which
  the liveness properties allow for.
* get_stream_head of a camera, which searches m_streams on the server thread
  without the mutex that start and stop hold: the outcome of searching a map
  during an insertion has no model.
* The hardware numbers of encoder channels: the code takes them from a counter,
  not from the tables. The model is about the tables. stream_instance::start
  ignores whether its encoder started (camera_instance.cpp:68).
* What SDK calls do, beyond succeeding or failing where the code looks at it:
  VI, ISP, VO, sys, sensors, AI-ISP, yolov5, OSD, snapshots. These parts are
  sequences of such calls.
* Feature flags and status queries of cameras, can_create_camera among them.
* The configuration files, the log and the fonts.

## 6. Plan

1. `RtpPackets`: fragmentation of a nalu and its reassembly as functions, checked
   over bounded sizes, sequence numbers modulo 2^16.
2. "Frames of a key reach the viewers of that key" over `RtspStreams`.
3. RTP over UDP: the pool of ports, bound and released.

Theorems worth proving next: what of the lease survives when clients create
streams of their own but keep their references, so that the destructor that
drops the channels never runs; "a stream that a viewer set up is the one listed
under its key as long as the viewer plays" over `RtspStreams`.
