----------------------------- MODULE ChnWrapper -----------------------------
(***************************************************************************)
(* chn_wrapper: the channels of the program, each over a camera of the new *)
(* registry or over a legacy channel, and the two look-ups the RTSP server *)
(* makes by channel number.                                                *)
(*                                                                         *)
(* The application thread calls init, makes, starts, stops and drops       *)
(* channels, and releases; the server thread looks up at any moment: main  *)
(* starts the server before it calls init.  What a camera does while it    *)
(* starts and stops is in Camera, a legacy channel in LegacyChannel; here  *)
(* a camera is a number, new for every camera that is created.             *)
(***************************************************************************)
EXTENDS Naturals

CONSTANTS
  Chn,       \* channel numbers, m_chn
  LegacyChn, \* those below MAX_CHANNEL, which g_chns has a place for
  MaxMade    \* bound: cameras and legacy channels that are started

VARIABLES
  manager,   \* s_camera_manager_initialized and the registry's m_initialized
  cameras,   \* m_cameras: the camera registered for a number
  legacy,    \* g_chns: the legacy channel started for a number
  wrapper,   \* the chn_wrapper objects
  starting,  \* the channel whose start() is between create_camera and its end
  cached,    \* pCameraIndex of each look-up, a static of the function: {}
             \* until the first call
  answer,    \* the last look-up: who answered, who was there to answer
  made       \* bound: cameras so far

vars == <<manager, cameras, legacy, wrapper, starting, cached, answer, made>>

NoCamera == 0
NoChn == "no channel"
LookUps == {"get_stream_head", "request_i_frame"}
NoWrapper == [made |-> FALSE, useLegacy |-> FALSE, started |-> FALSE, camera |-> NoCamera]

Init ==
  /\ manager = FALSE
  /\ cameras = [c \in Chn |-> NoCamera]
  /\ legacy = [c \in Chn |-> NoCamera]
  /\ wrapper = [c \in Chn |-> NoWrapper]
  /\ starting = NoChn
  /\ cached = [f \in LookUps |-> {}]
  /\ answer = [by |-> NoCamera, there |-> NoCamera]
  /\ made = 0

\* resource_manager or camera_manager may refuse; that chn::init fails is told
\* to the caller, which main does not look at.
InitWrapper ==
  /\ starting = NoChn
  /\ \E ok \in BOOLEAN : manager' = (manager \/ ok)
  /\ UNCHANGED <<cameras, legacy, wrapper, starting, cached, answer, made>>

\* Without the new registry a channel is a legacy channel for good.
Make(c) ==
  /\ starting = NoChn /\ ~wrapper[c].made
  /\ wrapper' = [wrapper EXCEPT ![c].made = TRUE, ![c].useLegacy = ~manager]
  /\ UNCHANGED <<manager, cameras, legacy, starting, cached, answer, made>>

MayStart(c) == starting = NoChn /\ wrapper[c].made /\ ~wrapper[c].started /\ made < MaxMade

StartLegacy(c) ==
  /\ MayStart(c) /\ wrapper[c].useLegacy /\ c \in LegacyChn
  /\ made' = made + 1
  /\ legacy' = [legacy EXCEPT ![c] = made + 1]
  /\ wrapper' = [wrapper EXCEPT ![c].started = TRUE]
  /\ UNCHANGED <<manager, cameras, starting, cached, answer>>

\* create_camera; a number that is in the registry is refused.
StartCreate(c) ==
  /\ MayStart(c) /\ ~wrapper[c].useLegacy
  /\ manager /\ cameras[c] = NoCamera
  /\ made' = made + 1
  /\ cameras' = [cameras EXCEPT ![c] = made + 1]
  /\ wrapper' = [wrapper EXCEPT ![c].camera = made + 1]
  /\ starting' = c
  /\ UNCHANGED <<manager, legacy, cached, answer>>

\* destroy_camera; a released registry is empty
Erased(c) == [cameras EXCEPT ![c] = NoCamera]

StartCamera(c) ==
  /\ starting = c
  /\ \/ /\ wrapper' = [wrapper EXCEPT ![c].started = TRUE]
        /\ UNCHANGED cameras
     \/ /\ wrapper' = [wrapper EXCEPT ![c].camera = NoCamera]
        /\ cameras' = Erased(c)
  /\ starting' = NoChn
  /\ UNCHANGED <<manager, legacy, cached, answer, made>>

\* What stop() leaves of the wrapper w.
Stopped(w) == [w EXCEPT !.started = FALSE, !.camera = NoCamera]

StopTables(c) ==
  /\ legacy' = IF wrapper[c].useLegacy THEN [legacy EXCEPT ![c] = NoCamera] ELSE legacy
  /\ cameras' = IF wrapper[c].camera # NoCamera THEN Erased(c) ELSE cameras

Stop(c) ==
  /\ starting = NoChn /\ wrapper[c].started
  /\ StopTables(c)
  /\ wrapper' = [wrapper EXCEPT ![c] = Stopped(@)]
  /\ UNCHANGED <<manager, starting, cached, answer, made>>

\* The destructor stops as well.
Drop(c) ==
  /\ starting = NoChn /\ wrapper[c].made
  /\ IF wrapper[c].started THEN StopTables(c) ELSE UNCHANGED <<cameras, legacy>>
  /\ wrapper' = [wrapper EXCEPT ![c] = NoWrapper]
  /\ UNCHANGED <<manager, starting, cached, answer, made>>

\* The registry forgets its cameras; the wrappers keep theirs.
Release ==
  /\ starting = NoChn
  /\ manager' = FALSE
  /\ cameras' = [c \in Chn |-> NoCamera]
  /\ UNCHANGED <<legacy, wrapper, starting, cached, answer, made>>

\* get_stream_head and request_i_frame, on the thread of the server
LookUpLegacy(c) ==
  /\ ~manager /\ c \in LegacyChn
  /\ answer' = [by |-> legacy[c], there |-> legacy[c]]
  /\ UNCHANGED <<manager, cameras, legacy, wrapper, starting, cached, made>>

\* The static is initialized by the first call, for the channel of that call.
LookUp(f, c) ==
  /\ manager
  /\ \E found \in IF cached[f] = {} THEN {cameras[c]} ELSE cached[f] :
       /\ cached' = [cached EXCEPT ![f] = {found}]
       /\ answer' = [by |-> found, there |-> cameras[c]]
  /\ UNCHANGED <<manager, cameras, legacy, wrapper, starting, made>>

Next ==
  \/ InitWrapper \/ Release
  \/ \E c \in Chn :
       \/ Make(c) \/ StartLegacy(c) \/ StartCreate(c) \/ StartCamera(c) \/ Stop(c) \/ Drop(c)
       \/ LookUpLegacy(c)
       \/ \E f \in LookUps : LookUp(f, c)

Spec == Init /\ [][Next]_vars

-----------------------------------------------------------------------------
\* A look-up of a channel is answered by the camera registered for it at that
\* moment: "Can I use multiple cameras with the wrapper?  Yes".
AnsweredByItsCamera == answer.by = answer.there
=============================================================================
