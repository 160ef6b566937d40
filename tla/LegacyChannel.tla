--------------------------- MODULE LegacyChannel ---------------------------
(***************************************************************************)
(* dev::chn with its recorder and its encoders, the capture thread         *)
(* (venc::on_capturing), thread_1s and do_exit of main.cpp, and the        *)
(* RTSP server's look-ups: the application over the legacy channel, which  *)
(* is what chn_wrapper passes everything to in its legacy mode (a build    *)
(* whose init leaves the camera manager out, or that uses chn directly).   *)
(* With the manager the order of starts and stops in main is the same, but *)
(* there is no recorder: chn_wrapper::start_save only says so.             *)
(*                                                                         *)
(* None of the threads takes a mutex outside the recorder; what keeps them *)
(* apart is the order in which main starts and stops them.  A call into    *)
(* what is not there any more may return or end the process.               *)
(***************************************************************************)
EXTENDS Mp4Recorder

CONSTANT NoSave  \* the null m_save

ASSUME NoSaveAssumption == NoSave \notin Rec

VARIABLES
  main,    \* where main, and later do_exit in the signal handler, is
  chn,     \* m_is_start, the encoders' and the input's pointers, g_chns, m_save
  vencs,   \* g_vencs
  cap,     \* the capture thread, and g_is_capturing
  sec,     \* thread_1s, and g_thread_run
  srv,     \* the RTSP server thread inside a look-up, or not
  made,    \* frames the encoder of the main stream delivered
  crashed

vars == <<rec, taken, filed, main, chn, vencs, cap, sec, srv, made, crashed>>
appVars == <<main, chn, vencs, cap, sec, srv, made, crashed>>

Stream == {"main", "sub"}

StartingUp == {"start", "capture", "save", "open", "second"}
Exiting == {"join", "stop_save", "closing", "reset", "stop_capture", "join_capture",
            "stop", "erase", "parts", "unregister"}

Init ==
  /\ RecorderInit
  /\ main = "start"
  /\ chn = [started |-> FALSE, parts |-> FALSE, reg |-> FALSE, save |-> NoSave]
  /\ vencs = {}
  /\ cap = [pc |-> "none", run |-> FALSE, todo |-> {}, frame |-> NoFrame, obj |-> NoSave]
  /\ sec = [pc |-> "none", run |-> FALSE]
  /\ srv = "idle"
  /\ made = 0
  /\ crashed = FALSE

Running == main # "exited" /\ ~crashed

-----------------------------------------------------------------------------
(* main: the channel, the capture thread, the recorder, thread_1s.          *)

\* chn::start; when an encoder does not start everything is given back.
ChnStart(ok) ==
  /\ main = "start"
  /\ main' = "capture"
  /\ IF ok THEN /\ chn' = [chn EXCEPT !.started = TRUE, !.parts = TRUE, !.reg = TRUE]
                /\ vencs' = Stream
           ELSE UNCHANGED <<chn, vencs>>
  /\ UNCHANGED <<recVars, cap, sec, srv, made, crashed>>

StartCapture ==
  /\ main = "capture"
  /\ main' = "save"
  /\ cap' = [cap EXCEPT !.run = TRUE, !.pc = "check"]
  /\ UNCHANGED <<recVars, chn, vencs, sec, srv, made, crashed>>

\* start_save: m_save is there before it is open,
NewSave(r) ==
  /\ main = "save" /\ chn.started
  /\ Construct(r)
  /\ chn' = [chn EXCEPT !.save = r]
  /\ main' = "open"
  /\ UNCHANGED <<vencs, cap, sec, srv, made, crashed>>

\* not enabled, or not started
NoStartSave ==
  /\ main = "save"
  /\ main' = "second"
  /\ UNCHANGED <<recVars, chn, vencs, cap, sec, srv, made, crashed>>

OpenSave(ok) ==
  /\ main = "open"
  /\ Open(chn.save, ok)
  /\ main' = "second"
  /\ UNCHANGED <<chn, vencs, cap, sec, srv, made, crashed>>

StartSecond ==
  /\ main = "second"
  /\ main' = "run"
  /\ sec' = [pc |-> "check", run |-> TRUE]
  /\ UNCHANGED <<recVars, chn, vencs, cap, srv, made, crashed>>

StartUp ==
  \/ \E ok \in BOOLEAN : ChnStart(ok) \/ OpenSave(ok)
  \/ StartCapture
  \/ \E r \in Rec : NewSave(r)
  \/ NoStartSave
  \/ StartSecond

-----------------------------------------------------------------------------
(* on_quit and do_exit.                                                     *)

\* A signal.  While main starts up there is no thread_1s to join: join throws,
\* do_exit stops nothing more and the process ends.
Quit ==
  /\ main \in StartingUp \cup {"run"}
  /\ main' = IF main = "run" THEN "join" ELSE "exited"
  /\ sec' = [sec EXCEPT !.run = FALSE]
  /\ UNCHANGED <<recVars, chn, vencs, cap, srv, made, crashed>>

\* Mutant: thread_1s is not waited for.
JoinSecondNot ==
  /\ main = "join"
  /\ main' = "stop_save"
  /\ UNCHANGED <<recVars, chn, vencs, cap, sec, srv, made, crashed>>

JoinSecond ==
  /\ main = "join" /\ sec.pc = "ended"
  /\ main' = "stop_save"
  /\ UNCHANGED <<recVars, chn, vencs, cap, sec, srv, made, crashed>>

\* stop_save with nothing to close
NothingSaved ==
  /\ main = "stop_save" /\ chn.save = NoSave
  /\ main' = "stop_capture"
  /\ UNCHANGED <<recVars, chn, vencs, cap, sec, srv, made, crashed>>

\* stop_save: close, which does nothing when open has failed,
StopSave ==
  /\ main = "stop_save" /\ chn.save # NoSave
  /\ IF rec[chn.save].open
       THEN CloseFlag(chn.save) /\ main' = "closing"
       ELSE rec[chn.save].lock = "free" /\ main' = "reset" /\ UNCHANGED recVars
  /\ UNCHANGED <<chn, vencs, cap, sec, srv, made, crashed>>

CloseSave ==
  /\ main = "closing"
  /\ CloseDestroy(chn.save)
  /\ main' = "reset"
  /\ UNCHANGED <<chn, vencs, cap, sec, srv, made, crashed>>

\* and m_save becomes null, which destructs the recorder.
ResetSave ==
  /\ main = "reset"
  /\ Destruct(chn.save)
  /\ chn' = [chn EXCEPT !.save = NoSave]
  /\ main' = "stop_capture"
  /\ UNCHANGED <<vencs, cap, sec, srv, made, crashed>>

StopCapture ==
  /\ main = "stop_capture"
  /\ cap' = [cap EXCEPT !.run = FALSE]
  /\ main' = "join_capture"
  /\ UNCHANGED <<recVars, chn, vencs, sec, srv, made, crashed>>

\* Mutant: the capture thread is told to end and not waited for.
JoinCaptureNot ==
  /\ main = "join_capture"
  /\ main' = "stop"
  /\ UNCHANGED <<recVars, chn, vencs, cap, sec, srv, made, crashed>>

JoinCapture ==
  /\ main = "join_capture" /\ cap.pc = "ended"
  /\ main' = "stop"
  /\ UNCHANGED <<recVars, chn, vencs, cap, sec, srv, made, crashed>>

\* chn::stop: the flag; observers and encoders; the pointers; g_chns.
StopChn ==
  /\ main = "stop"
  /\ chn' = [chn EXCEPT !.started = FALSE]
  /\ main' = IF chn.started THEN "erase" ELSE "exited"
  /\ UNCHANGED <<recVars, vencs, cap, sec, srv, made, crashed>>

StopVencs ==
  /\ main = "erase"
  /\ vencs' = {}
  /\ main' = "parts"
  /\ UNCHANGED <<recVars, chn, cap, sec, srv, made, crashed>>

DropParts ==
  /\ main = "parts"
  /\ chn' = [chn EXCEPT !.parts = FALSE]
  /\ main' = "unregister"
  /\ UNCHANGED <<recVars, vencs, cap, sec, srv, made, crashed>>

Unregister ==
  /\ main = "unregister"
  /\ chn' = [chn EXCEPT !.reg = FALSE]
  /\ main' = "exited"
  /\ UNCHANGED <<recVars, vencs, cap, sec, srv, made, crashed>>

DoExit ==
  \/ JoinSecond \/ NothingSaved \/ StopSave \/ CloseSave \/ ResetSave
  \/ StopCapture \/ JoinCapture
  \/ StopChn \/ StopVencs \/ DropParts \/ Unregister

-----------------------------------------------------------------------------
(* The capture thread, on_capturing.                                        *)

\* select over g_vencs: it fails, times out, or some encoders have a frame.
Select ==
  /\ cap.pc = "check"
  /\ \/ ~cap.run /\ cap' = [cap EXCEPT !.pc = "ended"]
     \/ cap.run /\ cap' = [cap EXCEPT !.pc = "ended"]
     \/ cap.run /\ \E ready \in SUBSET vencs :
          /\ ready # {}
          /\ cap' = [cap EXCEPT !.pc = "walk", !.todo = ready]
  /\ UNCHANGED <<recVars, main, chn, vencs, sec, srv, made, crashed>>

WalkEnds ==
  /\ cap.pc = "walk" /\ cap.todo = {}
  /\ cap' = [cap EXCEPT !.pc = "check"]
  /\ UNCHANGED <<recVars, main, chn, vencs, sec, srv, made, crashed>>

\* The encoders are in the list in the order they were started.
NextVenc == IF "main" \in cap.todo THEN "main" ELSE "sub"
Walked == cap.todo \ {NextVenc}
WalkOn == [cap EXCEPT !.pc = "walk", !.todo = Walked, !.frame = NoFrame, !.obj = NoSave]

\* No frame from this encoder, or from this one and the ones behind it
NoStream ==
  /\ cap.pc = "walk" /\ cap.todo # {}
  /\ \E todo \in {Walked, {}} : cap' = [cap EXCEPT !.todo = todo]
  /\ UNCHANGED <<recVars, main, chn, vencs, sec, srv, made, crashed>>

\* A frame of the main stream reaches on_stream_come, and there is a recorder.
MainFrame ==
  /\ cap.pc = "walk" /\ NextVenc = "main" /\ cap.todo # {}
  /\ made < MaxFrame
  /\ made' = made + 1
  /\ \E n \in BodyLen :
       cap' = IF chn.started /\ chn.save # NoSave
                THEN [cap EXCEPT !.pc = "found", !.frame = [no |-> made + 1, len |-> n]]
                ELSE WalkOn
  /\ UNCHANGED <<recVars, main, chn, vencs, sec, srv, crashed>>

\* m_save is read again.
Dereference ==
  /\ cap.pc = "found"
  /\ IF chn.save = NoSave THEN crashed' = TRUE /\ UNCHANGED cap
     ELSE cap' = [cap EXCEPT !.pc = "input", !.obj = chn.save] /\ UNCHANGED crashed
  /\ UNCHANGED <<recVars, main, chn, vencs, sec, srv, made>>

InputLiving ==
  /\ cap.pc = "input" /\ rec[cap.obj].alive
  /\ InputData(cap.obj, cap.frame)
  /\ cap' = WalkOn
  /\ UNCHANGED <<main, chn, vencs, sec, srv, made, crashed>>

\* The recorder was destructed in the meantime.
InputGone ==
  /\ cap.pc = "input" /\ ~rec[cap.obj].alive
  /\ \/ crashed' = TRUE /\ UNCHANGED cap
     \/ cap' = WalkOn /\ UNCHANGED crashed
  /\ UNCHANGED <<recVars, main, chn, vencs, sec, srv, made>>

Capture ==
  Select \/ WalkEnds \/ NoStream \/ MainFrame \/ Dereference \/ InputLiving \/ InputGone

-----------------------------------------------------------------------------
(* thread_1s and the RTSP server.                                           *)

SecondCheck ==
  /\ sec.pc = "check"
  /\ \/ ~(sec.run /\ chn.started) /\ sec' = [sec EXCEPT !.pc = "ended"]
     \/ sec.run /\ chn.started /\ sec' = [sec EXCEPT !.pc = "snap"]
  /\ UNCHANGED <<recVars, main, chn, vencs, cap, srv, made, crashed>>

\* get_isp_exposure_info and trigger_jpg, which use m_vi_ptr
SecondSnap ==
  /\ sec.pc = "snap"
  /\ sec' = [sec EXCEPT !.pc = "check"]
  /\ UNCHANGED <<recVars, main, chn, vencs, cap, srv, made, crashed>>

Second == SecondCheck \/ SecondSnap

\* get_stream_head and request_i_frame: g_chns,
LookUp ==
  /\ srv = "idle" /\ chn.reg
  /\ srv' = "use"
  /\ UNCHANGED <<recVars, main, chn, vencs, cap, sec, made, crashed>>

\* and an encoder's pointer of what was found, null or not.
UseEncoder ==
  /\ srv = "use"
  /\ srv' = "idle"
  /\ crashed' = ~chn.parts
  /\ UNCHANGED <<recVars, main, chn, vencs, cap, sec, made>>

Writer == \E r \in Rec : Thread(r) /\ UNCHANGED appVars

Next ==
  /\ Running
  /\ \/ StartUp \/ Quit \/ DoExit
     \/ Capture \/ Second \/ Writer
     \/ LookUp \/ UseEncoder

\* Every thread goes on when it can: select comes back within its time-out,
\* the recorder's thread sleeps 10 ms at a time.  Nobody has to send a signal or
\* to connect.
Fairness ==
  /\ WF_vars(Running /\ (StartUp \/ DoExit))
  /\ WF_vars(Running /\ Capture)
  /\ WF_vars(Running /\ Second)
  /\ WF_vars(Running /\ Writer)

Spec == Init /\ [][Next]_vars
FairSpec == Spec /\ Fairness

-----------------------------------------------------------------------------
(* Properties.                                                              *)

TypeOK ==
  /\ RecorderTypeOK
  /\ main \in StartingUp \cup {"run", "exited"} \cup Exiting
  /\ chn \in [started : BOOLEAN, parts : BOOLEAN, reg : BOOLEAN, save : Rec \cup {NoSave}]
  /\ vencs \subseteq Stream
  /\ cap \in [pc : {"none", "check", "walk", "found", "input", "ended"}, run : BOOLEAN,
              todo : SUBSET Stream, frame : Frame \cup {NoFrame}, obj : Rec \cup {NoSave}]
  /\ sec \in [pc : {"none", "check", "snap", "ended"}, run : BOOLEAN]
  /\ srv \in {"idle", "use"}
  /\ made \in 0 .. MaxFrame
  /\ crashed \in BOOLEAN

\* chn::stop takes the encoders out of g_vencs and the input away without a
\* mutex: by then neither the capture thread, which walks the list and reads
\* the encoders' descriptors, nor thread_1s, which takes snapshots from the
\* input, is at work.
CapturesAreThere == cap.pc \in {"walk", "found", "input"} => vencs = Stream /\ chn.parts
SnapsAreThere == sec.pc = "snap" => chn.started /\ chn.parts
NobodyDismantled == CapturesAreThere /\ SnapsAreThere

\* do_exit joins three threads, one of which waits for the mutex that close
\* holds: a signal ends the process all the same.
ExitCompletes == main = "join" ~> ~Running

\* The thread leaves a record in the ring until there is something behind it:
\* a frame gets into the file when the next one was accepted, unless the
\* recorder is being closed.
FollowedFrameFiled ==
  \A r \in Rec : \A k \in 1 .. MaxFrame :
    Len(taken[r]) > k ~> Len(filed[r]) >= k \/ ~rec[r].open \/ ~Running
=============================================================================
