---------------------------- MODULE RtspStreams ----------------------------
(***************************************************************************)
(* The RTSP side of a frame: stream_manager and its stream_stock objects,  *)
(* the connections with their rtsp_request_handler, and the handlers that  *)
(* a SETUP registers in a stream.                                          *)
(*                                                                         *)
(* Three threads: the server thread handles the requests of every          *)
(* connection and destroys connections; the capture thread brings frames   *)
(* (process_data) and calls the registered handlers; the checker thread    *)
(* drops streams that got no frame for DeadAfter seconds.  m_stream_mu is  *)
(* held by the capture thread during a whole post, and so is the           *)
(* m_stream_observers_mu of the stream it posts to; every other critical   *)
(* section is one step.                                                    *)
(***************************************************************************)
EXTENDS Naturals, Sequences, FiniteSets, SequencesExt

CONSTANTS
  Key,        \* pairs (chn, stream_id)
  Obj,        \* stream_stock objects (a pool: one that nothing refers to is reused)
  Sess,       \* connections (a pool)
  Handler,    \* stream_handler objects (a pool)
  Track,      \* "video", "audio"
  DeadAfter,  \* 5 seconds in on_checking
  Ordered,    \* clients keep the order DESCRIBE, SETUP per track, PLAY, TEARDOWN
  NoObj, NoSess, NoHandler, NoKey

ASSUME RtspAssumption ==
  /\ DeadAfter \in Nat
  /\ Ordered \in BOOLEAN
  /\ Track \subseteq {"video", "audio"}
  /\ NoObj \notin Obj /\ NoSess \notin Sess /\ NoHandler \notin Handler /\ NoKey \notin Key

VARIABLES
  list,   \* stream_manager::m_streams
  stock,  \* the streams: key, m_is_start, seconds since m_last_stream_time, observers
  hdl,    \* the handlers: session of their rtp session, m_start, m_err
  conn,   \* the connections: m_state, m_stream, the handlers, codecs in m_mh, socket shut down
  srv,    \* the server thread: where it is, with which connection and track
  cap     \* the capture thread: the stream it posts to, handlers still to be called

vars == <<list, stock, hdl, conn, srv, cap>>

-----------------------------------------------------------------------------
NoStock == [key |-> NoKey, on |-> FALSE, age |-> 0, obs |-> {}]
NoHdl == [owner |-> NoSess, on |-> FALSE, err |-> FALSE]
\* Mutant: the constructor does not initialize m_state.
ClosedNoState == [open |-> FALSE, state |-> "", stream |-> NoObj,
                  handler |-> [k \in Track |-> NoHandler],
                  codec |-> {"video"} \cap Track, shut |-> FALSE]

\* The media head begins as zeros, and 0 is the code of H.264: a client may set
\* up the video before it asked for a description.
Closed == [open |-> FALSE, state |-> "IDLE", stream |-> NoObj,
           handler |-> [k \in Track |-> NoHandler],
           codec |-> {"video"} \cap Track, shut |-> FALSE]
IdleSrv == [pc |-> "select", sess |-> NoSess, track |-> "video", close |-> FALSE]
IdleCap == [obj |-> NoObj, todo |-> {}, call |-> NoHandler]

Init ==
  /\ list = <<>>
  /\ stock = [o \in Obj |-> NoStock]
  /\ hdl = [h \in Handler |-> NoHdl]
  /\ conn = [s \in Sess |-> Closed]
  /\ srv = IdleSrv
  /\ cap = IdleCap

Listed(o) == \E i \in DOMAIN list : list[i] = o
Held(o) == Listed(o) \/ \E s \in Sess : conn[s].stream = o

\* Mutant: register and unregister do not take the observers' mutex.
ObserversFreeAlways(o) == TRUE

\* m_stream_mu and the observers' mutex of o, seen from the other threads
StreamMuFree == cap.obj = NoObj
ObserversFree(o) == cap.obj # o

\* shared_ptr: a stream lives while the list or a connection refers to it, a
\* handler while a connection or a living stream does.
LivingStock(st, L, C) ==
  [o \in Obj |-> IF o \in Range(L) \/ \E s \in Sess : C[s].stream = o
                 THEN st[o] ELSE NoStock]
LivingHdl(hd, st, C) ==
  [h \in Handler |-> IF \/ \E o \in Obj : h \in st[o].obs
                        \/ \E s \in Sess, t \in Track : C[s].handler[t] = h
                     THEN hd[h] ELSE NoHdl]
Unused(h) ==
  /\ \A o \in Obj : h \notin stock[o].obs
  /\ \A s \in Sess, t \in Track : conn[s].handler[t] # h

-----------------------------------------------------------------------------
(* stream_manager.                                                          *)

Started(k) == [key |-> k, on |-> TRUE, age |-> 0, obs |-> {}]

\* Mutant: the search does not find the stream.
FoundNever(k, o) == FALSE

Found(k, o) == Listed(o) /\ stock[o].key = k

\* get_stream for connection s: m_stream becomes the stream o of key k, or a
\* new one that is started.  The stream m_stream referred to may be gone then,
\* with its observers.
GetStream(s, k, o) ==
  /\ \/ Found(k, o) /\ UNCHANGED list
     \/ /\ \A p \in Obj : ~Found(k, p)
        /\ ~Held(o)
        /\ list' = Append(list, o)
  /\ stock' = LivingStock(IF Listed(o) THEN stock ELSE [stock EXCEPT ![o] = Started(k)],
                          list', [conn EXCEPT ![s].stream = o])
  /\ hdl' = LivingHdl(hdl, stock', conn)

\* Mutant: the observers are not counted.
DeletableAlways(o) == TRUE

Deletable(o) == stock[o].obs = {}

\* del_stream: the first stream of key k is stopped and erased, unless it has
\* observers.
DelStream(k) ==
  LET S == {i \in DOMAIN list : /\ stock[list[i]].key = k /\ Deletable(list[i])
                               /\ \A j \in 1 .. i - 1 : stock[list[j]].key # k}
  IN
  \/ \E i \in S :
       /\ list' = RemoveAt(list, i)
       /\ stock' = LivingStock([stock EXCEPT ![list[i]].on = FALSE], list', conn')
  \/ /\ S = {}
     /\ UNCHANGED list
     /\ stock' = LivingStock(stock, list', conn')

-----------------------------------------------------------------------------
(* The server thread.                                                       *)

AtSelect == srv.pc = "select"

\* accept: m_session_ptrs.push_back.
Accept(s) ==
  /\ AtSelect /\ ~conn[s].open
  /\ conn' = [conn EXCEPT ![s].open = TRUE]
  /\ UNCHANGED <<list, stock, hdl, srv, cap>>

\* An ordered client talks about one stream, sets every track up once, and
\* stops talking when it was told so.
MayDescribe(s, k) ==
  Ordered => conn[s].state = "IDLE" /\ ~conn[s].shut
             /\ (conn[s].stream # NoObj => stock[conn[s].stream].key = k)
MaySetup(s, k, t) ==
  Ordered => /\ conn[s].state \in {"DESCRIBED", "SETUPED"} /\ ~conn[s].shut
             /\ stock[conn[s].stream].key = k
             /\ conn[s].handler[t] = NoHandler

\* process_method_describe: m_stream is replaced, whatever it was.  The media
\* head may be missing, or without a video codec the server knows; the state
\* is not looked at.
Describe(s, k) ==
  /\ AtSelect /\ conn[s].open /\ StreamMuFree
  /\ MayDescribe(s, k)
  /\ \E o \in Obj :
       /\ GetStream(s, k, o)
       /\ \/ conn' = [conn EXCEPT ![s].stream = o]
          \/ \E c \in SUBSET Track :
               conn' = [conn EXCEPT ![s].stream = o, ![s].codec = c,
                          ![s].state = IF "video" \in c THEN "DESCRIBED" ELSE @]
  /\ UNCHANGED <<srv, cap>>

\* process_method_setup up to the 200 reply.
Setup(s, k, t) ==
  /\ AtSelect /\ conn[s].open /\ StreamMuFree
  /\ MaySetup(s, k, t)
  /\ \E h \in Handler : Unused(h)   \* bound: handlers of the pool
  /\ conn[s].state # "PLAYING"
  /\ \E o \in Obj :
       /\ GetStream(s, k, o)
       /\ conn' = [conn EXCEPT ![s].stream = o]
  /\ srv' = [IdleSrv EXCEPT !.pc = "register", !.sess = s, !.track = t]
  /\ UNCHANGED cap

\* The rest of it: the codec of the track, from m_mh, decides; then the new
\* handler replaces the one the connection had, and is registered.
Register ==
  LET s == srv.sess
      o == conn[s].stream
  IN
  /\ srv.pc = "register"
  /\ srv' = IdleSrv
  /\ \/ /\ srv.track \notin conn[s].codec
        /\ UNCHANGED <<stock, hdl, conn>>
     \/ /\ srv.track \in conn[s].codec
        /\ ObserversFree(o)
        /\ \E h \in Handler :
             /\ Unused(h)
             /\ stock' = [stock EXCEPT ![o].obs = @ \cup {h}]
             /\ conn' = [conn EXCEPT ![s].handler[srv.track] = h,
                                     ![s].state = "SETUPED"]
             /\ hdl' = LivingHdl([hdl EXCEPT ![h] = [NoHdl EXCEPT !.owner = s]],
                                 stock', conn')
  /\ UNCHANGED <<list, cap>>

Mine(s) == {conn[s].handler[t] : t \in Track} \ {NoHandler}

\* process_method_play
Play(s) ==
  /\ AtSelect /\ conn[s].open /\ conn[s].state = "SETUPED"
  /\ Ordered => ~conn[s].shut
  /\ conn' = [conn EXCEPT ![s].state = "PLAYING"]
  /\ hdl' = [h \in Handler |-> IF h \in Mine(s) THEN [hdl[h] EXCEPT !.on = TRUE] ELSE hdl[h]]
  /\ UNCHANGED <<list, stock, srv, cap>>

\* Mutant: the state stays PLAYING.
TeardownKeepsState(s) ==
  /\ AtSelect /\ conn[s].open
  /\ Ordered => ~conn[s].shut
  /\ conn' = [conn EXCEPT ![s].shut = TRUE]
  /\ srv' = IF conn[s].state = "PLAYING"
            THEN [IdleSrv EXCEPT !.pc = "stop_play", !.sess = s] ELSE srv
  /\ UNCHANGED <<list, stock, hdl, cap>>

\* process_method_teardown: only a playing connection runs stop_play, any
\* connection is shut down.
Teardown(s) ==
  /\ AtSelect /\ conn[s].open
  /\ Ordered => ~conn[s].shut
  /\ \/ /\ conn[s].state = "PLAYING"
        /\ conn' = [conn EXCEPT ![s].state = "IDLE", ![s].shut = TRUE]
        /\ srv' = [IdleSrv EXCEPT !.pc = "stop_play", !.sess = s]
     \/ /\ conn[s].state # "PLAYING"
        /\ conn' = [conn EXCEPT ![s].shut = TRUE]
        /\ UNCHANGED srv
  /\ UNCHANGED <<list, stock, hdl, cap>>

\* The connection is erased from m_session_ptrs (client gone, socket shut
\* down, both timeouts expired, server stopped): ~rtsp_request_handler.
CloseSession(s) ==
  /\ AtSelect /\ conn[s].open
  /\ srv' = [IdleSrv EXCEPT !.pc = IF conn[s].stream # NoObj THEN "stop_play" ELSE "gone",
                            !.sess = s, !.close = TRUE]
  /\ UNCHANGED <<list, stock, hdl, conn, cap>>

\* stop_play, once per handler: stop it,
StopHandler ==
  /\ srv.pc = "stop_play"
  /\ \/ \E t \in Track :
          /\ conn[srv.sess].handler[t] # NoHandler
          /\ t = "audio" => "video" \notin Track \/ conn[srv.sess].handler["video"] = NoHandler
          /\ hdl' = [hdl EXCEPT ![conn[srv.sess].handler[t]].on = FALSE]
          /\ srv' = [srv EXCEPT !.pc = "unregister", !.track = t]
     \/ /\ Mine(srv.sess) = {}
        /\ srv' = [srv EXCEPT !.pc = "del_stream"]
        /\ UNCHANGED hdl
  /\ UNCHANGED <<list, stock, conn, cap>>

\* Mutant: the handler is only forgotten.
RemoveObserverNot(o, h) == UNCHANGED stock

\* Mutant: all the observers of the stream are removed.
RemoveEveryObserver(o, h) == stock' = [stock EXCEPT ![o].obs = {}]

\* unregister_stream_observer
RemoveObserver(o, h) == stock' = [stock EXCEPT ![o].obs = @ \ {h}]

\* wait for a post that is under way and unregister it from m_stream,
Unregister ==
  LET c == conn[srv.sess] IN
  /\ srv.pc = "unregister"
  /\ ObserversFree(c.stream)
  /\ RemoveObserver(c.stream, c.handler[srv.track])
  /\ conn' = [conn EXCEPT ![srv.sess].handler[srv.track] = NoHandler]
  /\ hdl' = LivingHdl(hdl, stock', conn')
  /\ srv' = [srv EXCEPT !.pc = "stop_play"]
  /\ UNCHANGED <<list, cap>>

\* then del_stream, by key.
StopPlayDelStream ==
  /\ srv.pc = "del_stream"
  /\ StreamMuFree
  /\ conn' = [conn EXCEPT ![srv.sess].stream = NoObj]
  /\ DelStream(stock[conn[srv.sess].stream].key)
  /\ hdl' = LivingHdl(hdl, stock', conn')
  /\ srv' = IF srv.close THEN [srv EXCEPT !.pc = "gone"] ELSE IdleSrv
  /\ UNCHANGED cap

\* The connection object is gone: a handler that is still somewhere refers to
\* nothing (rtp_tcp_session::m_sess is a reference).
Gone ==
  /\ srv.pc = "gone"
  /\ conn' = [conn EXCEPT ![srv.sess] = Closed]
  /\ hdl' = [h \in Handler |-> IF hdl[h].owner = srv.sess
                               THEN [hdl[h] EXCEPT !.owner = NoSess] ELSE hdl[h]]
  /\ srv' = IdleSrv
  /\ UNCHANGED <<list, stock, cap>>

-----------------------------------------------------------------------------
(* The capture thread and the checker thread.                               *)

\* stream_manager::process_data with a frame of key k.
Frame(k) ==
  /\ StreamMuFree
  /\ \E o \in Obj :
       /\ Found(k, o)
       /\ stock' = [stock EXCEPT ![o].age = 0]
       /\ cap' = IF stock[o].on
                 THEN [obj |-> o, todo |-> stock[o].obs, call |-> NoHandler] ELSE cap
  /\ UNCHANGED <<list, hdl, conn, srv>>

\* post_stream_to_observer calls on_stream_come, which looks at m_start once.
Deliver(h) ==
  /\ h \in cap.todo /\ cap.call = NoHandler
  /\ cap' = [cap EXCEPT !.todo = @ \ {h}, !.call = IF hdl[h].on THEN h ELSE NoHandler]
  /\ UNCHANGED <<list, stock, hdl, conn, srv>>

\* The handler puts the packets of a frame of its track into the connection's
\* buffer.  A full buffer shuts the socket down, and this handler never sends
\* again.
Send ==
  LET h == cap.call IN
  /\ h # NoHandler
  /\ cap' = [cap EXCEPT !.call = NoHandler]
  /\ \/ UNCHANGED <<hdl, conn>>
     \/ /\ ~hdl[h].err
        /\ hdl' = [hdl EXCEPT ![h].err = TRUE]
        /\ conn' = [s \in Sess |-> IF s = hdl[h].owner
                                   THEN [conn[s] EXCEPT !.shut = TRUE] ELSE conn[s]]
  /\ UNCHANGED <<list, stock, srv>>

\* Mutant: the mutexes are locked by hand and an early return forgets them.
EndPostKeepsLocks ==
  /\ cap.obj # NoObj /\ cap.todo = {} /\ cap.call = NoHandler
  /\ UNCHANGED vars

EndPost ==
  /\ cap.obj # NoObj /\ cap.todo = {} /\ cap.call = NoHandler
  /\ cap' = IdleCap
  /\ UNCHANGED <<list, stock, hdl, conn, srv>>

\* A second passes; ages are counted up to DeadAfter + 1.
Tick ==
  /\ \E o \in Obj : Listed(o) /\ stock[o].age <= DeadAfter
  /\ stock' = [o \in Obj |-> IF Listed(o) /\ stock[o].age <= DeadAfter
                             THEN [stock[o] EXCEPT !.age = @ + 1] ELSE stock[o]]
  /\ UNCHANGED <<list, hdl, conn, srv, cap>>

Dead(o) == stock[o].age > DeadAfter

\* on_checking: the first dead stream leaves the list; it is not stopped and
\* its observers are not told.
Check ==
  /\ StreamMuFree
  /\ \E i \in DOMAIN list :
       /\ Dead(list[i])
       /\ \A j \in 1 .. i - 1 : ~Dead(list[j])
       /\ list' = RemoveAt(list, i)
  /\ stock' = LivingStock(stock, list', conn)
  /\ hdl' = LivingHdl(hdl, stock', conn)
  /\ UNCHANGED <<conn, srv, cap>>

-----------------------------------------------------------------------------
\* The server thread inside a request or a destructor.
InServer == Register \/ StopHandler \/ Unregister \/ StopPlayDelStream \/ Gone

InCapture == Send \/ EndPost \/ \E h \in Handler : Deliver(h)

Request(s) ==
  \/ \E k \in Key : Describe(s, k) \/ \E t \in Track : Setup(s, k, t)
  \/ Play(s) \/ Teardown(s)

Next ==
  \/ \E s \in Sess : Accept(s) \/ Request(s) \/ CloseSession(s)
  \/ InServer
  \/ InCapture \/ \E k \in Key : Frame(k)
  \/ Tick \/ Check

Fairness == SF_vars(InServer) /\ WF_vars(InCapture)

Spec == Init /\ [][Next]_vars /\ Fairness
-----------------------------------------------------------------------------
(* Properties.                                                              *)

TypeOK ==
  /\ list \in Seq(Obj)
  /\ stock \in [Obj -> [key : Key \cup {NoKey}, on : BOOLEAN, age : 0 .. DeadAfter + 1,
                        obs : SUBSET Handler]]
  /\ hdl \in [Handler -> [owner : Sess \cup {NoSess}, on : BOOLEAN, err : BOOLEAN]]
  /\ conn \in [Sess -> [open : BOOLEAN, state : {"IDLE", "DESCRIBED", "SETUPED", "PLAYING"},
                        stream : Obj \cup {NoObj},
                        handler : [Track -> Handler \cup {NoHandler}],
                        codec : SUBSET Track, shut : BOOLEAN]]
  /\ srv \in [pc : {"select", "register", "stop_play", "unregister", "del_stream", "gone"},
              sess : Sess \cup {NoSess}, track : {"video", "audio"}, close : BOOLEAN]
  /\ cap \in [obj : Obj \cup {NoObj}, todo : SUBSET Handler,
             call : Handler \cup {NoHandler}]

\* get_stream and del_stream look a stream up by its key, so the list must
\* never have two streams of one key, whatever the checker dropped meanwhile.
OneStreamPerKey ==
  \A i, j \in DOMAIN list : stock[list[i]].key = stock[list[j]].key => i = j

\* PLAY uses m_stream without looking: a connection that was set up has one,
\* although stop_play drops it and DESCRIBE replaces it.
SetUpHasStream ==
  \A s \in Sess : AtSelect /\ conn[s].open /\ conn[s].state \in {"SETUPED", "PLAYING"}
    => conn[s].stream # NoObj

\* A handler that is sending belongs to a connection that exists: stop_play of the
\* destructor waits for the post that is under way and leaves nothing behind
\* that a later frame would call.
CallsLiveSession ==
  cap.call # NoHandler => hdl[cap.call].owner # NoSess

\* What is registered in a stream of the list is known to its connection,
\* which will unregister it; so a stream without viewers can be deleted.
NothingLeftBehind ==
  \A i \in DOMAIN list : \A h \in stock[list[i]].obs :
    /\ hdl[h].owner # NoSess
    /\ h \in Mine(hdl[h].owner)
    /\ conn[hdl[h].owner].stream = list[i]

\* A stream with observers leaves the list only when it is dead: one client's
\* del_stream never takes another client's stream away.
WatchedStreamStays ==
  [][\A o \in Obj : Listed(o) /\ ~Listed(o)' => Dead(o) \/ stock[o].obs = {}]_vars

\* As long as a connection keeps its stream and a handler of its own, the
\* handler stays registered there: no request or destructor of another
\* connection, no frame and no check for dead streams unplugs a viewer.
ViewersStayRegistered ==
  [][\A s \in Sess : conn[s].stream # NoObj /\ conn'[s].stream = conn[s].stream
       => \A h \in Mine(s) \cap Mine(s)' :
            h \in stock[conn[s].stream].obs => h \in stock'[conn[s].stream].obs]_vars

\* The server thread never waits for ever for the capture thread, which calls
\* handlers while it holds both mutexes.
ServerReturns == srv.pc # "select" ~> srv.pc = "select"
=============================================================================
