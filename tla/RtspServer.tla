----------------------------- MODULE RtspServer -----------------------------
(***************************************************************************)
(* rtsp_server's select loop with its sessions: accepting, reading,        *)
(* counting down the two time-outs of a session, writing its output when   *)
(* select had nothing to report; the capture thread that fills the output  *)
(* and resets a time-out meanwhile; the clients.                           *)
(*                                                                         *)
(* The streams behind a session are in RtspStreams, the bytes of its       *)
(* requests in RtspInput; here a request is one message.  Output is        *)
(* counted in packets: a reply or a packet of a frame.                     *)
(***************************************************************************)
EXTENDS Naturals, FiniteSets

CONSTANTS
  Conn,        \* connections
  MaxTimeout,  \* MAX_SESSION_TIMEOUT and MAX_RTCP_TIMEOUT, both 60
  Grace,       \* 3, what a connection gets on top before its first request
  OutCap,      \* MAX_EVBUFFER_LEN
  SockCap,     \* what the sockets hold between the server and a client
  Uses,        \* what a client asks for
  MaxRequest   \* bound: how often it asks

ASSUME ServerAssumption ==
  /\ MaxTimeout \in Nat /\ Grace \in Nat
  /\ OutCap \in Nat /\ SockCap \in Nat

VARIABLES
  srv,     \* the server thread: where it is and the sessions of its round
  sess,    \* m_session_ptrs: the sessions
  client,  \* the clients
  quiet,   \* history: ticks since the last request, since the last packet
  idle     \* that the server has noticed

vars == <<srv, sess, client, quiet, idle>>

NoConn == "no connection"
NoSess == [listed |-> FALSE, timeout |-> 0, state |-> "idle", mode |-> "none", rtcp |-> 0,
           err |-> FALSE, shut |-> FALSE, out |-> 0, owed |-> 0, sock |-> 0]
NoClient == [st |-> "away", asked |-> 0, inbox |-> "none"]
GoneClient == [NoClient EXCEPT !.st = "closed"]
NewSess == [NoSess EXCEPT !.listed = TRUE, !.timeout = MaxTimeout + Grace]

Request == {"ask", "setup_tcp", "setup_udp", "play", "teardown"}
ASSUME UsesAssumption == \A c \in Conn : Uses[c] \subseteq Request

Idle == [pc |-> "select", todo |-> {}, cur |-> NoConn, tick |-> FALSE, val |-> 0]

Init ==
  /\ srv = Idle
  /\ sess = [c \in Conn |-> NoSess]
  /\ client = [c \in Conn |-> NoClient]
  /\ quiet = [c \in Conn |-> 0]
  /\ idle = [c \in Conn |-> 0]

Listed == {c \in Conn : sess[c].listed}
Readable(c) ==
  sess[c].listed /\ (client[c].inbox # "none" \/ client[c].st = "closed" \/ sess[c].shut)
Calling == {c \in Conn : client[c].st = "calling"}

-----------------------------------------------------------------------------
(* The clients and the network.                                             *)

Connect(c) ==
  /\ client[c].st = "away"
  /\ client' = [client EXCEPT ![c].st = "calling"]
  /\ UNCHANGED <<srv, sess, quiet, idle>>

Send(c, r) ==
  /\ client[c].st = "open" /\ client[c].inbox = "none" /\ client[c].asked < MaxRequest[c]
  /\ client' = [client EXCEPT ![c].inbox = r, ![c].asked = @ + 1]
  /\ UNCHANGED <<srv, sess, quiet, idle>>

\* It leaves, or it is not heard of any more and reads nothing.
Leave(c) ==
  /\ client[c].st = "open"
  /\ \E st \in {"closed", "silent"} : client' = [client EXCEPT ![c].st = st]
  /\ UNCHANGED <<srv, sess, quiet, idle>>

Receive(c) ==
  /\ client[c].st = "open" /\ sess[c].sock > 0
  /\ sess' = [sess EXCEPT ![c].sock = 0]
  /\ UNCHANGED <<srv, client, quiet, idle>>

-----------------------------------------------------------------------------
(* Requests.                                                                *)

\* send_packet_n; the caller does not look whether there was room.
Reply(s) == IF s.out < OutCap THEN [s EXCEPT !.out = @ + 1, !.owed = s.out + 1] ELSE s

\* handle_request, for what the server keeps: the state, the video handler
Handled(s, r) ==
  CASE r \in {"setup_tcp", "setup_udp"} /\ s.state # "playing" ->
         [s EXCEPT !.state = "setup", !.rtcp = MaxTimeout,
                   !.mode = IF r = "setup_tcp" THEN "tcp" ELSE "udp", !.err = FALSE]
    [] r = "play" /\ s.state = "setup" -> [s EXCEPT !.state = "playing"]
    [] r = "teardown" ->
         IF s.state = "playing"
           THEN [s EXCEPT !.state = "idle", !.mode = "none", !.rtcp = 0, !.shut = TRUE]
           ELSE [s EXCEPT !.shut = TRUE]
    [] OTHER -> s

\* The loop over the sessions when select found data: handle_read,
ServeRequest(c) ==
  /\ srv.pc = "select" /\ Readable(c)
  /\ client[c].inbox # "none"
  /\ sess' = [sess EXCEPT ![c] = [Reply(Handled(@, client[c].inbox)) EXCEPT !.timeout = MaxTimeout]]
  /\ client' = [client EXCEPT ![c].inbox = "none"]
  /\ quiet' = [quiet EXCEPT ![c] = 0]
  /\ idle' = [idle EXCEPT ![c] = 0]
  /\ UNCHANGED srv

\* or the end of the connection.
ServeEnd(c) ==
  /\ srv.pc = "select" /\ Readable(c)
  /\ client[c].inbox = "none"
  /\ sess' = [sess EXCEPT ![c] = NoSess]
  /\ client' = [client EXCEPT ![c] = GoneClient]
  /\ quiet' = [quiet EXCEPT ![c] = 0]
  /\ idle' = [idle EXCEPT ![c] = 0]
  /\ UNCHANGED srv

\* A connection is accepted; when accept fails the loop ends.
Accept(c) ==
  /\ srv.pc = "select" /\ c \in Calling
  /\ \/ /\ sess' = [sess EXCEPT ![c] = NewSess]
        /\ client' = [client EXCEPT ![c].st = "open"]
        /\ UNCHANGED srv
     \/ /\ srv' = [srv EXCEPT !.pc = "ended"]
        /\ UNCHANGED <<sess, client>>
  /\ UNCHANGED <<quiet, idle>>

-----------------------------------------------------------------------------
(* The time-out of select: a round over the sessions.                       *)

Quietly == Calling = {} /\ \A c \in Conn : ~Readable(c)

\* tick: time() has changed since the last round.
RoundStart(tick) ==
  /\ srv.pc = "select" /\ Quietly
  /\ srv' = [srv EXCEPT !.pc = "round", !.todo = Listed, !.tick = tick]
  /\ UNCHANGED <<sess, client, quiet, idle>>

\* Mutant: the output is written only when it is full.
OnIdleFull(s) == IF s.out < OutCap THEN s ELSE [s EXCEPT !.out = 0, !.owed = 0]

\* on_idle: what the socket takes, unless it is shut down
OnIdle(s) ==
  LET room == SockCap - s.sock
      n == IF s.shut THEN 0 ELSE IF s.out < room THEN s.out ELSE room
  IN [s EXCEPT !.out = @ - n, !.sock = @ + n, !.owed = IF @ > n THEN @ - n ELSE 0]

RoundIdle(c) ==
  /\ srv.pc = "round" /\ c \in srv.todo /\ ~srv.tick
  /\ sess' = [sess EXCEPT ![c] = OnIdle(@)]
  /\ srv' = [srv EXCEPT !.todo = @ \ {c}]
  /\ UNCHANGED <<client, quiet, idle>>

\* reduce_session_timeout, and reduce_rtcp_timeout up to reading the number
RoundReduce(c) ==
  /\ srv.pc = "round" /\ c \in srv.todo /\ srv.tick
  /\ sess' = [sess EXCEPT ![c].timeout = IF @ > 0 THEN @ - 1 ELSE 0]
  /\ srv' = [srv EXCEPT !.pc = "write", !.cur = c, !.val = sess[c].rtcp]
  /\ quiet' = [quiet EXCEPT ![c] = IF @ < MaxTimeout THEN @ + 1 ELSE @]
  /\ idle' = [idle EXCEPT ![c] = IF @ < MaxTimeout THEN @ + 1 ELSE @]
  /\ UNCHANGED client

\* Mutant: reduce_rtcp_timeout does not store the number.
RoundWriteNot ==
  /\ srv.pc = "write"
  /\ srv' = [srv EXCEPT !.pc = "judge", !.val = 0]
  /\ UNCHANGED <<sess, client, quiet, idle>>

\* Mutant: the number is not looked at before it is reduced.
RoundWriteBelow ==
  /\ srv.pc = "write"
  /\ sess' = [sess EXCEPT ![srv.cur].rtcp = srv.val - 1]
  /\ srv' = [srv EXCEPT !.pc = "judge", !.val = 0]
  /\ UNCHANGED <<client, quiet, idle>>

\* The number that was read, less one, is stored, whatever the capture thread
\* has stored since.
RoundWrite ==
  /\ srv.pc = "write"
  /\ sess' = IF srv.val > 0 THEN [sess EXCEPT ![srv.cur].rtcp = srv.val - 1] ELSE sess
  /\ srv' = [srv EXCEPT !.pc = "judge", !.val = 0]
  /\ UNCHANGED <<client, quiet, idle>>

\* Mutant: one time-out is enough.
ExpiredOne(s) == s.timeout = 0 \/ (s.mode # "none" /\ s.rtcp = 0)

\* get_rtcp_timeout is 0 without a video handler.
Expired(s) == s.timeout = 0 /\ (s.mode = "none" \/ s.rtcp = 0)

\* The session is shut down and erased, or gets its on_idle.
RoundJudge ==
  /\ srv.pc = "judge"
  /\ IF Expired(sess[srv.cur])
       THEN /\ sess' = [sess EXCEPT ![srv.cur] = NoSess]
            /\ client' = [client EXCEPT ![srv.cur] = GoneClient]
            /\ quiet' = [quiet EXCEPT ![srv.cur] = 0]
            /\ idle' = [idle EXCEPT ![srv.cur] = 0]
       ELSE /\ sess' = [sess EXCEPT ![srv.cur] = OnIdle(@)]
            /\ UNCHANGED <<client, quiet, idle>>
  /\ srv' = [srv EXCEPT !.pc = "round", !.todo = @ \ {srv.cur}, !.cur = NoConn]

RoundEnd ==
  /\ srv.pc = "round" /\ srv.todo = {}
  /\ srv' = Idle
  /\ UNCHANGED <<sess, client, quiet, idle>>

Round == (\E c \in Conn : RoundIdle(c) \/ RoundReduce(c)) \/ RoundWrite \/ RoundJudge \/ RoundEnd

-----------------------------------------------------------------------------
(* The capture thread.                                                      *)

\* A number stored while the server thread counts down is lost.
Noticed(c) ==
  idle' = IF srv.pc = "write" /\ srv.cur = c /\ srv.val > 0 THEN idle ELSE [idle EXCEPT ![c] = 0]

\* A packet of a frame over TCP is put into the output,
PacketTcp(c) ==
  /\ sess[c].state = "playing" /\ sess[c].mode = "tcp" /\ ~sess[c].err
  /\ sess[c].out < OutCap
  /\ sess' = [sess EXCEPT ![c].out = @ + 1, ![c].rtcp = MaxTimeout]
  /\ Noticed(c)
  /\ UNCHANGED <<srv, client, quiet>>

\* and the first one without room ends the connection.
PacketRefused(c) ==
  /\ sess[c].state = "playing" /\ sess[c].mode = "tcp" /\ ~sess[c].err
  /\ sess[c].out = OutCap
  /\ sess' = [sess EXCEPT ![c].err = TRUE, ![c].shut = TRUE]
  /\ UNCHANGED <<srv, client, quiet, idle>>

\* Over UDP it is sent; what counts is a report of the client found before.
PacketUdp(c) ==
  /\ sess[c].state = "playing" /\ sess[c].mode = "udp" /\ client[c].st = "open"
  /\ sess' = [sess EXCEPT ![c].rtcp = MaxTimeout]
  /\ Noticed(c)
  /\ UNCHANGED <<srv, client, quiet>>

Packet(c) == PacketTcp(c) \/ PacketRefused(c) \/ PacketUdp(c)

-----------------------------------------------------------------------------
Next ==
  \/ \E c \in Conn :
       \/ Connect(c) \/ Leave(c) \/ Receive(c)
       \/ \E r \in Uses[c] : Send(c, r)
       \/ ServeRequest(c) \/ ServeEnd(c) \/ Accept(c)
       \/ Packet(c)
  \/ \E tick \in BOOLEAN : RoundStart(tick)
  \/ Round

\* The server thread goes on, and as rounds come every 10 ms the clock does not
\* skip all of them; a client that is there reads.  Frames need not come.
Fairness ==
  /\ \A c \in Conn : WF_vars(ServeRequest(c)) /\ WF_vars(ServeEnd(c)) /\ WF_vars(Accept(c))
  /\ SF_vars(RoundStart(TRUE))
  /\ WF_vars(Round)
  /\ \A c \in Conn : WF_vars(Receive(c))

Spec == Init /\ [][Next]_vars
FairSpec == Spec /\ Fairness

-----------------------------------------------------------------------------
(* Properties.                                                              *)

Ended == srv.pc = "ended"

TypeOK ==
  /\ srv \in [pc : {"select", "round", "write", "judge", "ended"}, todo : SUBSET Conn,
              cur : Conn \cup {NoConn}, tick : BOOLEAN, val : 0 .. MaxTimeout]
  /\ sess \in [Conn -> [listed : BOOLEAN, timeout : 0 .. MaxTimeout + Grace,
                        state : {"idle", "setup", "playing"}, mode : {"none", "tcp", "udp"},
                        rtcp : 0 .. MaxTimeout, err : BOOLEAN, shut : BOOLEAN,
                        out : 0 .. OutCap, owed : 0 .. OutCap, sock : 0 .. SockCap]]
  /\ client \in [Conn -> [st : {"away", "calling", "open", "silent", "closed"},
                          asked : Nat, inbox : Request \cup {"none"}]]
  /\ quiet \in [Conn -> 0 .. MaxTimeout] /\ idle \in [Conn -> 0 .. MaxTimeout]

\* A session is timed out only when for MaxTimeout ticks its client asked for
\* nothing and, if it has a video handler, no packet or report was noticed: a
\* client that only watches is not thrown out, nor one that only asks.
TimedOut(c) == srv.pc = "judge" /\ srv.cur = c /\ sess[c].listed /\ ~sess'[c].listed
NotTimedOutEarly ==
  [][\A c \in Conn : TimedOut(c) =>
       quiet[c] = MaxTimeout /\ (sess[c].mode # "none" => idle[c] = MaxTimeout)]_vars

\* A client that is not heard of any more is let go, over UDP by the time-outs,
\* over TCP, where each frame sets one of them back, when its output is full.
SilentLetGo == \A c \in Conn : client[c].st = "silent" ~> ~sess[c].listed \/ Ended

\* A reply that is in the output reaches a client that reads, though only rounds
\* without traffic write it and frames are put behind it meanwhile.
Waiting(c) == sess[c].owed > 0 \/ sess[c].sock > 0
RepliesArrive ==
  \A c \in Conn :
    Waiting(c) /\ client[c].st = "open" ~>
      ~Waiting(c) \/ sess[c].shut \/ client[c].st # "open" \/ Ended
=============================================================================
