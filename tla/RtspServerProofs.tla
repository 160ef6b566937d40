-------------------------- MODULE RtspServerProofs --------------------------
(***************************************************************************)
(* Nobody is timed out early, for any number of connections and any        *)
(* time-outs.                                                              *)
(*                                                                         *)
(* The time that has passed never exceeds what was taken off a time-out.   *)
(* While the server is between reading and storing the RTCP time-out, what *)
(* counts is what it will store, for a value the capture thread stores     *)
(* meanwhile is lost.                                                      *)
(***************************************************************************)
EXTENDS RtspServer, TLAPS

Sess == [listed : BOOLEAN, timeout : 0 .. MaxTimeout + Grace,
         state : {"idle", "setup", "playing"}, mode : {"none", "tcp", "udp"},
         rtcp : 0 .. MaxTimeout, err : BOOLEAN, shut : BOOLEAN,
         out : 0 .. OutCap, owed : 0 .. OutCap, sock : 0 .. SockCap]

Client == [st : {"away", "calling", "open", "silent", "closed"},
           asked : Nat, inbox : Request \cup {"none"}]

\* What the connection has left for packets and reports
Left(c) ==
  IF srv.pc = "write" /\ srv.cur = c /\ srv.val > 0 THEN srv.val - 1 ELSE sess[c].rtcp

Counted ==
  \A c \in Conn : sess[c].listed =>
    /\ sess[c].timeout + quiet[c] >= MaxTimeout
    /\ sess[c].mode # "none" =>
         \/ sess[c].timeout + idle[c] >= MaxTimeout
         \/ Left(c) + idle[c] >= MaxTimeout

InHand == srv.pc \in {"write", "judge"} => srv.cur \in Conn

SInv == TypeOK /\ InHand /\ Counted

-----------------------------------------------------------------------------
(* What is kept of a session has its type.                                  *)

LEMMA NewSessType == NoSess \in Sess /\ NewSess \in Sess /\ ~NoSess.listed
<1>1. /\ 0 \in 0 .. MaxTimeout + Grace /\ MaxTimeout + Grace \in 0 .. MaxTimeout + Grace
      /\ 0 \in 0 .. MaxTimeout /\ 0 \in 0 .. OutCap /\ 0 \in 0 .. SockCap
  BY ServerAssumption
<1>2. NoSess \in Sess
  BY <1>1 DEF NoSess, Sess
<1> QED BY <1>1, <1>2 DEF NoSess, NewSess, Sess

LEMMA ReplyType == ASSUME NEW s \in Sess PROVE Reply(s) \in Sess
<1>1. CASE s.out < OutCap
  <2>1. s.out + 1 \in 0 .. OutCap
    BY <1>1, ServerAssumption DEF Sess
  <2> QED BY <1>1, <2>1 DEF Reply, Sess
<1> QED BY <1>1 DEF Reply

LEMMA HandledType == ASSUME NEW s \in Sess, NEW r PROVE Handled(s, r) \in Sess
<1> DEFINE mode == IF r = "setup_tcp" THEN "tcp" ELSE "udp"
<1>1. 0 \in 0 .. MaxTimeout /\ MaxTimeout \in 0 .. MaxTimeout /\ mode \in {"none", "tcp", "udp"}
  BY ServerAssumption
<1> HIDE DEF mode
<1>2. [s EXCEPT !.state = "setup", !.rtcp = MaxTimeout, !.mode = mode, !.err = FALSE] \in Sess
  BY <1>1 DEF Sess
<1>3. [s EXCEPT !.state = "playing"] \in Sess /\ [s EXCEPT !.shut = TRUE] \in Sess
  BY DEF Sess
<1>4. [s EXCEPT !.state = "idle", !.mode = "none", !.rtcp = 0, !.shut = TRUE] \in Sess
  BY <1>1 DEF Sess
<1> QED BY <1>2, <1>3, <1>4 DEF Handled, mode

LEMMA PacketType ==
  ASSUME NEW s \in Sess, NEW n \in 0 .. OutCap
  PROVE  [s EXCEPT !.out = n, !.rtcp = MaxTimeout] \in Sess
<1>1. MaxTimeout \in 0 .. MaxTimeout
  BY ServerAssumption
<1> QED BY <1>1 DEF Sess

LEMMA RefusedType ==
  ASSUME NEW s \in Sess PROVE [s EXCEPT !.err = TRUE, !.shut = TRUE] \in Sess
  BY DEF Sess

LEMMA OnIdleType ==
  ASSUME NEW s \in Sess
  PROVE  /\ OnIdle(s) \in Sess
         /\ OnIdle(s).timeout = s.timeout /\ OnIdle(s).rtcp = s.rtcp
         /\ OnIdle(s).mode = s.mode /\ OnIdle(s).listed = s.listed
<1> DEFINE room == SockCap - s.sock
           n == IF s.shut THEN 0 ELSE IF s.out < room THEN s.out ELSE room
           m == IF s.owed > n THEN s.owed - n ELSE 0
<1>1. n \in 0 .. s.out /\ s.sock + n \in 0 .. SockCap
  BY ServerAssumption DEF Sess
<1>2. m \in 0 .. OutCap /\ s.out - n \in 0 .. OutCap
  BY <1>1, ServerAssumption DEF Sess
<1>3. OnIdle(s) = [s EXCEPT !.out = s.out - n, !.sock = s.sock + n, !.owed = m]
  BY DEF OnIdle
<1> HIDE DEF n, m
<1> QED BY <1>1, <1>2, <1>3 DEF Sess

-----------------------------------------------------------------------------
(* Types.                                                                   *)

Srv == [pc : {"select", "round", "write", "judge", "ended"}, todo : SUBSET Conn,
        cur : Conn \cup {NoConn}, tick : BOOLEAN, val : 0 .. MaxTimeout]

LEMMA Types ==
  TypeOK <=> /\ srv \in Srv /\ sess \in [Conn -> Sess] /\ client \in [Conn -> Client]
             /\ quiet \in [Conn -> 0 .. MaxTimeout] /\ idle \in [Conn -> 0 .. MaxTimeout]
  BY DEF TypeOK, Srv, Sess, Client

LEMMA InitSInv == Init => SInv
<1> SUFFICES ASSUME Init PROVE SInv
  OBVIOUS
<1> USE DEF Init
<1>1. 0 \in 0 .. MaxTimeout
  BY ServerAssumption
<1>2. srv \in Srv
  BY <1>1 DEF Idle, Srv
<1>3. client \in [Conn -> Client]
  BY DEF NoClient, Client
<1>4. TypeOK
  BY <1>1, <1>2, <1>3, NewSessType, Types
<1>5. InHand /\ Counted
  BY NewSessType DEF InHand, Counted, Idle
<1> QED BY <1>4, <1>5 DEF SInv

LEMMA TypeStep == SInv /\ [Next]_vars => TypeOK' /\ InHand'
<1> SUFFICES ASSUME SInv, [Next]_vars PROVE TypeOK' /\ InHand'
  OBVIOUS
<1> USE DEF SInv, InHand
<1>t. /\ srv \in Srv /\ sess \in [Conn -> Sess] /\ client \in [Conn -> Client]
      /\ quiet \in [Conn -> 0 .. MaxTimeout] /\ idle \in [Conn -> 0 .. MaxTimeout]
  BY Types
<1>z. 0 \in 0 .. MaxTimeout /\ MaxTimeout \in 0 .. MaxTimeout
  BY ServerAssumption
<1>g. GoneClient \in Client /\ NoSess \in Sess /\ NewSess \in Sess
  BY NewSessType DEF GoneClient, NoClient, Client
<1>s. SUFFICES /\ srv' \in Srv /\ (srv'.pc \in {"write", "judge"} => srv'.cur \in Conn)
               /\ sess' \in [Conn -> Sess] /\ client' \in [Conn -> Client]
               /\ quiet' \in [Conn -> 0 .. MaxTimeout] /\ idle' \in [Conn -> 0 .. MaxTimeout]
  BY DEF TypeOK, InHand, Srv, Sess, Client
<1>1. CASE UNCHANGED vars
  BY <1>1, <1>t DEF vars
<1>2. ASSUME NEW c \in Conn, Connect(c) \/ Leave(c) \/ (\E r \in Uses[c] : Send(c, r))
      PROVE  UNCHANGED <<srv, sess, quiet, idle>> /\ client' \in [Conn -> Client]
  <2>1. CASE Connect(c)
    BY <1>t, <2>1 DEF Connect, Client
  <2>2. CASE Leave(c)
    BY <1>t, <2>2 DEF Leave, Client
  <2>3. ASSUME NEW r \in Request, Send(c, r)
        PROVE  UNCHANGED <<srv, sess, quiet, idle>> /\ client' \in [Conn -> Client]
    BY <1>t, <2>3 DEF Send, Client
  <2> QED BY <1>2, <2>1, <2>2, <2>3, UsesAssumption
<1>3. ASSUME NEW c \in Conn, Receive(c) \/ Packet(c)
      PROVE  /\ UNCHANGED <<srv, client, quiet>> /\ sess' \in [Conn -> Sess]
             /\ idle' \in [Conn -> 0 .. MaxTimeout]
  <2>i. Noticed(c) => idle' \in [Conn -> 0 .. MaxTimeout]
    BY <1>t, <1>z DEF Noticed
  <2>1. CASE Receive(c)
    <3>1. 0 \in 0 .. SockCap
      BY ServerAssumption
    <3> QED BY <1>t, <2>1, <3>1 DEF Receive, Sess
  <2>2. CASE PacketTcp(c)
    <3> DEFINE n == sess[c].out + 1
    <3>1. n \in 0 .. OutCap
      BY <1>t, <2>2, ServerAssumption DEF PacketTcp, Sess
    <3>2. sess' = [sess EXCEPT ![c] = [sess[c] EXCEPT !.out = n, !.rtcp = MaxTimeout]]
      BY <1>t, <2>2 DEF PacketTcp
    <3> HIDE DEF n
    <3>3. [sess[c] EXCEPT !.out = n, !.rtcp = MaxTimeout] \in Sess
      BY <1>t, <3>1, PacketType
    <3> QED BY <1>t, <2>2, <2>i, <3>2, <3>3 DEF PacketTcp
  <2>3. CASE PacketRefused(c)
    <3>1. sess' = [sess EXCEPT ![c] = [sess[c] EXCEPT !.err = TRUE, !.shut = TRUE]]
      BY <1>t, <2>3 DEF PacketRefused
    <3>2. [sess[c] EXCEPT !.err = TRUE, !.shut = TRUE] \in Sess
      BY <1>t, RefusedType
    <3> QED BY <1>t, <2>3, <3>1, <3>2 DEF PacketRefused
  <2>4. CASE PacketUdp(c)
    <3>1. [sess[c] EXCEPT !.rtcp = MaxTimeout] \in Sess
      BY <1>t, <1>z DEF Sess
    <3> QED BY <1>t, <2>4, <2>i, <3>1 DEF PacketUdp
  <2> QED BY <1>3, <2>1, <2>2, <2>3, <2>4 DEF Packet
<1>4. ASSUME NEW c \in Conn, ServeRequest(c) \/ ServeEnd(c) \/ Accept(c)
      PROVE  /\ srv' \in Srv /\ srv'.pc \notin {"write", "judge"}
             /\ sess' \in [Conn -> Sess] /\ client' \in [Conn -> Client]
             /\ quiet' \in [Conn -> 0 .. MaxTimeout] /\ idle' \in [Conn -> 0 .. MaxTimeout]
  <2>1. CASE ServeRequest(c)
    <3>1. Reply(Handled(sess[c], client[c].inbox)) \in Sess
      BY <1>t, HandledType, ReplyType
    <3>2. MaxTimeout \in 0 .. MaxTimeout + Grace
      BY ServerAssumption
    <3>3. [Reply(Handled(sess[c], client[c].inbox)) EXCEPT !.timeout = MaxTimeout] \in Sess
      BY <3>1, <3>2 DEF Sess
    <3>4. [client[c] EXCEPT !.inbox = "none"] \in Client
      BY <1>t DEF Client
    <3> QED BY <1>t, <1>z, <2>1, <3>3, <3>4 DEF ServeRequest
  <2>2. CASE ServeEnd(c)
    BY <1>t, <1>z, <1>g, <2>2 DEF ServeEnd
  <2>3. CASE Accept(c)
    <3>1. [client[c] EXCEPT !.st = "open"] \in Client
      BY <1>t DEF Client
    <3>2. [srv EXCEPT !.pc = "ended"] \in Srv /\ [srv EXCEPT !.pc = "ended"].pc = "ended"
      BY <1>t DEF Srv
    <3> QED BY <1>t, <1>g, <2>3, <3>1, <3>2 DEF Accept
  <2> QED BY <1>4, <2>1, <2>2, <2>3
<1>5. ASSUME NEW tick \in BOOLEAN, RoundStart(tick)
      PROVE  UNCHANGED <<sess, client, quiet, idle>> /\ srv' \in Srv /\ srv'.pc = "round"
  BY <1>5, <1>t DEF RoundStart, Srv, Listed
<1>6. ASSUME NEW c \in Conn, RoundIdle(c)
      PROVE  /\ UNCHANGED <<client, quiet, idle>> /\ srv' \in Srv /\ srv'.pc = "round"
             /\ sess' \in [Conn -> Sess]
  <2>1. OnIdle(sess[c]) \in Sess
    BY <1>t, OnIdleType
  <2>2. srv' \in Srv /\ srv'.pc = "round"
    BY <1>6, <1>t DEF RoundIdle, Srv
  <2> QED BY <1>6, <1>t, <2>1, <2>2 DEF RoundIdle
<1>7. ASSUME NEW c \in Conn, RoundReduce(c)
      PROVE  /\ UNCHANGED client /\ srv' \in Srv /\ srv'.cur \in Conn
             /\ sess' \in [Conn -> Sess]
             /\ quiet' \in [Conn -> 0 .. MaxTimeout] /\ idle' \in [Conn -> 0 .. MaxTimeout]
  <2> DEFINE less == IF sess[c].timeout > 0 THEN sess[c].timeout - 1 ELSE 0
             Up(n) == IF n < MaxTimeout THEN n + 1 ELSE n
  <2>1. less \in 0 .. MaxTimeout + Grace
    BY <1>t, ServerAssumption DEF Sess
  <2>2. sess' = [sess EXCEPT ![c] = [@ EXCEPT !.timeout = less]]
    BY <1>7 DEF RoundReduce
  <2>3. Up(quiet[c]) \in 0 .. MaxTimeout /\ Up(idle[c]) \in 0 .. MaxTimeout
    BY <1>t, ServerAssumption
  <2>4. srv' \in Srv /\ srv'.cur \in Conn
    <3>1. sess[c].rtcp \in 0 .. MaxTimeout
      BY <1>t DEF Sess
    <3> QED BY <1>7, <1>t, <3>1 DEF RoundReduce, Srv
  <2> HIDE DEF less
  <2>5. [sess[c] EXCEPT !.timeout = less] \in Sess
    BY <1>t, <2>1 DEF Sess
  <2> QED BY <1>7, <1>t, <2>2, <2>3, <2>4, <2>5 DEF RoundReduce
<1>8. CASE RoundWrite
  <2>1. srv' \in Srv /\ srv'.cur = srv.cur /\ srv.cur \in Conn
    BY <1>8, <1>t, <1>z DEF RoundWrite, Srv
  <2>2. ASSUME srv.val > 0 PROVE [sess[srv.cur] EXCEPT !.rtcp = srv.val - 1] \in Sess
    <3>1. srv.val - 1 \in 0 .. MaxTimeout
      BY <1>t, <2>2, ServerAssumption DEF Srv
    <3> QED BY <1>t, <2>1, <3>1 DEF Sess
  <2>3. sess' \in [Conn -> Sess]
    BY <1>8, <1>t, <2>1, <2>2 DEF RoundWrite
  <2> QED BY <1>8, <1>t, <2>1, <2>3 DEF RoundWrite
<1>9. CASE RoundJudge
  <2>1. srv' \in Srv /\ srv'.pc = "round" /\ srv.cur \in Conn
    BY <1>9, <1>t DEF RoundJudge, Srv
  <2>2. OnIdle(sess[srv.cur]) \in Sess
    BY <1>t, <2>1, OnIdleType
  <2> QED BY <1>9, <1>t, <1>z, <1>g, <2>1, <2>2 DEF RoundJudge
<1>10. CASE RoundEnd
  BY <1>10, <1>t, <1>z DEF RoundEnd, Idle, Srv
<1> QED BY <1>t, <1>1, <1>2, <1>3, <1>4, <1>5, <1>6, <1>7, <1>8, <1>9, <1>10 DEF Next, Round

-----------------------------------------------------------------------------
(* The time-outs.                                                           *)

\* What one session has been given: Counted, for one connection
CountedFor(listed, timeout, mode, left, q, i) ==
  listed => /\ timeout + q >= MaxTimeout
            /\ mode # "none" => timeout + i >= MaxTimeout \/ left + i >= MaxTimeout

CountedOf(c) == CountedFor(sess[c].listed, sess[c].timeout, sess[c].mode, Left(c), quiet[c], idle[c])

LEMMA CountedAll == Counted <=> \A c \in Conn : CountedOf(c)
  BY DEF Counted, CountedOf, CountedFor

\* A session that keeps what is counted, while the server keeps its number
LEMMA CountedKept ==
  ASSUME NEW c \in Conn, CountedOf(c),
         sess'[c].listed = sess[c].listed, sess'[c].timeout = sess[c].timeout,
         sess'[c].mode = sess[c].mode, Left(c)' = Left(c),
         quiet'[c] = quiet[c], idle'[c] = idle[c]
  PROVE  CountedOf(c)'
  BY DEF CountedOf, CountedFor

LEMMA CountedStep == SInv /\ [Next]_vars => Counted'
<1> SUFFICES ASSUME SInv, [Next]_vars, NEW d \in Conn PROVE CountedOf(d)'
  BY DEF Counted, CountedOf, CountedFor
<1>t. /\ srv \in Srv /\ sess \in [Conn -> Sess] /\ client \in [Conn -> Client]
      /\ quiet \in [Conn -> 0 .. MaxTimeout] /\ idle \in [Conn -> 0 .. MaxTimeout]
  BY Types DEF SInv
<1>c. CountedOf(d)
  BY CountedAll DEF SInv
<1>n. /\ sess[d] \in Sess /\ sess[d].timeout \in Nat /\ sess[d].rtcp \in Nat /\ srv.val \in Nat
      /\ quiet[d] \in Nat /\ idle[d] \in Nat /\ MaxTimeout \in Nat /\ Grace \in Nat
      /\ quiet[d] <= MaxTimeout /\ idle[d] <= MaxTimeout
  BY <1>t, ServerAssumption DEF Sess, Srv
<1>1. CASE UNCHANGED <<srv, sess, quiet, idle>>
  BY <1>1, <1>c, CountedKept DEF Left
<1>2. ASSUME NEW c \in Conn, Receive(c) \/ PacketRefused(c) PROVE CountedOf(d)'
  <2>1. /\ UNCHANGED <<srv, quiet, idle>>
        /\ sess'[d].listed = sess[d].listed /\ sess'[d].timeout = sess[d].timeout
        /\ sess'[d].mode = sess[d].mode /\ sess'[d].rtcp = sess[d].rtcp
    BY <1>2, <1>t DEF Receive, PacketRefused, Sess
  <2> QED BY <2>1, <1>c, CountedKept DEF Left
<1>3. ASSUME NEW c \in Conn, PacketTcp(c) \/ PacketUdp(c) PROVE CountedOf(d)'
  <2>1. /\ UNCHANGED <<srv, quiet>> /\ Noticed(c)
        /\ sess'[d].listed = sess[d].listed /\ sess'[d].timeout = sess[d].timeout
        /\ sess'[d].mode = sess[d].mode
        /\ sess'[d].rtcp = IF d = c THEN MaxTimeout ELSE sess[d].rtcp
    BY <1>3, <1>t DEF PacketTcp, PacketUdp, Sess
  <2>2. CASE d = c /\ ~(srv.pc = "write" /\ srv.cur = c /\ srv.val > 0)
    <3>1. Left(d)' = MaxTimeout /\ idle'[d] = 0
      BY <2>1, <2>2, <1>t DEF Noticed, Left
    <3> QED BY <1>c, <1>n, <2>1, <3>1 DEF CountedOf, CountedFor
  <2>3. CASE ~(d = c /\ ~(srv.pc = "write" /\ srv.cur = c /\ srv.val > 0))
    <3>1. Left(d)' = Left(d) /\ idle'[d] = idle[d]
      BY <2>1, <2>3, <1>t DEF Noticed, Left
    <3> QED BY <1>c, <2>1, <3>1, CountedKept
  <2> QED BY <2>2, <2>3
<1>4. ASSUME NEW c \in Conn, ServeRequest(c) \/ ServeEnd(c) \/ Accept(c) PROVE CountedOf(d)'
  <2>1. Left(d) = sess[d].rtcp /\ Left(d)' = sess'[d].rtcp
    <3>1. srv.pc = "select" /\ srv'.pc # "write"
      BY <1>4, <1>t DEF ServeRequest, ServeEnd, Accept, Srv
    <3> QED BY <3>1 DEF Left
  <2>2. CASE d # c
    <3>1. sess'[d] = sess[d] /\ quiet'[d] = quiet[d] /\ idle'[d] = idle[d]
      BY <1>4, <1>t, <2>2 DEF ServeRequest, ServeEnd, Accept
    <3> QED BY <1>c, <2>1, <3>1, CountedKept
  <2>3. CASE d = c /\ ServeRequest(c)
    <3>1. quiet'[d] = 0 /\ idle'[d] = 0 /\ sess'[d].timeout = MaxTimeout
      <4>1. Reply(Handled(sess[c], client[c].inbox)) \in Sess
        BY <1>t, HandledType, ReplyType
      <4> QED BY <1>t, <2>3, <4>1 DEF ServeRequest, Sess
    <3> QED BY <1>n, <3>1 DEF CountedOf, CountedFor
  <2>4. CASE d = c /\ ServeEnd(c)
    <3>1. ~sess'[d].listed
      BY <1>t, <2>4, NewSessType DEF ServeEnd
    <3> QED BY <3>1 DEF CountedOf, CountedFor
  <2>5. CASE d = c /\ Accept(c)
    <3>1. CASE sess' = [sess EXCEPT ![c] = NewSess]
      <4>1. sess'[d].timeout = MaxTimeout + Grace /\ sess'[d].mode = "none"
        BY <1>t, <2>5, <3>1 DEF NewSess, NoSess
      <4>2. quiet'[d] = quiet[d]
        BY <2>5 DEF Accept
      <4> QED BY <1>n, <4>1, <4>2 DEF CountedOf, CountedFor
    <3>2. CASE UNCHANGED sess
      <4>1. quiet'[d] = quiet[d] /\ idle'[d] = idle[d]
        BY <2>5 DEF Accept
      <4> QED BY <1>c, <2>1, <3>2, <4>1, CountedKept
    <3> QED BY <2>5, <3>1, <3>2 DEF Accept
  <2> QED BY <1>4, <2>2, <2>3, <2>4, <2>5
<1>5. CASE RoundEnd \/ \E tick \in BOOLEAN : RoundStart(tick)
  <2>1. UNCHANGED <<sess, quiet, idle>> /\ srv.pc # "write" /\ srv'.pc # "write"
    <3>1. CASE RoundEnd
      BY <3>1 DEF RoundEnd, Idle
    <3>2. ASSUME NEW tick \in BOOLEAN, RoundStart(tick)
          PROVE  UNCHANGED <<sess, quiet, idle>> /\ srv.pc # "write" /\ srv'.pc # "write"
      BY <1>t, <3>2 DEF RoundStart, Srv
    <3> QED BY <1>5, <3>1, <3>2
  <2> QED BY <1>c, <2>1, CountedKept DEF Left
<1>6. ASSUME NEW c \in Conn, RoundIdle(c) PROVE CountedOf(d)'
  <2>1. UNCHANGED <<quiet, idle>> /\ srv.pc # "write" /\ srv'.pc # "write"
    BY <1>6, <1>t DEF RoundIdle, Srv
  <2>2. sess'[d] = IF d = c THEN OnIdle(sess[d]) ELSE sess[d]
    BY <1>6, <1>t DEF RoundIdle
  <2> QED BY <1>c, <1>n, <2>1, <2>2, OnIdleType, CountedKept DEF Left
<1>7. ASSUME NEW c \in Conn, RoundReduce(c) PROVE CountedOf(d)'
  <2>1. srv.pc = "round" /\ srv'.pc = "write" /\ srv'.cur = c /\ srv'.val = sess[c].rtcp
    BY <1>7, <1>t DEF RoundReduce, Srv
  <2>2. CASE d # c
    <3>1. sess'[d] = sess[d] /\ quiet'[d] = quiet[d] /\ idle'[d] = idle[d]
      BY <1>7, <1>t, <2>2 DEF RoundReduce
    <3> QED BY <1>c, <2>1, <2>2, <3>1, CountedKept DEF Left
  <2>3. CASE d = c
    <3>1. /\ sess'[d].listed = sess[d].listed /\ sess'[d].mode = sess[d].mode
          /\ sess'[d].rtcp = sess[d].rtcp
          /\ sess'[d].timeout = IF sess[d].timeout > 0 THEN sess[d].timeout - 1 ELSE 0
      BY <1>7, <1>t, <2>3 DEF RoundReduce, Sess
    <3>2. /\ quiet'[d] = IF quiet[d] < MaxTimeout THEN quiet[d] + 1 ELSE quiet[d]
          /\ idle'[d] = IF idle[d] < MaxTimeout THEN idle[d] + 1 ELSE idle[d]
      BY <1>7, <1>t, <2>3 DEF RoundReduce
    <3>3. /\ Left(d) = sess[d].rtcp
          /\ Left(d)' = IF sess[d].rtcp > 0 THEN sess[d].rtcp - 1 ELSE sess[d].rtcp
      BY <2>1, <2>3, <3>1 DEF Left
    <3> QED BY <1>c, <1>n, <3>1, <3>2, <3>3 DEF CountedOf, CountedFor
  <2> QED BY <2>2, <2>3
<1>8. CASE RoundWrite
  <2>1. UNCHANGED <<quiet, idle>> /\ srv.pc = "write" /\ srv'.pc = "judge" /\ srv.cur \in Conn
    BY <1>8, <1>t DEF RoundWrite, Srv, SInv, InHand
  <2>2. /\ sess'[d].listed = sess[d].listed /\ sess'[d].timeout = sess[d].timeout
        /\ sess'[d].mode = sess[d].mode
        /\ sess'[d].rtcp = IF d = srv.cur /\ srv.val > 0 THEN srv.val - 1 ELSE sess[d].rtcp
    BY <1>8, <1>t, <2>1 DEF RoundWrite, Sess
  <2> QED BY <1>c, <2>1, <2>2, CountedKept DEF Left
<1>9. CASE RoundJudge
  <2>1. srv.pc # "write" /\ srv'.pc # "write" /\ srv.cur \in Conn
    BY <1>9, <1>t DEF RoundJudge, Srv, SInv, InHand
  <2>2. CASE d # srv.cur
    <3>1. sess'[d] = sess[d] /\ quiet'[d] = quiet[d] /\ idle'[d] = idle[d]
      BY <1>9, <1>t, <2>2 DEF RoundJudge
    <3> QED BY <1>c, <2>1, <3>1, CountedKept DEF Left
  <2>3. CASE d = srv.cur /\ Expired(sess[srv.cur])
    <3>1. ~sess'[d].listed
      BY <1>9, <1>t, <2>3, NewSessType DEF RoundJudge
    <3> QED BY <3>1 DEF CountedOf, CountedFor
  <2>4. CASE d = srv.cur /\ ~Expired(sess[srv.cur])
    <3>1. sess'[d] = OnIdle(sess[d]) /\ UNCHANGED <<quiet, idle>>
      BY <1>9, <1>t, <2>4 DEF RoundJudge
    <3> QED BY <1>c, <1>n, <2>1, <3>1, OnIdleType, CountedKept DEF Left
  <2> QED BY <2>2, <2>3, <2>4
<1>10. ASSUME NEW c \in Conn, Connect(c) \/ Leave(c) \/ (\E r \in Uses[c] : Send(c, r))
       PROVE  CountedOf(d)'
  BY <1>1, <1>10 DEF Connect, Leave, Send
<1>11. CASE UNCHANGED vars
  BY <1>1, <1>11 DEF vars
<1> QED BY <1>2, <1>3, <1>4, <1>5, <1>6, <1>7, <1>8, <1>9, <1>10, <1>11 DEF Next, Round, Packet

LEMMA AlwaysSInv == Spec => []SInv
<1>1. SInv /\ [Next]_vars => SInv'
  BY TypeStep, CountedStep DEF SInv
<1> QED BY <1>1, InitSInv, PTL DEF Spec

\* The state of the server, its sessions and the clients is well typed; in
\* particular no time-out and no output buffer passes its limit.
THEOREM ServerTypeCorrect == Spec => []TypeOK
<1>1. SInv => TypeOK
  BY DEF SInv
<1> QED BY <1>1, AlwaysSInv, PTL

\* For any number of clients, any time-outs and buffers, and although a packet
\* noticed during the server's read and store of the RTCP time-out is lost: who
\* is timed out asked for nothing and was sent nothing for a whole time-out.
THEOREM NobodyTimedOutEarly == Spec => NotTimedOutEarly
<1> DEFINE A == \A c \in Conn : TimedOut(c) =>
                  quiet[c] = MaxTimeout /\ (sess[c].mode # "none" => idle[c] = MaxTimeout)
<1>1. ASSUME SInv, [Next]_vars PROVE [A]_vars
  <2> SUFFICES ASSUME Next, NEW c \in Conn, TimedOut(c)
               PROVE  quiet[c] = MaxTimeout /\ (sess[c].mode # "none" => idle[c] = MaxTimeout)
    BY <1>1
  <2>t. /\ srv \in Srv /\ sess \in [Conn -> Sess]
        /\ quiet \in [Conn -> 0 .. MaxTimeout] /\ idle \in [Conn -> 0 .. MaxTimeout]
    BY <1>1, Types DEF SInv
  <2>1. srv.pc = "judge" /\ srv.cur = c /\ sess[c].listed /\ ~sess'[c].listed
    BY DEF TimedOut
  <2>2. ASSUME NEW d \in Conn, Receive(d) \/ Packet(d) PROVE FALSE
    <3>1. sess'[c].listed = sess[c].listed
      BY <2>2, <2>t DEF Receive, Packet, PacketTcp, PacketRefused, PacketUdp, Sess
    <3> QED BY <2>1, <3>1
  <2>3. ASSUME NEW d \in Conn, Connect(d) \/ Leave(d) \/ (\E r \in Uses[d] : Send(d, r)) PROVE FALSE
    BY <2>1, <2>3 DEF Connect, Leave, Send
  <2>4. RoundJudge
    BY <2>1, <2>2, <2>3 DEF Next, Round, ServeRequest, ServeEnd, Accept, RoundStart,
       RoundIdle, RoundReduce, RoundWrite, RoundEnd
  <2>5. Expired(sess[c])
    <3>1. ASSUME ~Expired(sess[c]) PROVE FALSE
      <4>1. sess'[c] = OnIdle(sess[c])
        BY <2>1, <2>4, <2>t, <3>1 DEF RoundJudge
      <4> QED BY <2>1, <2>t, <4>1, OnIdleType
    <3> QED BY <3>1
  <2>6. Left(c) = sess[c].rtcp
    BY <2>1 DEF Left
  <2>7. CountedOf(c)
    BY <1>1, CountedAll DEF SInv
  <2> QED BY <2>1, <2>5, <2>6, <2>7, <2>t, ServerAssumption DEF CountedOf, CountedFor, Expired
<1> QED BY <1>1, AlwaysSInv, PTL DEF Spec, NotTimedOutEarly
=============================================================================
