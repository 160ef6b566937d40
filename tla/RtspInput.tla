----------------------------- MODULE RtspInput -----------------------------
(***************************************************************************)
(* What rtsp_session makes of the bytes that TCP delivers: the server reads *)
(* up to ReadMax of them at a time and handle_read takes the requests out.  *)
(* Over TCP the client's RTCP packets share the connection; the parser does *)
(* not know them and drops the chunk, or the connection, when one comes.    *)
(*                                                                          *)
(* A read and the loops of handle_read and parse are steps of one thread:   *)
(* a character of a head, a piece of a body, the end of the chunk.          *)
(***************************************************************************)
EXTENDS RequestParser

CONSTANTS
  Bytes,     \* what a client can send: a function from messages to their characters
  Rtcp,      \* the messages that are RTCP packets; the others are requests
  Verb,      \* how the methods that change the handler's state are spelled
  Messages,  \* sequences of messages, one for each client
  ReadMax    \* size of the server's buffer

VARIABLES
  messages,  \* what this client sends
  pos,       \* bytes of it that were read
  left,      \* bytes of the chunk that parse has not looked at
  at,        \* "read": the server waits in select; "parse": it is in handle_read
  req,       \* m_parser and m_request
  state,     \* m_state of the handler
  handled,   \* history: the requests given to handle_request
  granted,   \* history: whether the handler did what each of them asks for
  shut       \* the socket was shut down

vars == <<messages, pos, left, at, req, state, handled, granted, shut>>

\* A message read alone, character by character: the parser after the first k
\* of them.  What is to be expected of it is said in these terms.
More(q, ch) ==
  IF q.head THEN [q EXCEPT !.data = Append(@, ch)]
  ELSE IF Takes(q, ch) THEN TakeHead(q, ch) ELSE q
Alone(m) ==
  LET after[k \in 0 .. Len(Bytes[m])] ==
        IF k = 0 THEN NewRequest ELSE More(after[k - 1], Bytes[m][k])
  IN after

Whole(q) == q.head /\ Len(q.data) = q.need

\* A request is what the parser takes to its end and no further.
IsRequest(m) ==
  LET N == Len(Bytes[m]) IN
  /\ Whole(Alone(m)[N])
  /\ \A k \in 0 .. N - 1 :
       LET q == Alone(m)[k] IN ~Whole(q) /\ (q.head \/ Takes(q, Bytes[m][k + 1]))

\* A packet of RTCP stops it before the end of a head.
IsRefused(m) ==
  \E n \in 0 .. Len(Bytes[m]) - 1 :
    /\ ~Takes(Alone(m)[n], Bytes[m][n + 1])
    /\ \A k \in 0 .. n : ~Alone(m)[k].head
    /\ \A k \in 0 .. n - 1 : Takes(Alone(m)[k], Bytes[m][k + 1])

Verbs == {"DESCRIBE", "SETUP", "PLAY", "TEARDOWN"}

ASSUME InputAssumption ==
  /\ ReadMax \in Nat
  /\ Bytes \in [DOMAIN Bytes -> Seq(Char)]
  /\ Messages \subseteq Seq(DOMAIN Bytes)
  /\ Verb \in [Verbs -> Seq(Char)]
  /\ \A v, w \in Verbs : Verb[v] = Verb[w] => v = w
  /\ \A m \in DOMAIN Bytes : IF m \in Rtcp THEN IsRefused(m) ELSE IsRequest(m)

\* What the client has sent with its first i messages
Sent(ms) ==
  LET sent[i \in 0 .. Len(ms)] == IF i = 0 THEN <<>> ELSE sent[i - 1] \o Bytes[ms[i]]
  IN sent
Wire(ms) == Sent(ms)[Len(ms)]
EndOf(ms, i) == Len(Sent(ms)[i])

Init ==
  /\ messages \in Messages
  /\ pos = 0 /\ left = 0
  /\ at = "read"
  /\ req = NewRequest
  /\ state = "IDLE"
  /\ handled = <<>> /\ granted = <<>>
  /\ shut = FALSE

-----------------------------------------------------------------------------
\* The assumption about the network under which RTCP does no harm to requests:
\* a packet of it is read at once and alone.
AloneRtcp(n) ==
  \A i \in 1 .. Len(messages) :
    messages[i] \in Rtcp =>
      LET from == EndOf(messages, i - 1)
          to == EndOf(messages, i)
      IN pos + n <= from \/ pos >= to \/ (pos = from /\ pos + n = to)

\* A read: what has arrived and fits into the buffer.  After a shutdown what
\* had arrived before is still read.
Read ==
  /\ at = "read"
  /\ \E n \in 1 .. ReadMax :
       /\ pos + n <= Len(Wire(messages))
       /\ AloneRtcp(n)
       /\ pos' = pos + n
       /\ left' = n
  /\ at' = "parse"
  /\ UNCHANGED <<messages, req, state, handled, granted, shut>>

Chunk == SubSeq(Wire(messages), pos - left + 1, pos)

\* Mutant: the request is not cleared for the next one.
ResetParserOnly(q) == [q EXCEPT !.state = "method_start", !.head = FALSE]

\* handle_reset
ResetRequest(q) == NewRequest

\* Mutant: what cannot be parsed ends the connection in every state.
RefusedAlways == shut' = TRUE /\ UNCHANGED req

\* Not a request: while frames are sent it is taken for RTCP, else the
\* connection is shut down and the parser stays where it is.
Refused ==
  \/ state = "PLAYING" /\ req' = ResetRequest(req) /\ UNCHANGED shut
  \/ state # "PLAYING" /\ shut' = TRUE /\ UNCHANGED req

\* parse, one character of the head; what is no request is dropped with the
\* rest of the chunk.
ParseHead ==
  /\ at = "parse" /\ left > 0 /\ ~req.head
  /\ LET ch == Chunk[1] IN
     \/ /\ Takes(req, ch)
        /\ req' = TakeHead(req, ch)
        /\ left' = left - 1
        /\ UNCHANGED <<at, shut>>
     \/ /\ ~Takes(req, ch)
        /\ Refused
        /\ left' = 0 /\ at' = "read"
  /\ UNCHANGED <<messages, pos, state, handled, granted>>

\* handle_request.  A request may always be refused (its address, the stream and
\* its head, the codec; RtspStreams says when), SETUP while playing and PLAY
\* without SETUP must be.  TEARDOWN ends the connection.
Grant(method) ==
  /\ method = Verb["SETUP"] => state # "PLAYING"
  /\ method = Verb["PLAY"] => state = "SETUPED"
  /\ state' = CASE method = Verb["DESCRIBE"] -> "DESCRIBED"
                [] method = Verb["SETUP"] -> "SETUPED"
                [] method = Verb["PLAY"] -> "PLAYING"
                [] method = Verb["TEARDOWN"] /\ state = "PLAYING" -> "IDLE"
                [] OTHER -> state
  /\ shut' = (shut \/ method = Verb["TEARDOWN"])

\* process_rtsp_request
Process(q) ==
  /\ handled' = Append(handled, [method |-> q.method, data |-> q.data])
  /\ \/ Grant(q.method) /\ granted' = Append(granted, TRUE)
     \/ UNCHANGED <<state, shut>> /\ granted' = Append(granted, FALSE)

\* parse, behind the head: a request that is complete is handled and the next
\* one begins, or the rest of the body is still to come.
ParseBody ==
  /\ at = "parse" /\ req.head
  /\ \/ /\ left >= Missing(req)
        /\ Process(TakeBody(req, Chunk))
        /\ req' = ResetRequest(TakeBody(req, Chunk))
        /\ left' = left - Missing(req)
        /\ UNCHANGED at
     \/ /\ left < Missing(req)
        /\ req' = TakeBody(req, Chunk)
        /\ left' = 0 /\ at' = "read"
        /\ UNCHANGED <<state, handled, granted, shut>>
  /\ UNCHANGED <<messages, pos>>

\* handle_read returns at the end of the chunk.
ParseEnd ==
  /\ at = "parse" /\ left = 0 /\ ~req.head
  /\ at' = "read"
  /\ UNCHANGED <<messages, pos, left, req, state, handled, granted, shut>>

Next == Read \/ ParseHead \/ ParseBody \/ ParseEnd

Spec == Init /\ [][Next]_vars

-----------------------------------------------------------------------------
(* Properties.                                                              *)

Handled == [method : Seq(Char), data : Seq(Char)]

TypeOK ==
  /\ messages \in Messages
  /\ pos \in 0 .. Len(Wire(messages))
  /\ left \in 0 .. pos /\ left <= ReadMax
  /\ at \in {"read", "parse"}
  /\ req.state \in States
  /\ Len(req.data) <= req.need
  /\ handled \in Seq(Handled)
  /\ \A i \in DOMAIN handled : Len(handled[i].data) <= 2
  /\ state \in {"IDLE", "DESCRIBED", "SETUPED", "PLAYING"}
  /\ granted \in Seq(BOOLEAN) /\ Len(granted) = Len(handled)
  /\ shut \in BOOLEAN

\* The requests among the first i messages, as they are when read alone
Request(m) ==
  LET q == Alone(m)[Len(Bytes[m])] IN [method |-> q.method, data |-> q.data]
Requests(ms) ==
  LET reqs[i \in 0 .. Len(ms)] ==
        IF i = 0 THEN <<>>
        ELSE IF ms[i] \in Rtcp THEN reqs[i - 1] ELSE Append(reqs[i - 1], Request(ms[i]))
  IN reqs

\* However TCP cuts the bytes into reads (several requests in one, one in many,
\* a cut inside a line end or a body) every request is handled once it is
\* complete, in its order, once, with its own method and body.
CutsDoNotMatter ==
  at = "read" /\ ~shut =>
    \A i \in 0 .. Len(messages) :
      /\ EndOf(messages, i) <= pos
      /\ i < Len(messages) => pos < EndOf(messages, i + 1)
      => handled = Requests(messages)[i]

\* The handler did what message i asks for, and that is verb.
Granted(i, verb) ==
  LET n == Len(Requests(messages)[i]) IN
  /\ messages[i] \notin Rtcp
  /\ Request(messages[i]).method = Verb[verb]
  /\ n <= Len(granted) /\ granted[n]

\* By its first i messages the client plays: DESCRIBE ends that like TEARDOWN.
PlaysAfter(i) ==
  \E j \in 1 .. i :
    /\ Granted(j, "PLAY")
    /\ \A k \in j + 1 .. i : ~Granted(k, "DESCRIBE") /\ ~Granted(k, "TEARDOWN")

\* However its bytes are cut, a client loses its connection only by asking for it
\* or by RTCP that it sends while it does not play.
OnlyIdleRtcpRefused ==
  shut => \E i \in 1 .. Len(messages) :
            /\ EndOf(messages, i) <= pos
            /\ \/ Granted(i, "TEARDOWN")
               \/ messages[i] \in Rtcp /\ ~PlaysAfter(i - 1)
=============================================================================
