---------------------------- MODULE RtmpSessions ----------------------------
(***************************************************************************)
(* RTMP publishing: session_manager and its sessions, each with a ring of  *)
(* records (a head and the bytes of a nalu) and a thread of its own that   *)
(* sends them.                                                             *)
(*                                                                         *)
(* The thread that is inside session_manager holds m_sess_mu for the whole *)
(* call: mgr says how far it is.  Whoever calls is the same to the others. *)
(* A record goes into and out of the ring under m_sbuf_mu, in one step.    *)
(* Only video is modelled: no part of the program posts audio frames.      *)
(* librtmp is external: a send takes the thread into the library, where it *)
(* stays until the peer has read, or for ever, and then succeeds or closes *)
(* the connection.                                                         *)
(***************************************************************************)
EXTENDS Naturals, Sequences, FiniteSets

CONSTANTS
  Dest,      \* sessions, by their key (chn, stream, url)
  Stream,    \* the pairs (chn, stream)
  StreamOf,  \* of a session
  BodyLen,   \* the sizes of a nalu
  Cap,       \* size of the ring; a head takes one cell
  MaxFrame,  \* bound: frames of a stream
  NoDest

ASSUME RtmpAssumption ==
  /\ StreamOf \in [Dest -> Stream]
  /\ BodyLen \subseteq Nat \ {0}
  /\ Cap \in Nat \ {0}
  /\ MaxFrame \in Nat
  /\ NoDest \notin Dest

VARIABLES
  sess,   \* the session objects: m_bstart, m_rtmp, m_sps and m_pps (the number of the
          \* key frame they came with, 0 when the size is 0), m_sbuf, and of the
          \* thread: where it is, key_sended, the record it sends, whether it is
          \* inside librtmp
  reg,    \* m_sess
  mgr,    \* the call that holds m_sess_mu
  count,  \* frames that came, per stream
  sent    \* the video messages a session sent over its connection; the last of them
          \* may not have reached the server

vars == <<sess, reg, mgr, count, sent>>

-----------------------------------------------------------------------------
(* Frames.  The cells of a record: part 0 is the head, then the body.       *)

Frame == [no : 1 .. MaxFrame, kind : {"key", "p"}, len : BodyLen]
Cell(f, j) == [no |-> f.no, kind |-> f.kind, len |-> f.len, part |-> j]
Body(f) == [j \in 1 .. f.len |-> Cell(f, j)]
NoFrame == [no |-> 0, kind |-> "none", len |-> 0]
NoByte == Cell(NoFrame, 0)

\* The encoder hands a key frame over with its parameter sets, in this order.
Nalus(f) == IF f.kind = "key" THEN <<"sps", "pps", "slice">> ELSE <<"slice">>

Byte == {Cell(f, j) : f \in Frame, j \in 0 .. Cap}

Buf == INSTANCE StreamBuf

NoRecord == [head |-> NoByte, body |-> <<>>]
NoSession == [on |-> FALSE, rtmp |-> "none", sps |-> 0, pps |-> 0,
              ring |-> Buf!EmptyRing, pc |-> "none", key |-> FALSE, cur |-> NoRecord,
              sending |-> FALSE]
FreeMgr == [pc |-> "free", job |-> "none", frame |-> NoFrame, todo |-> {},
            dest |-> NoDest, nalus |-> <<>>]

Init ==
  /\ sess = [d \in Dest |-> NoSession]
  /\ reg = {}
  /\ mgr = FreeMgr
  /\ count = [s \in Stream |-> 0]
  /\ sent = [d \in Dest |-> <<>>]

Connected(d) == sess[d].rtmp = "open"

-----------------------------------------------------------------------------
(* session_manager.                                                         *)

\* create_session: start() of a new session succeeds (a session that could
\* not connect leaves nothing).
Create(d) ==
  /\ mgr.pc = "free" /\ d \notin reg
  /\ sess' = [sess EXCEPT ![d] = [NoSession EXCEPT !.on = TRUE, !.rtmp = "open", !.pc = "check"]]
  /\ reg' = reg \cup {d}
  /\ UNCHANGED <<mgr, count, sent>>

\* delete_session, of one url or of all sessions of a stream
Delete(S) ==
  /\ mgr.pc = "free" /\ S \cap reg # {}
  /\ mgr' = [FreeMgr EXCEPT !.pc = "loop", !.job = "delete", !.todo = S \cap reg]
  /\ UNCHANGED <<sess, reg, count, sent>>

\* process_data, for a stream that somebody publishes
Post(s, kind, len) ==
  LET f == [no |-> count[s] + 1, kind |-> kind, len |-> len]
      S == {d \in reg : StreamOf[d] = s}
  IN
  /\ mgr.pc = "free" /\ S # {} /\ count[s] < MaxFrame
  /\ count' = [count EXCEPT ![s] = @ + 1]
  /\ mgr' = [FreeMgr EXCEPT !.pc = "loop", !.job = "post", !.frame = f, !.todo = S]
  /\ UNCHANGED <<sess, reg, sent>>

\* The next session of the loop; the map is ordered by the address of its
\* keys, which is any order.
Visit ==
  /\ mgr.pc = "loop"
  /\ \/ \E d \in mgr.todo :
          mgr' = [mgr EXCEPT !.dest = d, !.todo = @ \ {d},
                    !.pc = IF mgr.job = "post" THEN "nalus" ELSE "stop",
                    !.nalus = IF mgr.job = "post" THEN Nalus(mgr.frame) ELSE <<>>]
     \/ mgr.todo = {} /\ mgr' = FreeMgr
  /\ UNCHANGED <<sess, reg, count, sent>>

Fits(d, f) == Buf!RemainLen(sess[d].ring) >= f.len + 1

Store(d, nalu, f) ==
  [sess EXCEPT ![d].ring = IF nalu = "slice" THEN Buf!InputData(Buf!InputData(@, <<Cell(f, 0)>>), Body(f))
                         ELSE @,
               ![d].sps = IF nalu = "sps" THEN f.no ELSE @,
               ![d].pps = IF nalu = "pps" THEN f.no ELSE @]

Accepts(d, nalu, f) == Connected(d) /\ (nalu = "slice" => Fits(d, f))

\* input_one_nalu, and the loop over the nalus that ends with a failure: the
\* connection is closed, the ring is full, or the nalu itself is refused (it does
\* not start with 00 00 00 01, it is a parameter set of more than 256 bytes, its
\* type is not known, as those of an H.265 stream)
InputOneNalu ==
  LET d == mgr.dest
      n == Head(mgr.nalus)
      rest == Tail(mgr.nalus)
  IN
  /\ mgr.pc = "nalus"
  /\ \/ /\ Accepts(d, n, mgr.frame)
        /\ sess' = Store(d, n, mgr.frame)
        /\ mgr' = [mgr EXCEPT !.nalus = rest, !.pc = IF rest = <<>> THEN "loop" ELSE @,
                              !.dest = IF rest = <<>> THEN NoDest ELSE @]
     \/ /\ mgr' = [mgr EXCEPT !.pc = "stop", !.nalus = <<>>]
        /\ UNCHANGED sess
  /\ UNCHANGED <<reg, count, sent>>

\* Mutant: the flag is not taken back.
ClearStartNot == UNCHANGED sess

\* session::stop: the flag without a mutex,
ClearStart == sess' = [sess EXCEPT ![mgr.dest].on = FALSE]

StopFlag ==
  /\ mgr.pc = "stop"
  /\ ClearStart
  /\ mgr' = [mgr EXCEPT !.pc = "close"]
  /\ UNCHANGED <<reg, count, sent>>

\* RTMP_Close while the thread may be sending; it has messages of its own to send
\* (FCUnpublish, deleteStream), and does not get the thread out of its send.
StopClose ==
  /\ mgr.pc = "close"
  /\ sess' = [sess EXCEPT ![mgr.dest].rtmp = "closed"]
  /\ mgr' = [mgr EXCEPT !.pc = "join"]
  /\ UNCHANGED <<reg, count, sent>>

\* Mutant: nobody waits for the thread.
JoinedAlways(d) == TRUE

Joined(d) == sess[d].pc = "done"

\* Of an object that is gone: whether it was over
Over(s) == [NoSession EXCEPT !.on = s.on, !.pc = s.pc, !.sending = s.sending]

\* the join, RTMP_Free, and the erase of the caller, which destroys the object.
StopJoin ==
  /\ mgr.pc = "join"
  /\ Joined(mgr.dest)
  /\ sess' = [sess EXCEPT ![mgr.dest] = Over(@)]
  /\ sent' = [sent EXCEPT ![mgr.dest] = <<>>]
  /\ reg' = reg \ {mgr.dest}
  /\ mgr' = [mgr EXCEPT !.pc = "loop", !.dest = NoDest]
  /\ UNCHANGED count

\* The steps of the manager, but for RTMP_Close
Manager == Visit \/ InputOneNalu \/ StopFlag \/ StopJoin

-----------------------------------------------------------------------------
(* session::on_process, the thread of a session.                            *)

\* The thread is in its own code.
At(d, pc) == sess[d].pc = pc /\ ~sess[d].sending

\* while(m_bstart)
CheckStart(d) ==
  /\ At(d, "check")
  /\ sess' = [sess EXCEPT ![d].pc = IF sess[d].on THEN "take" ELSE "done"]
  /\ UNCHANGED <<reg, mgr, count, sent>>

\* Mutant: any record starts the stream.
WantedAlways(s, head) == TRUE

\* Before the first key frame records are dropped.
Wanted(s, head) == s.key \/ head.kind = "key"

\* Copy the head; if the body is there too, take both out of the ring.
Take(d) ==
  LET s == sess[d]
      head == Buf!CopyData(s.ring, 1)[1]
      body == Buf!CopyData(Buf!GetData(s.ring, 1), head.len)
  IN
  /\ At(d, "take")
  /\ \/ /\ s.ring.len >= 1 /\ head.len + 1 <= s.ring.len
        /\ sess' = [sess EXCEPT ![d].ring = Buf!GetData(Buf!GetData(@, 1), head.len),
                      ![d].cur = IF Wanted(s, head) THEN [head |-> head, body |-> body] ELSE @,
                      ![d].pc = IF ~Wanted(s, head) THEN "check"
                                ELSE IF head.kind = "key" THEN "config" ELSE "send"]
     \/ /\ s.ring.len = 0 \/ head.len + 1 > s.ring.len
        /\ sess' = [sess EXCEPT ![d].pc = "check"]
  /\ UNCHANGED <<reg, mgr, count, sent>>

\* send_packet of a message (of none, when it is not video): the thread enters
\* librtmp if the connection is open, and goes on with next when it is back.
SendPacket(d, message, next) ==
  \/ /\ Connected(d)
     /\ sent' = [sent EXCEPT ![d] = @ \o message]
     /\ sess' = [sess EXCEPT ![d] = [next EXCEPT !.sending = TRUE]]
  \/ /\ ~Connected(d)
     /\ sess' = [sess EXCEPT ![d] = next]
     /\ UNCHANGED sent

\* The send returns; one that failed has closed the connection.  The caller does
\* not look at the result.
EndSend(d) ==
  /\ sess[d].sending
  /\ \/ sess' = [sess EXCEPT ![d].sending = FALSE]
     \/ sess' = [sess EXCEPT ![d].sending = FALSE, ![d].rtmp = "closed"]
  /\ UNCHANGED <<reg, mgr, count, sent>>

\* send_sps_pps, from what m_sps and m_pps hold by now.  It copies them without
\* the mutex: a copy of two key frames' sets counts as one of the older's.
SendSpsPps(d) ==
  LET s == sess[d]
      older == IF s.sps <= s.pps THEN s.sps ELSE s.pps
      next == [s EXCEPT !.pc = "aac"]
  IN
  /\ At(d, "config")
  /\ \/ older # 0 /\ SendPacket(d, <<[kind |-> "config", no |-> older]>>, next)
     \/ /\ older = 0
        /\ sess' = [sess EXCEPT ![d] = next]
        /\ UNCHANGED sent
  /\ UNCHANGED <<reg, mgr, count>>

\* send_aac_spec
SendAacSpec(d) ==
  /\ At(d, "aac")
  /\ SendPacket(d, <<>>, [sess[d] EXCEPT !.pc = "send", !.key = TRUE])
  /\ UNCHANGED <<reg, mgr, count>>

\* process_video
ProcessVideo(d) ==
  LET head == sess[d].cur.head IN
  /\ At(d, "send")
  /\ SendPacket(d, <<[kind |-> head.kind, no |-> head.no]>>,
                [sess[d] EXCEPT !.pc = "check", !.cur = NoRecord])
  /\ UNCHANGED <<reg, mgr, count>>

\* The steps of the thread in its own code
Worker(d) ==
  CheckStart(d) \/ Take(d) \/ SendSpsPps(d) \/ SendAacSpec(d) \/ ProcessVideo(d)

-----------------------------------------------------------------------------
OfStream(s) == {d \in Dest : StreamOf[d] = s}

Next ==
  \/ \E d \in Dest : Create(d) \/ Delete({d}) \/ Worker(d) \/ EndSend(d)
  \/ \E s \in Stream : \/ Delete(OfStream(s))
                       \/ \E kind \in {"key", "p"}, len \in BodyLen : Post(s, kind, len)
  \/ Manager \/ StopClose

\* The threads run in the program's own code.  Nothing is said of the library:
\* Link.timeout bounds its connecting and receiving, not a send to a peer that is
\* there and does not read.
Fairness == WF_vars(Manager) /\ \A d \in Dest : WF_vars(Worker(d))

Spec == Init /\ [][Next]_vars /\ Fairness
-----------------------------------------------------------------------------
(* Properties.                                                              *)

TypeOK ==
  /\ sess \in [Dest -> [on : BOOLEAN, rtmp : {"none", "open", "closed"}, sps : 0 .. MaxFrame,
                        pps : 0 .. MaxFrame, ring : Buf!Ring, key : BOOLEAN,
                        pc : {"none", "check", "take", "config", "aac", "send", "done"},
                        cur : [head : Byte \cup {NoByte}, body : Seq(Byte)],
                        sending : BOOLEAN]]
  /\ reg \subseteq Dest
  /\ mgr \in [pc : {"free", "loop", "nalus", "stop", "close", "join"},
              job : {"none", "post", "delete"}, frame : Frame \cup {NoFrame},
              todo : SUBSET Dest, dest : Dest \cup {NoDest},
              nalus : Seq({"sps", "pps", "slice"})]
  /\ count \in [Stream -> 0 .. MaxFrame]
  /\ sent \in [Dest -> Seq([kind : {"config", "key", "p"}, no : 1 .. MaxFrame])]

\* A player can decode what the server got: it begins with parameter sets and a
\* key frame, every key frame has parameter sets before it no part of which is
\* older than the frame, and no frame is missing in between, whatever overflowed
\* and whatever was lost.
Playable ==
  \A d \in Dest :
    /\ sent[d] # <<>> => sent[d][1].kind = "config"
    /\ \A i \in 1 .. Len(sent[d]) - 1 :
         LET a == sent[d][i]
             b == sent[d][i + 1]
         IN  /\ b.kind = "key" <=> a.kind = "config"
             /\ b.kind = "key" => a.no >= b.no
             /\ b.kind = "key" /\ i > 1 => b.no = sent[d][i - 1].no + 1
             /\ b.kind = "p" => b.no = a.no + 1

\* What the thread sends is one record as it was put in: heads and bodies stay
\* together however the records lie in the ring.
RecordsIntact ==
  \A d \in Dest : sess[d].pc \in {"config", "aac", "send"} =>
    sess[d].cur.head.part = 0 /\ sess[d].cur.body = Body(sess[d].cur.head)

\* A session that left the map is over: not started (the destructor asserts
\* it), its thread has ended, not inside librtmp, and its RTMP is freed; and no
\* thread runs on a freed RTMP.
ErasedIsOver ==
  \A d \in Dest :
    /\ d \notin reg =>
         ~sess[d].on /\ sess[d].pc \in {"none", "done"} /\ ~sess[d].sending /\ sess[d].rtmp = "none"
    /\ sess[d].pc \notin {"none", "done"} => sess[d].rtmp # "none"

\* What the manager needs of the peers: sends return, those of the threads and
\* those of RTMP_Close.
PeersRead ==
  /\ \A d \in Dest : []<>~sess[d].sending
  /\ []<>(mgr.pc # "close")

\* While the peers read, a call of the manager ends, although it waits for a
\* thread: the capture thread is held up by a broken connection, not for ever.
\* A peer that is there and does not read does hold it up.
ManagerReturns == PeersRead => []<>(mgr.pc = "free")
=============================================================================
