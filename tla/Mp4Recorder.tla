---------------------------- MODULE Mp4Recorder ----------------------------
(***************************************************************************)
(* stream_save::mp4_save: a recorder puts the frames it is given into a    *)
(* ring of bytes; its thread takes them out and hands them to the MP4      *)
(* library (external).  A record of the ring is the length, the type and   *)
(* the bytes of a frame.  Only video is modelled: no part of the program   *)
(* posts audio.                                                            *)
(*                                                                         *)
(* The actions are those of one object; whoever owns the objects composes  *)
(* them.  m_interface_mu is visible only in close, which keeps it while it *)
(* waits for the thread; m_buf_mu is held inside single steps.             *)
(***************************************************************************)
EXTENDS Naturals, Sequences

CONSTANTS
  Rec,      \* recorder objects
  BodyLen,  \* the sizes of a frame
  Cap,      \* size of the ring; the length and the type take one cell each
  MaxFrame  \* bound: frames of the main stream

ASSUME RecorderAssumption ==
  /\ BodyLen \subseteq Nat \ {0}
  /\ Cap \in Nat \ {0}
  /\ MaxFrame \in Nat

VARIABLES
  rec,    \* the objects: m_bopen, m_mp4_fh, m_sbuf, m_interface_mu, and of the
          \* thread: where it is and the record it has taken
  taken,  \* the frames input_data accepted, per object
  filed   \* the frames handed to the library, per object

recVars == <<rec, taken, filed>>

-----------------------------------------------------------------------------
(* Records.                                                                 *)

Frame == [no : 1 .. MaxFrame, len : BodyLen]
\* The place of a cell in its record: the length, the type, the bytes
Cell(f, place) == [no |-> f.no, len |-> f.len, place |-> place]
Header(f) == <<Cell(f, 1), Cell(f, 2)>>
Body(f) == [j \in 1 .. f.len |-> Cell(f, 2 + j)]
NoFrame == [no |-> 0, len |-> 0]
NoByte == Cell(NoFrame, 0)

Byte == [no : 1 .. MaxFrame, len : BodyLen, place : 1 .. Cap]

Buf == INSTANCE StreamBuf

NoRecord == [header |-> <<>>, body |-> <<>>]
NoRec == [alive |-> FALSE, open |-> FALSE, fh |-> "null", lock |-> "free",
          ring |-> Buf!EmptyRing, pc |-> "none", cur |-> NoRecord]

RecorderInit ==
  /\ rec = [r \in Rec |-> NoRec]
  /\ taken = [r \in Rec |-> <<>>]
  /\ filed = [r \in Rec |-> <<>>]

-----------------------------------------------------------------------------
(* The interface.                                                           *)

\* mp4_save::mp4_save
Construct(r) ==
  /\ ~rec[r].alive
  /\ rec' = [rec EXCEPT ![r] = [NoRec EXCEPT !.alive = TRUE]]
  /\ taken' = [taken EXCEPT ![r] = <<>>]
  /\ filed' = [filed EXCEPT ![r] = <<>>]

\* open: the library makes the file and its track or it does not.
Open(r, ok) ==
  /\ rec[r].lock = "free" /\ ~rec[r].open
  /\ rec' = IF ok THEN [rec EXCEPT ![r].open = TRUE, ![r].fh = "open", ![r].pc = "check"]
                  ELSE rec
  /\ UNCHANGED <<taken, filed>>

\* Mutant: no room is asked for the length and the type.
FitsBody(r, f) == Buf!RemainLen(rec[r].ring) >= f.len

Fits(r, f) == Buf!RemainLen(rec[r].ring) >= 2 + f.len

Put(ring, f) == Buf!InputData(Buf!InputData(ring, Header(f)), Body(f))

\* input_data: the whole frame or nothing of it
InputData(r, f) ==
  /\ rec[r].lock = "free"
  /\ IF rec[r].open /\ Fits(r, f)
       THEN /\ rec' = [rec EXCEPT ![r].ring = Put(@, f)]
            /\ taken' = [taken EXCEPT ![r] = Append(@, f)]
       ELSE UNCHANGED <<rec, taken>>
  /\ UNCHANGED filed

\* Mutant: the thread is not told to end.
CloseFlagNot(r) ==
  /\ rec[r].open /\ rec[r].lock = "free"
  /\ rec' = [rec EXCEPT ![r].lock = "close"]
  /\ UNCHANGED <<taken, filed>>

\* close: m_bopen, which the thread reads without a mutex,
CloseFlag(r) ==
  /\ rec[r].open /\ rec[r].lock = "free"
  /\ rec' = [rec EXCEPT ![r].open = FALSE, ![r].lock = "close"]
  /\ UNCHANGED <<taken, filed>>

\* Mutant: nobody waits for the thread.
JoinedAlways(r) == TRUE

\* join,
Joined(r) == rec[r].pc = "done"

\* and the tracks and the file are finished.
CloseDestroy(r) ==
  /\ rec[r].lock = "close" /\ Joined(r)
  /\ rec' = [rec EXCEPT ![r].fh = "null", ![r].lock = "free"]
  /\ UNCHANGED <<taken, filed>>

\* ~mp4_save
Destruct(r) ==
  /\ rec' = [rec EXCEPT ![r] = NoRec]
  /\ UNCHANGED <<taken, filed>>

-----------------------------------------------------------------------------
(* The thread, on_process.                                                  *)

ThreadCheck(r) ==
  /\ rec[r].pc = "check"
  /\ rec' = [rec EXCEPT ![r].pc = IF rec[r].open THEN "take" ELSE "done"]
  /\ UNCHANGED <<taken, filed>>

\* frame_len, as copy_data reads it from the front of the ring
FrameLen(ring) == Buf!CopyData(ring, 1)[1].len

\* Mutant: two more cells than the record are awaited.
WholeAndMore(ring) == ring.len >= 2 /\ ring.len > 2 + FrameLen(ring) + 5

\* There is a whole record, and something behind it.
Whole(ring) == ring.len >= 2 /\ ring.len > 2 + FrameLen(ring)

Take(r) ==
  LET ring == rec[r].ring
      n == FrameLen(ring)
      rest == Buf!GetData(ring, 2)
  IN [rec EXCEPT ![r].cur = [header |-> Buf!CopyData(ring, 2), body |-> Buf!CopyData(rest, n)],
                 ![r].ring = Buf!GetData(rest, n),
                 ![r].pc = "write"]

\* One look into the ring, under m_buf_mu; without a record the thread sleeps.
ThreadTake(r) ==
  /\ rec[r].pc = "take"
  /\ rec' = IF Whole(rec[r].ring) THEN Take(r) ELSE [rec EXCEPT ![r].pc = "check"]
  /\ UNCHANGED <<taken, filed>>

\* What the record holds, when it is one frame and nothing but that frame
Decoded(c) ==
  LET f == [no |-> c.header[1].no, len |-> c.header[1].len]
  IN IF c.header = Header(f) /\ c.body = Body(f) THEN f ELSE NoFrame

\* process_video_frame, without a mutex
ThreadWrite(r) ==
  /\ rec[r].pc = "write"
  /\ filed' = [filed EXCEPT ![r] = Append(@, Decoded(rec[r].cur))]
  /\ rec' = [rec EXCEPT ![r].pc = "check", ![r].cur = NoRecord]
  /\ UNCHANGED taken

Thread(r) == ThreadCheck(r) \/ ThreadTake(r) \/ ThreadWrite(r)

-----------------------------------------------------------------------------
RecorderTypeOK ==
  /\ \A r \in Rec :
       /\ rec[r].alive \in BOOLEAN /\ rec[r].open \in BOOLEAN
       /\ rec[r].fh \in {"null", "open"} /\ rec[r].lock \in {"free", "close"}
       /\ rec[r].ring \in Buf!Ring
       /\ rec[r].pc \in {"none", "check", "take", "write", "done"}
  /\ DOMAIN rec = Rec
  /\ taken \in [Rec -> Seq(Frame)]
  /\ filed \in [Rec -> Seq(Frame \cup {NoFrame})]

\* The library is only called with a file that is there: close does not finish
\* the file, and the object does not go, under a thread that may be writing.
WriterHasFile ==
  \A r \in Rec : rec[r].pc \in {"check", "take", "write"} => rec[r].alive /\ rec[r].fh = "open"

\* The recorder is a log of frames.
Log == INSTANCE FrameLog WITH Content <- Frame
ImplementsFrameLog == Log!LogSpec
=============================================================================
