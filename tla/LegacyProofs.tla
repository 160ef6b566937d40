---------------------------- MODULE LegacyProofs ----------------------------
(***************************************************************************)
(* The order of starting and stopping in main.cpp is all that protects the *)
(* legacy channel: for any number of recorders, any ring and any frames,   *)
(* the recorder's thread has its file and the encoders are not taken from  *)
(* under the capture thread.                                               *)
(***************************************************************************)
EXTENDS LegacyChannel, SequenceTheorems, TLAPS

RecFields == {"alive", "open", "fh", "lock", "ring", "pc", "cur"}

Idle == {"none", "done"}

\* The objects have their fields, and the pointers are pointers.
Shape ==
  /\ DOMAIN rec = Rec
  /\ \A r \in Rec : /\ DOMAIN rec[r] = RecFields
                    /\ rec[r] = [f \in RecFields |-> rec[r][f]]
                    /\ rec[r].pc \in {"none", "check", "take", "write", "done"}
                    /\ rec[r].lock \in {"free", "close"}
  /\ chn \in [started : BOOLEAN, parts : BOOLEAN, reg : BOOLEAN, save : Rec \cup {NoSave}]

\* A recorder that is neither open nor closing has no thread.
ClosedIsIdle ==
  \A r \in Rec : rec[r].lock = "free" /\ ~rec[r].open => rec[r].pc \in Idle

\* Where main is tells about the recorder in its hands.
MainsRecorder ==
  /\ main \in {"open", "closing", "reset"} => chn.save \in Rec
  /\ main = "open" => rec[chn.save].alive
  /\ main = "reset" => rec[chn.save].pc \in Idle

RecorderInv == Shape /\ ClosedIsIdle /\ MainsRecorder /\ WriterHasFile

-----------------------------------------------------------------------------
(* The recorder.                                                            *)

LEMMA RecorderInitially == Init => RecorderInv
  <1> SUFFICES ASSUME Init PROVE RecorderInv
    OBVIOUS
  <1> USE DEF Init, RecorderInit, NoRec, RecFields
  <1>1. Shape
    BY DEF Shape
  <1>2. ClosedIsIdle /\ WriterHasFile
    BY DEF ClosedIsIdle, WriterHasFile, Idle
  <1>3. MainsRecorder
    BY DEF MainsRecorder
  <1> QED BY <1>1, <1>2, <1>3 DEF RecorderInv

LEMMA RecorderStep == RecorderInv /\ [Next]_vars => RecorderInv'
  <1> SUFFICES ASSUME RecorderInv, [Next]_vars PROVE RecorderInv'
    OBVIOUS
  <1> USE NoSaveAssumption DEF RecorderInv, Shape, ClosedIsIdle, MainsRecorder, WriterHasFile
  <1>1. ASSUME UNCHANGED <<recVars, chn>>, main' \notin {"open", "closing", "reset"} \/ main' = main
        PROVE RecorderInv'
    BY <1>1 DEF recVars
  <1>2. CASE StopChn \/ DropParts \/ Unregister
    <2>1. /\ UNCHANGED recVars /\ main' \notin {"open", "closing", "reset"}
          /\ \E b \in BOOLEAN : \/ chn' = [chn EXCEPT !.started = b]
                                \/ chn' = [chn EXCEPT !.parts = b]
                                \/ chn' = [chn EXCEPT !.reg = b]
      BY <1>2 DEF StopChn, DropParts, Unregister
    <2> QED BY <2>1 DEF recVars
  <1>3. ASSUME NEW ok \in BOOLEAN, ChnStart(ok) PROVE RecorderInv'
    BY <1>3 DEF ChnStart, recVars
  <1>4. CASE Quit
    BY <1>4 DEF Quit, recVars
  <1>5. ASSUME NEW r \in Rec, NewSave(r) PROVE RecorderInv'
    BY <1>5 DEF NewSave, Construct, NoRec, RecFields, Idle
  <1>6. ASSUME NEW ok \in BOOLEAN, OpenSave(ok) PROVE RecorderInv'
    BY <1>6 DEF OpenSave, Open, RecFields, Idle
  <1>7. CASE StopSave
    BY <1>7 DEF StopSave, CloseFlag, RecFields, Idle, recVars
  <1>8. CASE CloseSave
    BY <1>8 DEF CloseSave, CloseDestroy, Joined, RecFields, Idle
  <1>9. CASE ResetSave
    BY <1>9 DEF ResetSave, Destruct, NoRec, RecFields, Idle
  <1>10. CASE Capture /\ ~InputLiving
    BY <1>1, <1>10 DEF Capture, Select, WalkEnds, NoStream, MainFrame, Dereference, InputGone
  <1>11. CASE InputLiving
    <2>1. /\ UNCHANGED <<main, chn>>
          /\ \E ring : rec' = [rec EXCEPT ![cap.obj].ring = ring] \/ rec' = rec
      BY <1>11 DEF InputLiving, InputData
    <2> QED BY <2>1 DEF RecFields, Idle
  <1>12. CASE Second \/ LookUp \/ UseEncoder
    BY <1>1, <1>12 DEF Second, SecondCheck, SecondSnap, LookUp, UseEncoder
  <1>13. ASSUME NEW r \in Rec, Thread(r), UNCHANGED appVars PROVE RecorderInv'
    <2> USE <1>13 DEF appVars, RecFields, Idle
    <2>1. CASE ThreadCheck(r)
      BY <2>1 DEF ThreadCheck
    <2>2. CASE ThreadTake(r)
      <3>1. /\ DOMAIN rec' = Rec /\ \A q \in Rec \ {r} : rec'[q] = rec[q]
            /\ DOMAIN rec'[r] = RecFields /\ rec'[r] = [f \in RecFields |-> rec'[r][f]]
        BY <2>2 DEF ThreadTake, Take
      <3>2. /\ \A f \in {"alive", "open", "fh", "lock"} : rec'[r][f] = rec[r][f]
            /\ rec'[r].pc \in {"check", "write"} /\ rec[r].pc = "take"
        BY <2>2 DEF ThreadTake, Take
      <3> QED BY <3>1, <3>2
    <2>3. CASE ThreadWrite(r)
      <3>1. /\ DOMAIN rec' = Rec /\ \A q \in Rec \ {r} : rec'[q] = rec[q]
            /\ DOMAIN rec'[r] = RecFields /\ rec'[r] = [f \in RecFields |-> rec'[r][f]]
        BY <2>3 DEF ThreadWrite
      <3>2. /\ \A f \in {"alive", "open", "fh", "lock"} : rec'[r][f] = rec[r][f]
            /\ rec'[r].pc = "check" /\ rec[r].pc = "write"
        BY <2>3 DEF ThreadWrite
      <3> QED BY <3>1, <3>2
    <2> QED BY <2>1, <2>2, <2>3, <1>13 DEF Thread
  <1>14. CASE UNCHANGED vars
    BY <1>14 DEF vars
  <1>15. CASE StartCapture \/ NoStartSave \/ StartSecond
    BY <1>1, <1>15 DEF StartCapture, NoStartSave, StartSecond
  <1>16. CASE JoinSecond \/ NothingSaved \/ StopCapture \/ JoinCapture \/ StopVencs
    BY <1>1, <1>16 DEF JoinSecond, NothingSaved, StopCapture, JoinCapture, StopVencs
  <1> QED
    BY <1>2, <1>3, <1>4, <1>5, <1>6, <1>7, <1>8, <1>9, <1>10, <1>11, <1>12, <1>13, <1>14, <1>15, <1>16
       DEF Next, StartUp, DoExit, Capture, Writer

\* The recorder's thread never calls the library without a file, nor runs on
\* in a destructed recorder: close joins it first, and stop_save closes before
\* it lets the recorder go.
THEOREM WritersHaveFiles == Spec => []WriterHasFile
  <1>1. Init => RecorderInv
    BY RecorderInitially
  <1>2. RecorderInv /\ [Next]_vars => RecorderInv'
    BY RecorderStep
  <1>3. RecorderInv => WriterHasFile
    BY DEF RecorderInv
  <1> QED BY <1>1, <1>2, <1>3, PTL DEF Spec

-----------------------------------------------------------------------------
(* The order in which main stops the threads.                               *)

AfterSecond == {"stop_save", "closing", "reset", "stop_capture", "join_capture",
                "stop", "erase", "parts", "unregister"}
AfterCapture == {"stop", "erase", "parts", "unregister"}

ThreadShape ==
  /\ chn \in [started : BOOLEAN, parts : BOOLEAN, reg : BOOLEAN, save : Rec \cup {NoSave}]
  /\ DOMAIN cap = {"pc", "run", "todo", "frame", "obj"}
  /\ DOMAIN sec = {"pc", "run"}

\* The joins of do_exit
Joins ==
  /\ main \in AfterSecond => sec.pc = "ended"
  /\ main \in AfterCapture => cap.pc = "ended"
  /\ main \in {"erase", "parts", "unregister"} => ~chn.started

\* A started channel has its encoders, in both places.
Complete ==
  /\ vencs \in {{}, Stream}
  /\ vencs = Stream => chn.parts
  /\ chn.started => chn.parts
  /\ main = "parts" => vencs = {}

StopInv == ThreadShape /\ Joins /\ Complete /\ NobodyDismantled

LEMMA StopInitially == Init => StopInv
  BY DEF Init, StopInv, ThreadShape, Joins, Complete, NobodyDismantled, CapturesAreThere,
         SnapsAreThere, AfterSecond, AfterCapture, Stream

LEMMA StopStep == StopInv /\ [Next]_vars => StopInv'
  <1> SUFFICES ASSUME StopInv, [Next]_vars PROVE StopInv'
    OBVIOUS
  <1> USE DEF StopInv, ThreadShape, Joins, Complete, NobodyDismantled, CapturesAreThere,
              SnapsAreThere, AfterSecond, AfterCapture, Stream
  <1>1. ASSUME NEW ok \in BOOLEAN, ChnStart(ok) PROVE StopInv'
    BY <1>1 DEF ChnStart
  <1>2. CASE StartCapture
    BY <1>2 DEF StartCapture
  <1>3. ASSUME NEW r \in Rec, NewSave(r) PROVE StopInv'
    BY <1>3 DEF NewSave
  <1>4. CASE NoStartSave \/ StartSecond
    BY <1>4 DEF NoStartSave, StartSecond
  <1>5. ASSUME NEW ok \in BOOLEAN, OpenSave(ok) PROVE StopInv'
    BY <1>5 DEF OpenSave
  <1>6. CASE Quit
    BY <1>6 DEF Quit, StartingUp
  <1>7. CASE JoinSecond \/ NothingSaved \/ StopSave \/ CloseSave
    BY <1>7 DEF JoinSecond, NothingSaved, StopSave, CloseSave
  <1>8. CASE ResetSave
    BY <1>8 DEF ResetSave
  <1>9. CASE StopCapture \/ JoinCapture
    BY <1>9 DEF StopCapture, JoinCapture
  <1>10. CASE StopChn \/ StopVencs
    BY <1>10 DEF StopChn, StopVencs
  <1>11. CASE DropParts \/ Unregister
    BY <1>11 DEF DropParts, Unregister
  <1>12. CASE Select
    BY <1>12 DEF Select
  <1>13. CASE WalkEnds \/ NoStream \/ MainFrame
    BY <1>13 DEF WalkEnds, NoStream, MainFrame, WalkOn
  <1>14. CASE Dereference \/ InputLiving \/ InputGone
    BY <1>14 DEF Dereference, InputLiving, InputGone, WalkOn
  <1>15. CASE Second \/ LookUp \/ UseEncoder
    BY <1>15 DEF Second, SecondCheck, SecondSnap, LookUp, UseEncoder
  <1>16. CASE UNCHANGED <<main, chn, vencs, cap, sec>>
    BY <1>16
  <1>17. CASE Writer
    BY <1>16, <1>17 DEF Writer, appVars
  <1>18. CASE UNCHANGED vars
    BY <1>16, <1>18 DEF vars
  <1> QED
    BY <1>1, <1>2, <1>3, <1>4, <1>5, <1>6, <1>7, <1>8, <1>9, <1>10, <1>11, <1>12, <1>13, <1>14,
       <1>15, <1>17, <1>18 DEF Next, StartUp, DoExit, Capture

\* do_exit takes the channel apart only when the capture thread and thread_1s
\* have been joined: neither walks a list that changes nor uses an input that
\* was stopped.
THEOREM DismantledAlone == Spec => []NobodyDismantled
  <1>1. Init => StopInv
    BY StopInitially
  <1>2. StopInv /\ [Next]_vars => StopInv'
    BY StopStep
  <1>3. StopInv => NobodyDismantled
    BY DEF StopInv
  <1> QED BY <1>1, <1>2, <1>3, PTL DEF Spec
-----------------------------------------------------------------------------
(* What is between the recorder's two ends.                                 *)

BufP == INSTANCE StreamBufProofs

\* Behind the first m frames of t the cells c hold the others, one record
\* after the other and nothing else; off[j] is where the j-th one ends.
Queued(c, t, m) ==
  /\ m \in 0 .. Len(t)
  /\ \E off \in [m .. Len(t) -> 0 .. Len(c)] :
       /\ off[m] = 0 /\ off[Len(t)] = Len(c)
       /\ \A i, j \in m .. Len(t) : i <= j => off[i] <= off[j]
       /\ \A j \in m + 1 .. Len(t) :
            /\ off[j] = off[j - 1] + 2 + t[j].len
            /\ \A p \in 1 .. 2 + t[j].len : c[off[j - 1] + p] = Cell(t[j], p)

\* The frames that left the ring: those in the file, and the one in the
\* thread's hand
Out(o, l) == IF o.pc = "write" THEN Len(l) + 1 ELSE Len(l)

\* An object o that accepted t and filed l: what it took is in the file, in
\* the thread's hand or in the ring.
Kept(o, t, l) ==
  /\ o.ring \in Buf!Ring
  /\ t \in Seq(Frame) /\ l \in Seq(Frame)
  /\ o.alive => Queued(Buf!Contents(o.ring), t, Out(o, l))
  /\ o.pc = "write" => LET f == t[Len(l) + 1] IN o.cur = [header |-> Header(f), body |-> Body(f)]

NothingLost == \A r \in Rec : Kept(rec[r], taken[r], filed[r])

\* A frame on its way to a recorder is one, and so is the recorder.
Delivering ==
  /\ cap.pc \in {"found", "input"} => cap.frame \in Frame
  /\ cap.pc = "input" => cap.obj \in Rec

-----------------------------------------------------------------------------
(* The queue of records.                                                    *)

LEMMA FrameFacts ==
  ASSUME NEW f \in Frame
  PROVE  /\ f.len \in Nat /\ f.len >= 1
         /\ f.no \in 1 .. MaxFrame /\ f.len \in BodyLen
         /\ f = [no |-> f.no, len |-> f.len]
PROOF
<1>1. f.no \in 1 .. MaxFrame /\ f.len \in BodyLen /\ f = [no |-> f.no, len |-> f.len]
  BY DEF Frame
<1>2. BodyLen \subseteq Nat \ {0}
  BY RecorderAssumption
<1>3. f.len \in Nat \ {0}
  BY <1>1, <1>2
<1> QED BY <1>1, <1>3

LEMMA AddedWithin ==
  \A top, len \in Nat : \A a, b \in 0 .. top : \A p \in 1 .. 2 + len :
    b = a + 2 + len => a + p \in 1 .. top
  OBVIOUS

LEMMA ShiftBack ==
  \A k, top \in Nat : \A a \in k .. top : \A p \in Nat : k + ((a - k) + p) = a + p
  OBVIOUS

LEMMA NothingQueued ==
  ASSUME NEW c, Len(c) = 0
  PROVE  Queued(c, <<>>, 0)
PROOF
<1> DEFINE off == [j \in 0 .. 0 |-> 0]
<1>1. Len(<<>>) = 0
  OBVIOUS
<1>2. off \in [0 .. Len(<<>>) -> 0 .. Len(c)] /\ off[0] = 0
  BY <1>1
<1>3. /\ off[0] = 0 /\ off[Len(<<>>)] = Len(c)
      /\ \A i, j \in 0 .. Len(<<>>) : i <= j => off[i] <= off[j]
      /\ 0 + 1 .. Len(<<>>) = {}
  BY <1>1, <1>2
<1> HIDE DEF off
<1> QED BY <1>1, <1>2, <1>3 DEF Queued

\* The cells e are those of c and behind them the record of f.
Extends(e, c, f) ==
  /\ Len(e) = Len(c) + 2 + f.len
  /\ \A i \in 1 .. Len(c) : e[i] = c[i]
  /\ \A p \in 1 .. 2 + f.len : e[Len(c) + p] = Cell(f, p)

\* A frame is put behind the others.
LEMMA QueuedMore ==
  ASSUME NEW c, Len(c) \in Nat, NEW t \in Seq(Frame), NEW m, Queued(c, t, m),
         NEW f \in Frame, NEW e, Extends(e, c, f)
  PROVE  Queued(e, Append(t, f), m)
PROOF
<1> DEFINE u == Append(t, f)
           n == Len(t)
<1>1. f.len \in Nat /\ \A j \in 1 .. n : t[j].len \in Nat
  BY FrameFacts
<1>2. /\ Len(u) = n + 1 /\ n \in Nat
      /\ u[n + 1] = f /\ \A j \in 1 .. n : u[j] = t[j]
  OBVIOUS
<1>3. Len(c) \in Nat /\ Len(e) = Len(c) + 2 + f.len
  BY DEF Extends
<1>4. m \in 0 .. n
  BY DEF Queued
<1>5. PICK off \in [m .. n -> 0 .. Len(c)] :
        /\ off[m] = 0 /\ off[n] = Len(c)
        /\ \A i, j \in m .. n : i <= j => off[i] <= off[j]
        /\ \A j \in m + 1 .. n :
             /\ off[j] = off[j - 1] + 2 + t[j].len
             /\ \A p \in 1 .. 2 + t[j].len : c[off[j - 1] + p] = Cell(t[j], p)
  BY DEF Queued
<1> DEFINE on == [j \in m .. n + 1 |-> IF j = n + 1 THEN Len(e) ELSE off[j]]
<1> HIDE DEF u, n
<1>6. /\ \A j \in m .. n : on[j] = off[j] /\ off[j] \in 0 .. Len(c)
      /\ on[n + 1] = Len(e)
  BY <1>2, <1>4, <1>5
<1>7. on \in [m .. n + 1 -> 0 .. Len(e)]
  BY <1>1, <1>2, <1>3, <1>4, <1>5
<1> HIDE DEF on
<1>8. on[m] = 0
  BY <1>2, <1>4, <1>5, <1>6
<1>9. ASSUME NEW i \in m .. n + 1, NEW j \in m .. n + 1, i <= j
      PROVE  on[i] <= on[j]
  <2>1. CASE j = n + 1
    BY <1>3, <1>6, <1>7, <2>1
  <2>2. CASE j # n + 1
    <3>1. i \in m .. n /\ j \in m .. n
      BY <1>2, <1>4, <1>9, <2>2
    <3>2. off[i] <= off[j]
      BY <1>5, <1>9, <3>1
    <3> QED BY <1>6, <3>1, <3>2
  <2> QED BY <2>1, <2>2
<1>10. ASSUME NEW j \in m + 1 .. n + 1
       PROVE  /\ on[j] = on[j - 1] + 2 + u[j].len
              /\ \A p \in 1 .. 2 + u[j].len : e[on[j - 1] + p] = Cell(u[j], p)
  <2>1. CASE j = n + 1
    <3>1. on[j] = Len(e) /\ on[j - 1] = Len(c) /\ u[j] = f
      BY <1>2, <1>4, <1>5, <1>6, <2>1
    <3> QED BY <1>3, <3>1 DEF Extends
  <2>2. CASE j # n + 1
    <3>1. j \in m + 1 .. n /\ j - 1 \in m .. n /\ j \in m .. n /\ j \in 1 .. n
      BY <1>2, <1>4, <2>2
    <3>2. on[j] = off[j] /\ on[j - 1] = off[j - 1] /\ u[j] = t[j] /\ t[j].len \in Nat
      BY <1>1, <1>2, <1>6, <3>1
    <3>3. off[j] = off[j - 1] + 2 + t[j].len /\ off[j] \in 0 .. Len(c) /\ off[j - 1] \in 0 .. Len(c)
      BY <1>5, <1>6, <3>1
    <3>4. ASSUME NEW p \in 1 .. 2 + t[j].len
          PROVE  e[off[j - 1] + p] = Cell(t[j], p)
      <4>1. off[j - 1] + p \in 1 .. Len(c)
        BY <1>3, <3>2, <3>3, AddedWithin
      <4>2. c[off[j - 1] + p] = Cell(t[j], p)
        BY <1>5, <3>1
      <4> QED BY <4>1, <4>2 DEF Extends
    <3> QED BY <3>2, <3>3, <3>4
  <2> QED BY <2>1, <2>2
<1>11. m \in 0 .. Len(u) /\ on[Len(u)] = Len(e)
  BY <1>2, <1>4, <1>6
<1>12. Len(u) = n + 1
  BY <1>2
<1>13. /\ on \in [m .. Len(u) -> 0 .. Len(e)]
       /\ on[m] = 0 /\ on[Len(u)] = Len(e)
       /\ \A i, j \in m .. Len(u) : i <= j => on[i] <= on[j]
       /\ \A j \in m + 1 .. Len(u) :
            /\ on[j] = on[j - 1] + 2 + u[j].len
            /\ \A p \in 1 .. 2 + u[j].len : e[on[j - 1] + p] = Cell(u[j], p)
  BY <1>7, <1>8, <1>9, <1>10, <1>11, <1>12, Zenon
<1>14. Queued(e, u, m)
  BY <1>11, <1>13, Zenon DEF Queued
<1> QED BY <1>14 DEF u

\* The cells e are those of c without the first k.
Behind(e, c, k) ==
  /\ Len(e) = Len(c) - k
  /\ \A i \in 1 .. Len(e) : e[i] = c[k + i]

\* In front is the record of the first frame that has not left; without it
\* the others are queued.
LEMMA QueuedLess ==
  ASSUME NEW c, Len(c) \in Nat \ {0}, NEW t \in Seq(Frame), NEW m, Queued(c, t, m)
  PROVE  /\ m \in Nat /\ m < Len(t)
         /\ t[m + 1] \in Frame
         /\ 2 + t[m + 1].len <= Len(c)
         /\ \A p \in 1 .. 2 + t[m + 1].len : c[p] = Cell(t[m + 1], p)
         /\ \A e : Len(e) \in Nat /\ Behind(e, c, 2 + t[m + 1].len) => Queued(e, t, m + 1)
PROOF
<1> DEFINE n == Len(t)
           f == t[m + 1]
<1>1. n \in Nat /\ m \in 0 .. n /\ \A j \in 1 .. n : t[j].len \in Nat
  BY FrameFacts DEF Queued
<1>2. PICK off \in [m .. n -> 0 .. Len(c)] :
        /\ off[m] = 0 /\ off[n] = Len(c)
        /\ \A i, j \in m .. n : i <= j => off[i] <= off[j]
        /\ \A j \in m + 1 .. n :
             /\ off[j] = off[j - 1] + 2 + t[j].len
             /\ \A p \in 1 .. 2 + t[j].len : c[off[j - 1] + p] = Cell(t[j], p)
  BY DEF Queued
<1>3. m \in Nat /\ m < n /\ m + 1 \in m + 1 .. n
  BY <1>1, <1>2
<1>4. f \in Frame /\ f.len \in Nat
  BY <1>1, <1>3
<1> DEFINE k == 2 + f.len
<1>5. off[m + 1] = k
  <2>1. off[m + 1] = off[m + 1 - 1] + 2 + t[m + 1].len
    BY <1>2, <1>3
  <2>2. m + 1 - 1 = m
    BY <1>3
  <2> QED BY <1>2, <1>4, <2>1, <2>2
<1>6. k <= Len(c) /\ k \in Nat
  BY <1>1, <1>2, <1>3, <1>4, <1>5
<1>7. \A p \in 1 .. k : c[p] = Cell(f, p)
  <2>1. \A p \in 1 .. 2 + t[m + 1].len : c[off[m + 1 - 1] + p] = Cell(t[m + 1], p)
    BY <1>2, <1>3
  <2>2. m + 1 - 1 = m
    BY <1>3
  <2> QED BY <1>2, <1>4, <2>1, <2>2
<1>8. ASSUME NEW e, Len(e) \in Nat, Behind(e, c, k)
      PROVE  Queued(e, t, m + 1)
  <2> DEFINE on == [j \in m + 1 .. n |-> off[j] - k]
  <2>1. Len(e) = Len(c) - k /\ \A i \in 1 .. Len(e) : e[i] = c[k + i]
    BY <1>8 DEF Behind
  <2> HIDE DEF k, n, f
  <2>2. \A j \in m + 1 .. n : off[j] \in k .. Len(c)
    <3>1. \A j \in m + 1 .. n : j \in m .. n /\ m + 1 \in m .. n /\ m + 1 <= j
      BY <1>1, <1>3
    <3> QED BY <1>2, <1>5, <1>6, <3>1
  <2>3. on \in [m + 1 .. n -> 0 .. Len(e)]
    BY <1>6, <2>1, <2>2
  <2>4. \A j \in m + 1 .. n : on[j] = off[j] - k
    OBVIOUS
  <2> HIDE DEF on
  <2>5. on[m + 1] = 0 /\ on[n] = Len(e)
    BY <1>1, <1>2, <1>3, <1>5, <1>6, <2>1, <2>4
  <2>6. ASSUME NEW i \in m + 1 .. n, NEW j \in m + 1 .. n, i <= j
        PROVE  on[i] <= on[j]
    <3>1. i \in m .. n /\ j \in m .. n
      BY <1>1, <1>3
    <3>2. off[i] <= off[j]
      BY <1>2, <2>6, <3>1
    <3> QED BY <1>6, <2>2, <2>4, <3>2
  <2>7. ASSUME NEW j \in (m + 1) + 1 .. n
        PROVE  /\ on[j] = on[j - 1] + 2 + t[j].len
               /\ \A p \in 1 .. 2 + t[j].len : e[on[j - 1] + p] = Cell(t[j], p)
    <3>1. j \in m + 1 .. n /\ j - 1 \in m + 1 .. n /\ j \in 1 .. n
      BY <1>1, <1>3
    <3>2. off[j] = off[j - 1] + 2 + t[j].len /\ t[j].len \in Nat
      BY <1>1, <1>2, <3>1
    <3>3. on[j] = off[j] - k /\ on[j - 1] = off[j - 1] - k
      BY <2>4, <3>1
    <3>4. off[j - 1] \in k .. Len(c) /\ off[j] \in k .. Len(c)
      BY <2>2, <3>1
    <3>5. ASSUME NEW p \in 1 .. 2 + t[j].len
          PROVE  e[on[j - 1] + p] = Cell(t[j], p)
      <4>1. c[off[j - 1] + p] = Cell(t[j], p)
        BY <1>2, <3>1
      <4>2. k + (on[j - 1] + p) = off[j - 1] + p
        BY <1>6, <3>3, <3>4, ShiftBack
      <4>3. on[j - 1] \in 0 .. Len(e) /\ on[j] \in 0 .. Len(e)
        BY <1>6, <2>1, <3>3, <3>4
      <4>4. on[j] = on[j - 1] + 2 + t[j].len
        <5>1. off[j] - k = (off[j - 1] - k) + 2 + t[j].len
          <6>1. \A a, len, q \in Nat : (a + 2 + len) - q = (a - q) + 2 + len
            OBVIOUS
          <6>2. off[j - 1] \in Nat /\ k \in Nat
            BY <1>6, <3>4
          <6>3. t[j].len \in Nat
            BY <3>2
          <6>4. (off[j - 1] + 2 + t[j].len) - k = (off[j - 1] - k) + 2 + t[j].len
            BY <6>1, <6>2, <6>3, Zenon
          <6>5. off[j] = off[j - 1] + 2 + t[j].len
            BY <3>2
          <6> QED BY <6>4, <6>5, Zenon
        <5> QED BY <3>3, <5>1
      <4>5. on[j - 1] + p \in 1 .. Len(e)
        BY <1>8, <3>2, <4>3, <4>4, AddedWithin
      <4> QED BY <2>1, <4>1, <4>2, <4>5
    <3> QED BY <1>6, <3>2, <3>3, <3>4, <3>5
  <2>8. m + 1 \in 0 .. Len(t)
    BY <1>1, <1>3 DEF n
  <2> QED BY <2>3, <2>5, <2>6, <2>7, <2>8 DEF Queued, n
<1> QED BY <1>3, <1>4, <1>6, <1>7, <1>8
-----------------------------------------------------------------------------
(* Records in the ring, from the theorems about StreamBuf.                  *)

\* InputAppends, for the ring of a recorder
LEMMA RingInput ==
  ASSUME NEW r \in Buf!Ring, NEW s \in Seq(Byte), Len(s) <= Buf!RemainLen(r)
  PROVE  /\ Buf!InputData(r, s) \in Buf!Ring
         /\ Buf!Contents(Buf!InputData(r, s)) = Buf!Contents(r) \o s
PROOF
<1> USE DEF Buf!Index, BufP!Index
<1>1. r \in BufP!Ring /\ Len(s) <= BufP!RemainLen(r)
  BY DEF Buf!Ring, BufP!Ring, Buf!RemainLen, BufP!RemainLen
<1>2. /\ BufP!InputData(r, s) \in BufP!Ring
      /\ BufP!Contents(BufP!InputData(r, s)) = BufP!Contents(r) \o s
  BY <1>1, BufP!InputAppends, RecorderAssumption
<1>3. Buf!InputData(r, s) = BufP!InputData(r, s)
  BY DEF Buf!InputData, BufP!InputData, Buf!PartOf, BufP!PartOf, Buf!DataEnd, BufP!DataEnd,
         Buf!RemainLen, BufP!RemainLen
<1>4. \A q : Buf!Contents(q) = BufP!Contents(q)
  BY DEF Buf!Contents, BufP!Contents, Buf!CopyData, BufP!CopyData, Buf!ReadAt, BufP!ReadAt
<1> QED BY <1>2, <1>3, <1>4 DEF Buf!Ring, BufP!Ring

\* GetRemovesFront, for the ring of a recorder
LEMMA RingGet ==
  ASSUME NEW r \in Buf!Ring, NEW n \in 0 .. r.len
  PROVE  /\ Buf!GetData(r, n) \in Buf!Ring
         /\ Buf!GetData(r, n).len = r.len - n
         /\ Buf!Contents(Buf!GetData(r, n)) = [i \in 1 .. r.len - n |-> Buf!Contents(r)[n + i]]
PROOF
<1> USE DEF Buf!Index, BufP!Index
<1>1. r \in BufP!Ring /\ n \in Nat
  BY DEF Buf!Ring, BufP!Ring
<1>2. /\ BufP!GetData(r, n) \in BufP!Ring
      /\ BufP!Contents(BufP!GetData(r, n)) = [i \in 1 .. r.len - n |-> BufP!Contents(r)[n + i]]
  BY <1>1, BufP!GetRemovesFront, BufP!GetDataType, RecorderAssumption
<1>3. Buf!GetData(r, n) = BufP!GetData(r, n)
  BY DEF Buf!GetData, BufP!GetData
<1>4. \A q : Buf!Contents(q) = BufP!Contents(q)
  BY DEF Buf!Contents, BufP!Contents, Buf!CopyData, BufP!CopyData, Buf!ReadAt, BufP!ReadAt
<1>5. Buf!GetData(r, n).len = r.len - n
  BY <1>1 DEF Buf!GetData, Buf!Ring
<1> QED BY <1>2, <1>3, <1>4, <1>5 DEF Buf!Ring, BufP!Ring

\* What copy_data shows is the front.
LEMMA RingCopy ==
  ASSUME NEW r \in Buf!Ring
  PROVE  /\ Len(Buf!Contents(r)) = r.len
         /\ r.len \in Nat /\ r.len <= Cap
         /\ \A n \in 0 .. r.len :
              Buf!CopyData(r, n) = [i \in 1 .. n |-> Buf!Contents(r)[i]]
PROOF
<1>1. r.len \in 0 .. Cap
  BY DEF Buf!Ring
<1>2. r.len \in Nat /\ r.len <= Cap
  BY <1>1, RecorderAssumption
<1>3. Buf!Contents(r) = [i \in 1 .. r.len |-> Buf!ReadAt(r, i)]
  BY DEF Buf!Contents, Buf!CopyData
<1>4. Len(Buf!Contents(r)) = r.len
  BY <1>2, <1>3
<1>5. ASSUME NEW n \in 0 .. r.len
      PROVE  Buf!CopyData(r, n) = [i \in 1 .. n |-> Buf!Contents(r)[i]]
  <2>1. \A i \in 1 .. n : i \in 1 .. r.len
    BY <1>2
  <2> QED BY <1>3, <2>1 DEF Buf!CopyData
<1> QED BY <1>2, <1>4, <1>5

LEMMA ThreeParts ==
  ASSUME NEW S, NEW c \in Seq(S), NEW h \in Seq(S), NEW b \in Seq(S)
  PROVE  /\ Len(c \o h) = Len(c) + Len(h)
         /\ Len((c \o h) \o b) = Len(c) + Len(h) + Len(b)
         /\ \A i \in 1 .. Len(c) : ((c \o h) \o b)[i] = c[i]
         /\ \A i \in 1 .. Len(h) : ((c \o h) \o b)[Len(c) + i] = h[i]
         /\ \A i \in 1 .. Len(b) : ((c \o h) \o b)[Len(c) + Len(h) + i] = b[i]
PROOF
<1>1. Len(c) \in Nat /\ Len(h) \in Nat /\ Len(b) \in Nat
  OBVIOUS
<1>2. PICK q \in Seq(S) : q = c \o h
  BY ConcatProperties
<1>3. /\ Len(q) = Len(c) + Len(h)
      /\ \A i \in 1 .. Len(c) + Len(h) : q[i] = IF i <= Len(c) THEN c[i] ELSE h[i - Len(c)]
  BY <1>2, ConcatProperties
<1>4. PICK e \in Seq(S) : e = q \o b
  BY ConcatProperties
<1>5. /\ Len(e) = Len(q) + Len(b)
      /\ \A i \in 1 .. Len(q) + Len(b) : e[i] = IF i <= Len(q) THEN q[i] ELSE b[i - Len(q)]
  BY <1>4, ConcatProperties
<1>6. ASSUME NEW i \in 1 .. Len(c)
      PROVE  e[i] = c[i]
  BY <1>1, <1>3, <1>5
<1>7. ASSUME NEW i \in 1 .. Len(h)
      PROVE  e[Len(c) + i] = h[i]
  <2>1. Len(c) + i \in 1 .. Len(c) + Len(h) /\ ~(Len(c) + i <= Len(c)) /\ (Len(c) + i) - Len(c) = i
    BY <1>1
  <2>2. q[Len(c) + i] = h[i]
    BY <1>3, <2>1
  <2>3. Len(c) + i \in 1 .. Len(q) + Len(b) /\ Len(c) + i <= Len(q)
    BY <1>1, <1>3
  <2> QED BY <1>5, <2>2, <2>3
<1>8. ASSUME NEW i \in 1 .. Len(b)
      PROVE  e[Len(c) + Len(h) + i] = b[i]
  <2>1. /\ Len(q) + i \in 1 .. Len(q) + Len(b) /\ ~(Len(q) + i <= Len(q))
        /\ (Len(q) + i) - Len(q) = i
    BY <1>1, <1>3
  <2>2. e[Len(q) + i] = b[i]
    BY <1>5, <2>1
  <2> QED BY <1>3, <2>2
<1> QED BY <1>2, <1>3, <1>4, <1>5, <1>6, <1>7, <1>8

\* A frame is put in as a record behind what is there.
LEMMA PutRecord ==
  ASSUME NEW r \in Buf!Ring, NEW f \in Frame, Buf!RemainLen(r) >= 2 + f.len
  PROVE  Put(r, f) \in Buf!Ring /\ Extends(Buf!Contents(Put(r, f)), Buf!Contents(r), f)
PROOF
<1> DEFINE q == Buf!InputData(r, Header(f))
           c == Buf!Contents(r)
<1>1. f.len \in Nat /\ f.len >= 1 /\ f.no \in 1 .. MaxFrame /\ f.len \in BodyLen
  BY FrameFacts
<1>2. r.len \in Nat /\ Cap \in Nat /\ 2 + f.len <= Cap - r.len /\ Len(c) = r.len
  BY RingCopy, RecorderAssumption DEF Buf!RemainLen
<1>3. \A p \in 1 .. 2 + f.len : Cell(f, p) \in Byte
  BY <1>1, <1>2 DEF Cell, Byte
<1>4. Header(f) \in Seq(Byte) /\ Len(Header(f)) = 2 /\ \A p \in 1 .. 2 : Header(f)[p] = Cell(f, p)
  <2>1. Cell(f, 1) \in Byte /\ Cell(f, 2) \in Byte
    BY <1>1, <1>3
  <2> QED BY <2>1 DEF Header
<1>5. Body(f) \in Seq(Byte) /\ Len(Body(f)) = f.len /\ \A j \in 1 .. f.len : Body(f)[j] = Cell(f, 2 + j)
  <2>1. \A j \in 1 .. f.len : 2 + j \in 1 .. 2 + f.len
    BY <1>1
  <2>2. Body(f) \in [1 .. f.len -> Byte]
    BY <1>3, <2>1 DEF Body
  <2>3. DOMAIN Body(f) = 1 .. f.len /\ \A j \in 1 .. f.len : Body(f)[j] = Cell(f, 2 + j)
    BY DEF Body
  <2> QED BY <1>1, <2>2, <2>3
<1>6. q \in Buf!Ring /\ Buf!Contents(q) = c \o Header(f)
  <2>1. Len(Header(f)) <= Buf!RemainLen(r)
    BY <1>1, <1>2, <1>4 DEF Buf!RemainLen
  <2> QED BY <1>4, <2>1, RingInput
<1>7. c \in Seq(Byte \cup {NoByte})
  <2>1. c = [i \in 1 .. r.len |-> Buf!ReadAt(r, i)]
    BY DEF Buf!Contents, Buf!CopyData
  <2>2. ASSUME NEW i \in 1 .. r.len
        PROVE  Buf!ReadAt(r, i) \in Byte \cup {NoByte}
    <3>1. /\ r.buf \in [0 .. Cap - 1 -> Byte \cup {NoByte}]
          /\ r.beg \in 0 .. Cap /\ r.len \in 0 .. Cap /\ Cap \in Nat /\ Cap > 0
      BY RecorderAssumption DEF Buf!Ring, Buf!Index
    <3>2. CASE i <= Cap - r.beg
      <4>1. r.beg + i - 1 \in 0 .. Cap - 1 /\ Buf!ReadAt(r, i) = r.buf[r.beg + i - 1]
        BY <3>1, <3>2 DEF Buf!ReadAt
      <4> QED BY <3>1, <4>1
    <3>3. CASE ~(i <= Cap - r.beg)
      <4>1. /\ i - (Cap - r.beg) - 1 \in 0 .. Cap - 1
            /\ Buf!ReadAt(r, i) = r.buf[i - (Cap - r.beg) - 1]
        BY <3>1, <3>3 DEF Buf!ReadAt
      <4> QED BY <3>1, <4>1
    <3> QED BY <3>2, <3>3
  <2> QED BY <1>2, <2>1, <2>2
<1> DEFINE e == (c \o Header(f)) \o Body(f)
<1>8. /\ Len(c \o Header(f)) = Len(c) + 2
      /\ Len(e) = Len(c) + 2 + f.len
      /\ \A i \in 1 .. Len(c) : e[i] = c[i]
      /\ \A i \in 1 .. 2 : e[Len(c) + i] = Cell(f, i)
      /\ \A j \in 1 .. f.len : e[Len(c) + 2 + j] = Cell(f, 2 + j)
  <2>1. Header(f) \in Seq(Byte \cup {NoByte}) /\ Body(f) \in Seq(Byte \cup {NoByte})
    BY <1>4, <1>5
  <2>2. /\ Len(c \o Header(f)) = Len(c) + Len(Header(f))
        /\ Len(e) = Len(c) + Len(Header(f)) + Len(Body(f))
        /\ \A i \in 1 .. Len(c) : e[i] = c[i]
        /\ \A i \in 1 .. Len(Header(f)) : e[Len(c) + i] = Header(f)[i]
        /\ \A j \in 1 .. Len(Body(f)) : e[Len(c) + Len(Header(f)) + j] = Body(f)[j]
    BY <1>7, <2>1, ThreeParts
  <2> QED BY <1>4, <1>5, <2>2
<1>9. Put(r, f) \in Buf!Ring /\ Buf!Contents(Put(r, f)) = e
  <2>1. Len(Buf!Contents(q)) = q.len
    BY <1>6, RingCopy
  <2>2. Len(Body(f)) <= Buf!RemainLen(q)
    BY <1>1, <1>2, <1>5, <1>6, <1>8, <2>1 DEF Buf!RemainLen
  <2> QED BY <1>5, <1>6, <2>2, RingInput DEF Put
<1> HIDE DEF e
<1>10. Extends(e, c, f)
  <2>1. ASSUME NEW p \in 1 .. 2 + f.len
        PROVE  e[Len(c) + p] = Cell(f, p)
    <3>1. CASE p \in 1 .. 2
      BY <1>8, <3>1
    <3>2. CASE p \notin 1 .. 2
      <4>1. p - 2 \in 1 .. f.len /\ p = 2 + (p - 2)
        BY <1>1, <3>2
      <4>2. PICK j \in 1 .. f.len : p = 2 + j
        BY <4>1
      <4>3. Len(c) + 2 + j = Len(c) + p
        BY <1>1, <1>2, <4>2
      <4> QED BY <1>8, <4>2, <4>3
    <3> QED BY <3>1, <3>2
  <2> QED BY <1>8, <2>1 DEF Extends
<1> QED BY <1>9, <1>10

\* Of a queue the thread takes the first frame, whole, and leaves the others.
LEMMA TakeRecord ==
  ASSUME NEW r \in Buf!Ring, NEW t \in Seq(Frame), NEW m, Queued(Buf!Contents(r), t, m), r.len >= 2
  PROVE  LET f == t[m + 1]
             rest == Buf!GetData(r, 2)
             left == Buf!GetData(rest, FrameLen(r))
         IN  /\ m \in Nat /\ m < Len(t) /\ f \in Frame
             /\ FrameLen(r) = f.len
             /\ Buf!CopyData(r, 2) = Header(f) /\ Buf!CopyData(rest, FrameLen(r)) = Body(f)
             /\ left \in Buf!Ring /\ Queued(Buf!Contents(left), t, m + 1)
PROOF
<1> DEFINE c == Buf!Contents(r)
           f == t[m + 1]
           rest == Buf!GetData(r, 2)
           left == Buf!GetData(rest, f.len)
<1>1. Len(c) = r.len /\ r.len \in Nat \ {0}
  BY RingCopy
<1>2. /\ m \in Nat /\ m < Len(t)
      /\ f \in Frame
      /\ 2 + f.len <= Len(c)
      /\ \A p \in 1 .. 2 + f.len : c[p] = Cell(f, p)
      /\ \A e : Len(e) \in Nat /\ Behind(e, c, 2 + f.len) => Queued(e, t, m + 1)
  BY <1>1, QueuedLess
<1> HIDE DEF f
<1>3. f.len \in Nat /\ f.len >= 1
  BY <1>2, FrameFacts
<1>4. FrameLen(r) = f.len
  <2>1. 1 \in 0 .. r.len /\ 1 \in 1 .. 2 + f.len
    BY <1>1, <1>3
  <2>2. Buf!CopyData(r, 1)[1] = Cell(f, 1)
    BY <1>2, <2>1, RingCopy
  <2> QED BY <2>2 DEF FrameLen, Cell
<1>5. Buf!CopyData(r, 2) = Header(f)
  <2>1. 2 \in 0 .. r.len /\ 1 \in 1 .. 2 + f.len /\ 2 \in 1 .. 2 + f.len
    BY <1>1, <1>3
  <2>2. Buf!CopyData(r, 2) = [i \in 1 .. 2 |-> c[i]] /\ c[1] = Cell(f, 1) /\ c[2] = Cell(f, 2)
    BY <1>2, <2>1, RingCopy
  <2> QED BY <2>2 DEF Header
<1>6. /\ rest \in Buf!Ring /\ rest.len = r.len - 2
      /\ Buf!Contents(rest) = [i \in 1 .. r.len - 2 |-> c[2 + i]]
  BY <1>1, RingGet
<1>7. f.len \in 0 .. rest.len /\ rest.len \in Nat
  BY <1>1, <1>2, <1>3, <1>6
<1> HIDE DEF rest
<1>8. Buf!CopyData(rest, f.len) = Body(f)
  <2>1. Buf!CopyData(rest, f.len) = [i \in 1 .. f.len |-> Buf!Contents(rest)[i]]
    BY <1>6, <1>7, RingCopy
  <2>2. ASSUME NEW i \in 1 .. f.len
        PROVE  Buf!Contents(rest)[i] = Cell(f, 2 + i)
    <3>1. i \in 1 .. r.len - 2 /\ 2 + i \in 1 .. 2 + f.len
      BY <1>1, <1>3, <1>6, <1>7
    <3> QED BY <1>2, <1>6, <3>1
  <2> QED BY <2>1, <2>2 DEF Body
<1>9. /\ left \in Buf!Ring /\ left.len = rest.len - f.len
      /\ Buf!Contents(left) = [i \in 1 .. rest.len - f.len |-> Buf!Contents(rest)[f.len + i]]
  BY <1>6, <1>7, RingGet
<1> HIDE DEF left
<1>10. Len(Buf!Contents(left)) \in Nat /\ Behind(Buf!Contents(left), c, 2 + f.len)
  <2>1. Len(Buf!Contents(left)) = left.len /\ left.len \in Nat
    BY <1>9, RingCopy
  <2>2. Len(Buf!Contents(left)) = Len(c) - (2 + f.len)
    BY <1>1, <1>2, <1>3, <1>6, <1>9, <2>1
  <2>3. ASSUME NEW i \in 1 .. Len(Buf!Contents(left))
        PROVE  Buf!Contents(left)[i] = c[2 + f.len + i]
    <3>1. i \in 1 .. rest.len - f.len /\ f.len + i \in 1 .. r.len - 2
      BY <1>1, <1>3, <1>6, <1>7, <1>9, <2>1
    <3>2. 2 + (f.len + i) = 2 + f.len + i
      BY <1>3
    <3> QED BY <1>6, <1>9, <3>1, <3>2
  <2> QED BY <2>1, <2>2, <2>3 DEF Behind
<1>11. Queued(Buf!Contents(left), t, m + 1)
  BY <1>2, <1>10
<1> QED BY <1>2, <1>4, <1>5, <1>8, <1>9, <1>11 DEF f, rest, left
-----------------------------------------------------------------------------
(* Nothing that was accepted is lost before it is in the file: the steps of *)
(* one recorder.                                                            *)

LEMMA KeptAtRest ==
  ASSUME NEW t \in Seq(Frame), NEW l \in Seq(Frame)
  PROVE  /\ Kept(NoRec, t, l)
         /\ Kept([NoRec EXCEPT !.alive = TRUE], <<>>, <<>>)
PROOF
<1>1. Cap \in Nat \ {0}
  BY RecorderAssumption
<1>2. Buf!EmptyRing \in Buf!Ring
  BY <1>1 DEF Buf!EmptyRing, Buf!Ring, Buf!Index
<1>3. Len(Buf!Contents(Buf!EmptyRing)) = 0
  BY <1>2, RingCopy DEF Buf!EmptyRing
<1>4. Queued(Buf!Contents(Buf!EmptyRing), <<>>, 0)
  BY <1>3, NothingQueued
<1>5. Len(<<>>) = 0 /\ <<>> \in Seq(Frame)
  OBVIOUS
<1> QED BY <1>2, <1>4, <1>5 DEF Kept, NoRec, Out

\* What the other fields do does not matter.
LEMMA KeptSame ==
  ASSUME NEW o, NEW t, NEW l, Kept(o, t, l),
         NEW n, n.ring = o.ring, n.cur = o.cur, n.alive = o.alive,
         (n.pc = "write") <=> (o.pc = "write")
  PROVE  Kept(n, t, l)
  BY DEF Kept, Out

LEMMA KeptAccept ==
  ASSUME NEW o, NEW t, NEW l, Kept(o, t, l), o.pc = "write" => o.alive,
         NEW f \in Frame, Buf!RemainLen(o.ring) >= 2 + f.len,
         NEW n, n.ring = Put(o.ring, f), n.cur = o.cur, n.alive = o.alive, n.pc = o.pc
  PROVE  Kept(n, Append(t, f), l)
PROOF
<1> DEFINE u == Append(t, f)
<1>1. o.ring \in Buf!Ring /\ t \in Seq(Frame) /\ l \in Seq(Frame)
  BY DEF Kept
<1>2. n.ring \in Buf!Ring /\ Extends(Buf!Contents(n.ring), Buf!Contents(o.ring), f)
  BY <1>1, PutRecord
<1>3. u \in Seq(Frame) /\ Len(u) = Len(t) + 1 /\ \A j \in 1 .. Len(t) : u[j] = t[j]
  BY <1>1
<1>4. ASSUME o.alive
      PROVE  Queued(Buf!Contents(n.ring), u, Out(n, l))
  <2>1. Queued(Buf!Contents(o.ring), t, Out(o, l))
    BY <1>4 DEF Kept
  <2>2. Out(n, l) = Out(o, l)
    BY DEF Out
  <2>3. Len(Buf!Contents(o.ring)) \in Nat
    BY <1>1, RingCopy
  <2> QED BY <1>1, <1>2, <2>1, <2>2, <2>3, QueuedMore
<1>5. ASSUME o.pc = "write"
      PROVE  u[Len(l) + 1] = t[Len(l) + 1]
  <2>1. Queued(Buf!Contents(o.ring), t, Len(l) + 1)
    BY <1>5 DEF Kept, Out
  <2>2. Len(l) + 1 \in 1 .. Len(t)
    BY <1>1, <2>1 DEF Queued
  <2> QED BY <1>3, <2>2
<1> HIDE DEF u
<1>6. n.pc = "write" => LET g == u[Len(l) + 1] IN n.cur = [header |-> Header(g), body |-> Body(g)]
  BY <1>5 DEF Kept
<1> QED BY <1>1, <1>2, <1>3, <1>4, <1>6 DEF Kept, u

LEMMA KeptTake ==
  ASSUME NEW o, NEW t, NEW l, Kept(o, t, l), o.pc = "take", o.alive, Whole(o.ring),
         NEW n, n.alive = o.alive, n.pc = "write",
         n.ring = Buf!GetData(Buf!GetData(o.ring, 2), FrameLen(o.ring)),
         n.cur = [header |-> Buf!CopyData(o.ring, 2),
                  body |-> Buf!CopyData(Buf!GetData(o.ring, 2), FrameLen(o.ring))]
  PROVE  Kept(n, t, l)
PROOF
<1>1. o.ring \in Buf!Ring /\ t \in Seq(Frame) /\ l \in Seq(Frame)
  BY DEF Kept
<1>2. Queued(Buf!Contents(o.ring), t, Len(l)) /\ o.ring.len >= 2
  BY DEF Kept, Out, Whole
<1>3. /\ n.cur = [header |-> Header(t[Len(l) + 1]), body |-> Body(t[Len(l) + 1])]
      /\ n.ring \in Buf!Ring /\ Queued(Buf!Contents(n.ring), t, Len(l) + 1)
  BY <1>1, <1>2, TakeRecord
<1> QED BY <1>1, <1>3 DEF Kept, Out

\* What the library is given is the next frame.
LEMMA KeptWrite ==
  ASSUME NEW o, NEW t, NEW l, Kept(o, t, l), o.pc = "write", o.alive
  PROVE  /\ Len(l) \in Nat /\ Len(l) < Len(t)
         /\ t[Len(l) + 1] \in Frame
         /\ Decoded(o.cur) = t[Len(l) + 1]
         /\ \A n : n.ring = o.ring /\ n.alive = o.alive /\ n.pc = "check"
                     => Kept(n, t, Append(l, t[Len(l) + 1]))
PROOF
<1> DEFINE f == t[Len(l) + 1]
<1>1. o.ring \in Buf!Ring /\ t \in Seq(Frame) /\ l \in Seq(Frame)
  BY DEF Kept
<1>2. Queued(Buf!Contents(o.ring), t, Len(l) + 1)
  BY DEF Kept, Out
<1>3. Len(l) \in Nat /\ Len(l) + 1 \in 1 .. Len(t) /\ Len(l) < Len(t)
  BY <1>1, <1>2 DEF Queued
<1>4. f \in Frame
  BY <1>1, <1>3
<1>5. o.cur = [header |-> Header(f), body |-> Body(f)]
  BY DEF Kept
<1> HIDE DEF f
<1>6. Decoded(o.cur) = f
  <2>1. o.cur.header[1] = Cell(f, 1)
    BY <1>5 DEF Header
  <2>2. o.cur.header[1].no = f.no /\ o.cur.header[1].len = f.len
    BY <2>1 DEF Cell
  <2>3. f = [no |-> f.no, len |-> f.len]
    BY <1>4, FrameFacts
  <2> QED BY <1>5, <2>2, <2>3 DEF Decoded
<1>7. ASSUME NEW n, n.ring = o.ring, n.alive = o.alive, n.pc = "check"
      PROVE  Kept(n, t, Append(l, f))
  <2>1. Append(l, f) \in Seq(Frame) /\ Len(Append(l, f)) = Len(l) + 1
    BY <1>1, <1>4
  <2> QED BY <1>1, <1>2, <1>7, <2>1 DEF Kept, Out
<1> QED BY <1>3, <1>4, <1>6, <1>7 DEF f

-----------------------------------------------------------------------------
(* The steps of the channel.                                                *)

\* What the recorder's shape leaves open, and the rest of the types
FieldTypes ==
  /\ \A r \in Rec : rec[r].alive \in BOOLEAN /\ rec[r].open \in BOOLEAN /\ rec[r].fh \in {"null", "open"}
  /\ DOMAIN taken = Rec /\ taken = [r \in Rec |-> taken[r]]
  /\ DOMAIN filed = Rec /\ filed = [r \in Rec |-> filed[r]]

AppTypes ==
  /\ main \in StartingUp \cup {"run", "exited"} \cup Exiting
  /\ vencs \subseteq Stream
  /\ cap \in [pc : {"none", "check", "walk", "found", "input", "ended"}, run : BOOLEAN,
              todo : SUBSET Stream, frame : Frame \cup {NoFrame}, obj : Rec \cup {NoSave}]
  /\ sec \in [pc : {"none", "check", "snap", "ended"}, run : BOOLEAN]
  /\ srv \in {"idle", "use"}
  /\ made \in 0 .. MaxFrame
  /\ crashed \in BOOLEAN

FileInv == RecorderInv /\ FieldTypes /\ AppTypes /\ Delivering /\ NothingLost

LEMMA FileInvTypes == FileInv => TypeOK
PROOF
<1> SUFFICES ASSUME FileInv PROVE TypeOK
  OBVIOUS
<1>1. Shape
  BY DEF FileInv, RecorderInv
<1>2. \A r \in Rec : rec[r].ring \in Buf!Ring /\ taken[r] \in Seq(Frame) /\ filed[r] \in Seq(Frame)
  BY DEF FileInv, NothingLost, Kept
<1>3. ASSUME NEW r \in Rec
      PROVE  filed[r] \in Seq(Frame \cup {NoFrame})
  <2>1. PICK l \in Seq(Frame) : l = filed[r]
    BY <1>2
  <2>2. \A i \in 1 .. Len(l) : l[i] \in Frame \cup {NoFrame}
    OBVIOUS
  <2>3. l \in [1 .. Len(l) -> Frame \cup {NoFrame}] /\ Len(l) \in Nat
    BY <2>2
  <2> QED BY <2>1, <2>3
<1>4. taken \in [Rec -> Seq(Frame)] /\ filed \in [Rec -> Seq(Frame \cup {NoFrame})]
  BY <1>2, <1>3, Zenon DEF FileInv, FieldTypes
<1>5. RecorderTypeOK
  BY <1>1, <1>2, <1>4 DEF FileInv, FieldTypes, Shape, RecorderTypeOK
<1> QED BY <1>1, <1>5 DEF FileInv, AppTypes, Shape, TypeOK
\* What a step of the channel keeps, besides RecorderInv and the types of the
\* application, and what it is for the log
Logged ==
  /\ FieldTypes' /\ NothingLost'
  /\ [Log!LogNext]_(<<taken, filed>>)

\* The objects of the other recorders
Others(r) == \A q \in Rec \ {r} : rec'[q] = rec[q]

LEMMA NoRecorder ==
  ASSUME FileInv, UNCHANGED recVars
  PROVE  Logged
  BY DEF FileInv, recVars, FieldTypes, NothingLost, Logged

\* A step that leaves both sequences alone.
LEMMA OneObject ==
  ASSUME FileInv, NEW r \in Rec, Others(r), UNCHANGED <<taken, filed>>,
         rec'[r].alive \in BOOLEAN, rec'[r].open \in BOOLEAN, rec'[r].fh \in {"null", "open"},
         Kept(rec'[r], taken[r], filed[r])
  PROVE  Logged
PROOF
<1>1. FieldTypes'
  BY DEF FileInv, FieldTypes, Others
<1>2. \A q \in Rec : Kept(rec'[q], taken[q], filed[q])
  BY Zenon DEF FileInv, NothingLost, Others
<1> QED BY <1>1, <1>2 DEF NothingLost, Logged

LEMMA ConstructLogged ==
  ASSUME FileInv, NEW r \in Rec, Construct(r)
  PROVE  Logged
PROOF
<1>1. /\ DOMAIN rec = Rec /\ DOMAIN taken = Rec /\ DOMAIN filed = Rec
      /\ taken = [q \in Rec |-> taken[q]] /\ filed = [q \in Rec |-> filed[q]]
  BY DEF FileInv, RecorderInv, Shape, FieldTypes
<1>2. /\ rec'[r] = [NoRec EXCEPT !.alive = TRUE] /\ taken'[r] = <<>> /\ filed'[r] = <<>>
      /\ \A q \in Rec \ {r} : rec'[q] = rec[q] /\ taken'[q] = taken[q] /\ filed'[q] = filed[q]
      /\ DOMAIN taken' = Rec /\ taken' = [q \in Rec |-> taken'[q]]
      /\ DOMAIN filed' = Rec /\ filed' = [q \in Rec |-> filed'[q]]
  BY <1>1 DEF Construct
<1>3. FieldTypes'
  <2>1. rec'[r].alive /\ ~rec'[r].open /\ rec'[r].fh = "null"
    BY <1>2 DEF NoRec
  <2>2. \A q \in Rec \ {r} : /\ rec'[q].alive \in BOOLEAN /\ rec'[q].open \in BOOLEAN
                             /\ rec'[q].fh \in {"null", "open"}
    BY <1>2 DEF FileInv, FieldTypes
  <2>3. /\ rec'[r].alive \in BOOLEAN /\ rec'[r].open \in BOOLEAN /\ rec'[r].fh \in {"null", "open"}
    BY <1>2, <2>1 DEF NoRec
  <2>4. \A q \in Rec : /\ rec'[q].alive \in BOOLEAN /\ rec'[q].open \in BOOLEAN
                       /\ rec'[q].fh \in {"null", "open"}
    BY <2>2, <2>3
  <2> QED BY <1>2, <2>4, Zenon DEF FieldTypes
<1>4. Kept([NoRec EXCEPT !.alive = TRUE], <<>>, <<>>)
  <2>1. <<>> \in Seq(Frame)
    OBVIOUS
  <2> QED BY <2>1, KeptAtRest
<1>5. NothingLost'
  BY <1>2, <1>4, Zenon DEF FileInv, NothingLost
<1>6. Log!Begin(r)
  BY DEF Construct, Log!Begin
<1> QED BY <1>3, <1>5, <1>6 DEF Logged, Log!LogNext

LEMMA OpenLogged ==
  ASSUME FileInv, NEW r \in Rec, NEW ok \in BOOLEAN, Open(r, ok)
  PROVE  Logged
PROOF
<1>1. CASE ~ok
  <2>1. UNCHANGED recVars
    BY <1>1 DEF Open, recVars
  <2> QED BY <2>1, NoRecorder
<1>2. CASE ok
  <2>1. DOMAIN rec = Rec /\ DOMAIN rec[r] = RecFields
    BY DEF FileInv, RecorderInv, Shape
  <2>2. rec[r].pc \in Idle
    BY DEF Open, FileInv, RecorderInv, ClosedIsIdle
  <2>3. rec'[r] = [rec[r] EXCEPT !.open = TRUE, !.fh = "open", !.pc = "check"]
    BY <1>2, <2>1 DEF Open
  <2>4. /\ rec'[r].ring = rec[r].ring /\ rec'[r].cur = rec[r].cur /\ rec'[r].alive = rec[r].alive
        /\ rec'[r].pc = "check" /\ rec'[r].open /\ rec'[r].open \in BOOLEAN /\ rec'[r].fh = "open"
    BY <2>1, <2>3 DEF RecFields
  <2>5. Kept(rec[r], taken[r], filed[r]) /\ rec[r].alive \in BOOLEAN
    BY DEF FileInv, NothingLost, FieldTypes
  <2>6. Kept(rec'[r], taken[r], filed[r])
    BY <2>2, <2>4, <2>5, KeptSame DEF Idle
  <2>7. Others(r) /\ UNCHANGED <<taken, filed>>
    BY <1>2, <2>1 DEF Open, Others
  <2> QED BY <2>4, <2>5, <2>6, <2>7, OneObject
<1> QED BY <1>1, <1>2

LEMMA InputLogged ==
  ASSUME FileInv, NEW r \in Rec, NEW f \in Frame, InputData(r, f)
  PROVE  Logged
PROOF
<1>1. CASE ~(rec[r].open /\ Fits(r, f))
  <2>1. UNCHANGED recVars
    BY <1>1 DEF InputData, recVars
  <2> QED BY <2>1, NoRecorder
<1>2. CASE rec[r].open /\ Fits(r, f)
  <2>1. /\ DOMAIN rec = Rec /\ DOMAIN rec[r] = RecFields
        /\ DOMAIN taken = Rec /\ taken = [q \in Rec |-> taken[q]] /\ DOMAIN filed = Rec
        /\ filed = [q \in Rec |-> filed[q]]
    BY DEF FileInv, RecorderInv, Shape, FieldTypes
  <2>2. /\ rec' = [rec EXCEPT ![r].ring = Put(@, f)]
        /\ taken' = [taken EXCEPT ![r] = Append(@, f)] /\ filed' = filed
    BY <1>2 DEF InputData
  <2>3. /\ rec'[r] = [rec[r] EXCEPT !.ring = Put(rec[r].ring, f)]
        /\ taken'[r] = Append(taken[r], f)
        /\ \A q \in Rec \ {r} : rec'[q] = rec[q] /\ taken'[q] = taken[q]
        /\ DOMAIN taken' = Rec /\ taken' = [q \in Rec |-> taken'[q]]
    BY <2>1, <2>2
  <2>4. /\ rec'[r].ring = Put(rec[r].ring, f) /\ rec'[r].cur = rec[r].cur
        /\ rec'[r].alive = rec[r].alive /\ rec'[r].pc = rec[r].pc
        /\ rec'[r].open = rec[r].open /\ rec'[r].fh = rec[r].fh
    BY <2>1, <2>3 DEF RecFields
  <2>5. /\ Kept(rec[r], taken[r], filed[r]) /\ Buf!RemainLen(rec[r].ring) >= 2 + f.len
        /\ rec[r].pc = "write" => rec[r].alive
    BY <1>2 DEF FileInv, NothingLost, RecorderInv, WriterHasFile, Fits
  <2>6. Kept(rec'[r], Append(taken[r], f), filed[r])
    BY <2>4, <2>5, KeptAccept
  <2>7. FieldTypes'
    BY <2>1, <2>2, <2>3, <2>4 DEF FileInv, FieldTypes
  <2>8. NothingLost'
    BY <2>2, <2>3, <2>6, Zenon DEF FileInv, NothingLost
  <2>9. Log!Accept(r)
    BY <2>2 DEF Log!Accept
  <2> QED BY <2>7, <2>8, <2>9 DEF Logged, Log!LogNext
<1> QED BY <1>1, <1>2

LEMMA CloseLogged ==
  ASSUME FileInv, NEW r \in Rec, CloseFlag(r) \/ CloseDestroy(r)
  PROVE  Logged
PROOF
<1>1. DOMAIN rec = Rec /\ DOMAIN rec[r] = RecFields
  BY DEF FileInv, RecorderInv, Shape
<1>2. \/ rec'[r] = [rec[r] EXCEPT !.open = FALSE, !.lock = "close"]
      \/ rec'[r] = [rec[r] EXCEPT !.fh = "null", !.lock = "free"]
  BY <1>1 DEF CloseFlag, CloseDestroy
<1>3. Kept(rec[r], taken[r], filed[r])
  BY DEF FileInv, NothingLost
<1>4. /\ rec[r].alive \in BOOLEAN /\ rec[r].open \in BOOLEAN /\ rec[r].fh \in {"null", "open"}
  BY DEF FileInv, FieldTypes
<1>5. /\ rec'[r].ring = rec[r].ring /\ rec'[r].cur = rec[r].cur /\ rec'[r].alive = rec[r].alive
      /\ rec'[r].pc = rec[r].pc /\ rec'[r].open \in BOOLEAN /\ rec'[r].fh \in {"null", "open"}
  BY <1>1, <1>2, <1>4 DEF RecFields
<1>6. Kept(rec'[r], taken[r], filed[r])
  BY <1>3, <1>5, KeptSame
<1>7. Others(r) /\ UNCHANGED <<taken, filed>>
  BY <1>1 DEF CloseFlag, CloseDestroy, Others
<1> QED BY <1>4, <1>5, <1>6, <1>7, OneObject

LEMMA DestructLogged ==
  ASSUME FileInv, NEW r \in Rec, Destruct(r)
  PROVE  Logged
PROOF
<1>1. rec'[r] = NoRec /\ Others(r) /\ UNCHANGED <<taken, filed>>
  BY DEF Destruct, Others, FileInv, RecorderInv, Shape
<1>2. Kept(NoRec, taken[r], filed[r])
  BY KeptAtRest DEF FileInv, NothingLost, Kept
<1>3. NoRec.alive \in BOOLEAN /\ NoRec.open \in BOOLEAN /\ NoRec.fh \in {"null", "open"}
  BY DEF NoRec
<1> QED BY <1>1, <1>2, <1>3, OneObject

LEMMA ThreadLogged ==
  ASSUME FileInv, NEW r \in Rec, Thread(r)
  PROVE  Logged
PROOF
<1>1. DOMAIN rec = Rec /\ DOMAIN rec[r] = RecFields
  BY DEF FileInv, RecorderInv, Shape
<1>2. Kept(rec[r], taken[r], filed[r])
  BY DEF FileInv, NothingLost
<1>3. /\ rec[r].alive \in BOOLEAN /\ rec[r].open \in BOOLEAN /\ rec[r].fh \in {"null", "open"}
      /\ rec[r].pc \in {"take", "write"} => rec[r].alive
  BY DEF FileInv, FieldTypes, RecorderInv, WriterHasFile
<1>4. ASSUME ThreadCheck(r) \/ (ThreadTake(r) /\ ~Whole(rec[r].ring))
      PROVE  Logged
  <2>1. /\ rec[r].pc \in {"check", "take"}
        /\ \E pc \in {"take", "done", "check"} : rec'[r] = [rec[r] EXCEPT !.pc = pc]
    BY <1>1, <1>4 DEF ThreadCheck, ThreadTake
  <2>2. /\ rec'[r].ring = rec[r].ring /\ rec'[r].cur = rec[r].cur /\ rec'[r].alive = rec[r].alive
        /\ rec'[r].pc # "write" /\ rec'[r].open = rec[r].open /\ rec'[r].fh = rec[r].fh
    BY <1>1, <2>1 DEF RecFields
  <2>3. Kept(rec'[r], taken[r], filed[r])
    BY <1>2, <2>1, <2>2, KeptSame
  <2>4. Others(r) /\ UNCHANGED <<taken, filed>>
    BY <1>1, <1>4 DEF ThreadCheck, ThreadTake, Others
  <2> QED BY <1>3, <2>2, <2>3, <2>4, OneObject
<1>5. ASSUME ThreadTake(r), Whole(rec[r].ring)
      PROVE  Logged
  <2> DEFINE rest == Buf!GetData(rec[r].ring, 2)
             n == FrameLen(rec[r].ring)
  <2>1. /\ rec[r].pc = "take" /\ UNCHANGED <<taken, filed>>
        /\ rec' = [rec EXCEPT ![r].cur = [header |-> Buf!CopyData(rec[r].ring, 2),
                                          body |-> Buf!CopyData(rest, n)],
                              ![r].ring = Buf!GetData(rest, n), ![r].pc = "write"]
    BY <1>5 DEF ThreadTake, Take
  <2> HIDE DEF rest, n
  <2>2. /\ rec'[r].cur = [header |-> Buf!CopyData(rec[r].ring, 2), body |-> Buf!CopyData(rest, n)]
        /\ rec'[r].ring = Buf!GetData(rest, n) /\ rec'[r].pc = "write"
        /\ rec'[r].alive = rec[r].alive /\ rec'[r].open = rec[r].open /\ rec'[r].fh = rec[r].fh
    BY <1>1, <2>1 DEF RecFields
  <2>3. Kept(rec'[r], taken[r], filed[r])
    BY <1>2, <1>3, <1>5, <2>1, <2>2, KeptTake DEF rest, n
  <2>4. Others(r)
    BY <1>1, <2>1 DEF Others
  <2> QED BY <1>3, <2>1, <2>2, <2>3, <2>4, OneObject
<1>6. ASSUME ThreadWrite(r)
      PROVE  Logged
  <2>1. /\ DOMAIN taken = Rec /\ taken = [q \in Rec |-> taken[q]]
        /\ DOMAIN filed = Rec /\ filed = [q \in Rec |-> filed[q]]
    BY DEF FileInv, FieldTypes
  <2>2. /\ rec[r].pc = "write" /\ taken' = taken
        /\ filed' = [filed EXCEPT ![r] = Append(@, Decoded(rec[r].cur))]
        /\ rec' = [rec EXCEPT ![r].pc = "check", ![r].cur = NoRecord]
    BY <1>6 DEF ThreadWrite
  <2> DEFINE f == taken[r][Len(filed[r]) + 1]
  <2>3. /\ Len(filed[r]) < Len(taken[r])
        /\ Decoded(rec[r].cur) = f
        /\ \A n : n.ring = rec[r].ring /\ n.alive = rec[r].alive /\ n.pc = "check"
                    => Kept(n, taken[r], Append(filed[r], f))
    BY <1>2, <1>3, <2>2, KeptWrite
  <2>4. /\ rec'[r].ring = rec[r].ring /\ rec'[r].alive = rec[r].alive /\ rec'[r].pc = "check"
        /\ rec'[r].open = rec[r].open /\ rec'[r].fh = rec[r].fh
        /\ \A q \in Rec \ {r} : rec'[q] = rec[q]
    BY <1>1, <2>2 DEF RecFields
  <2> HIDE DEF f
  <2>5. /\ filed'[r] = Append(filed[r], f)
        /\ \A q \in Rec \ {r} : filed'[q] = filed[q]
        /\ DOMAIN filed' = Rec /\ filed' = [q \in Rec |-> filed'[q]]
    BY <2>1, <2>2, <2>3
  <2>6. Kept(rec'[r], taken[r], Append(filed[r], f))
    BY <2>3, <2>4
  <2>7. NothingLost'
    BY <2>2, <2>4, <2>5, <2>6, Zenon DEF FileInv, NothingLost
  <2>8. FieldTypes'
    BY <2>1, <2>2, <2>4, <2>5 DEF FileInv, FieldTypes
  <2>9. Log!File(r)
    <3>1. filed' = [filed EXCEPT ![r] = Append(filed[r], f)]
      BY <2>2, <2>3
    <3> QED BY <2>2, <2>3, <3>1 DEF Log!File, f
  <2> QED BY <2>7, <2>8, <2>9 DEF Logged, Log!LogNext
<1> QED BY <1>4, <1>5, <1>6 DEF Thread
LEMMA AppStep == FileInv /\ [Next]_vars => AppTypes' /\ Delivering'
PROOF
<1> SUFFICES ASSUME FileInv, [Next]_vars PROVE AppTypes' /\ Delivering'
  OBVIOUS
<1>1. /\ AppTypes /\ Delivering
      /\ chn \in [started : BOOLEAN, parts : BOOLEAN, reg : BOOLEAN, save : Rec \cup {NoSave}]
  BY DEF FileInv, RecorderInv, Shape
<1> USE <1>1 DEF AppTypes, Delivering
<1>2. ASSUME main' \in StartingUp \cup {"run", "exited"} \cup Exiting, vencs' \subseteq Stream,
             UNCHANGED <<cap, sec, srv, made, crashed>>
      PROVE  AppTypes' /\ Delivering'
  BY <1>2
<1>3. ASSUME NEW ok \in BOOLEAN, ChnStart(ok) \/ OpenSave(ok) PROVE AppTypes' /\ Delivering'
  BY <1>2, <1>3 DEF ChnStart, OpenSave, StartingUp
<1>4. CASE StartCapture
  BY <1>4 DEF StartCapture, StartingUp
<1>5. ASSUME NEW r \in Rec, NewSave(r) PROVE AppTypes' /\ Delivering'
  BY <1>2, <1>5 DEF NewSave, StartingUp
<1>6. CASE NoStartSave
  BY <1>2, <1>6 DEF NoStartSave, StartingUp
<1>7. CASE StartSecond
  BY <1>7 DEF StartSecond
<1>8. CASE Quit
  BY <1>8 DEF Quit, Exiting
<1>9. CASE JoinSecond \/ NothingSaved \/ StopSave \/ CloseSave \/ ResetSave
  BY <1>2, <1>9 DEF JoinSecond, NothingSaved, StopSave, CloseSave, ResetSave, Exiting
<1>10. CASE StopCapture
  BY <1>10 DEF StopCapture, Exiting
<1>11. CASE JoinCapture \/ StopChn \/ StopVencs \/ DropParts \/ Unregister
  BY <1>2, <1>11 DEF JoinCapture, StopChn, StopVencs, DropParts, Unregister, Exiting
<1>12. WalkOn \in [pc : {"walk"}, run : BOOLEAN, todo : SUBSET Stream,
                   frame : {NoFrame}, obj : {NoSave}]
  BY DEF WalkOn, Walked
<1>13. CASE Select \/ WalkEnds \/ NoStream
  <2>1. UNCHANGED <<main, vencs, sec, srv, made, crashed>>
    BY <1>13 DEF Select, WalkEnds, NoStream
  <2>2. \E pc \in {"check", "walk", "ended"}, todo \in SUBSET Stream :
          cap' = [cap EXCEPT !.pc = pc, !.todo = todo]
    <3>1. cap.todo \in SUBSET Stream /\ cap = [cap EXCEPT !.todo = cap.todo]
      OBVIOUS
    <3>2. CASE Select
      <4>1. CASE cap' = [cap EXCEPT !.pc = "ended"]
        <5>1. cap' = [cap EXCEPT !.pc = "ended", !.todo = cap.todo]
          BY <4>1
        <5> QED BY <3>1, <5>1
      <4>2. CASE \E ready \in SUBSET vencs : cap' = [cap EXCEPT !.pc = "walk", !.todo = ready]
        BY <4>2
      <4> QED BY <3>2, <4>1, <4>2 DEF Select
    <3>3. CASE WalkEnds
      <4>1. cap' = [cap EXCEPT !.pc = "check", !.todo = cap.todo]
        BY <3>3 DEF WalkEnds
      <4> QED BY <3>1, <4>1
    <3>4. CASE NoStream
      <4>1. PICK todo \in {Walked, {}} : cap' = [cap EXCEPT !.todo = todo]
        BY <3>4 DEF NoStream
      <4>2. cap' = [cap EXCEPT !.pc = "walk", !.todo = todo] /\ todo \in SUBSET Stream
        BY <3>4, <4>1 DEF NoStream, Walked
      <4> QED BY <4>2
    <3> QED BY <1>13, <3>2, <3>3, <3>4
  <2> QED BY <2>1, <2>2
<1>14. CASE MainFrame
  <2>1. made' \in 0 .. MaxFrame
    BY <1>14, RecorderAssumption DEF MainFrame
  <2>2. PICK n \in BodyLen :
          cap' = IF chn.started /\ chn.save # NoSave
                   THEN [cap EXCEPT !.pc = "found", !.frame = [no |-> made + 1, len |-> n]]
                   ELSE WalkOn
    BY <1>14 DEF MainFrame
  <2>3. [no |-> made + 1, len |-> n] \in Frame
    BY <1>14, RecorderAssumption DEF MainFrame, Frame
  <2>4. UNCHANGED <<main, chn, vencs, sec, srv, crashed>>
    BY <1>14 DEF MainFrame
  <2> QED BY <1>12, <2>1, <2>2, <2>3, <2>4
<1>15. CASE Dereference
  BY <1>15 DEF Dereference
<1>16. CASE InputLiving \/ InputGone
  BY <1>12, <1>16 DEF InputLiving, InputGone
<1>17. CASE Second
  BY <1>17 DEF Second, SecondCheck, SecondSnap
<1>18. CASE LookUp \/ UseEncoder
  BY <1>18 DEF LookUp, UseEncoder
<1>19. CASE UNCHANGED <<main, vencs, cap, sec, srv, made, crashed>>
  BY <1>19
<1>20. CASE Writer \/ UNCHANGED vars
  BY <1>19, <1>20 DEF Writer, appVars, vars
<1> QED
  BY <1>3, <1>4, <1>5, <1>6, <1>7, <1>8, <1>9, <1>10, <1>11, <1>13, <1>14, <1>15, <1>16, <1>17,
     <1>18, <1>20 DEF Next, StartUp, DoExit, Capture

LEMMA LoggedStep == FileInv /\ [Next]_vars => Logged
PROOF
<1> SUFFICES ASSUME FileInv, [Next]_vars PROVE Logged
  OBVIOUS
<1>1. ASSUME UNCHANGED recVars PROVE Logged
  BY <1>1, NoRecorder
<1>2. /\ cap.pc = "input" => cap.obj \in Rec /\ cap.frame \in Frame
      /\ main \in {"open", "closing", "reset"} => chn.save \in Rec
      /\ chn.save \in Rec \cup {NoSave}
  BY DEF FileInv, Delivering, RecorderInv, MainsRecorder, Shape
<1>3. ASSUME NEW ok \in BOOLEAN, ChnStart(ok) PROVE Logged
  BY <1>1, <1>3 DEF ChnStart
<1>4. ASSUME NEW ok \in BOOLEAN, OpenSave(ok) PROVE Logged
  BY <1>2, <1>4, OpenLogged DEF OpenSave
<1>5. CASE StartCapture \/ NoStartSave \/ StartSecond \/ Quit
  BY <1>1, <1>5 DEF StartCapture, NoStartSave, StartSecond, Quit
<1>6. ASSUME NEW r \in Rec, NewSave(r) PROVE Logged
  BY <1>6, ConstructLogged DEF NewSave
<1>7. CASE JoinSecond \/ NothingSaved \/ StopCapture \/ JoinCapture
  BY <1>1, <1>7 DEF JoinSecond, NothingSaved, StopCapture, JoinCapture
<1>8. CASE StopChn \/ StopVencs \/ DropParts \/ Unregister
  BY <1>1, <1>8 DEF StopChn, StopVencs, DropParts, Unregister
<1>9. CASE StopSave
  <2>1. chn.save \in Rec
    BY <1>2, <1>9 DEF StopSave
  <2>2. CloseFlag(chn.save) \/ UNCHANGED recVars
    BY <1>9 DEF StopSave
  <2> QED BY <1>1, <2>1, <2>2, CloseLogged
<1>10. CASE CloseSave
  BY <1>2, <1>10, CloseLogged DEF CloseSave
<1>11. CASE ResetSave
  BY <1>2, <1>11, DestructLogged DEF ResetSave
<1>12. CASE Select \/ WalkEnds \/ NoStream \/ MainFrame \/ Dereference \/ InputGone
  BY <1>1, <1>12 DEF Select, WalkEnds, NoStream, MainFrame, Dereference, InputGone
<1>13. CASE InputLiving
  BY <1>2, <1>13, InputLogged DEF InputLiving
<1>14. CASE Second \/ LookUp \/ UseEncoder
  BY <1>1, <1>14 DEF Second, SecondCheck, SecondSnap, LookUp, UseEncoder
<1>15. CASE Writer
  BY <1>15, ThreadLogged DEF Writer
<1>16. CASE UNCHANGED vars
  BY <1>1, <1>16 DEF vars, recVars
<1> QED
  BY <1>3, <1>4, <1>5, <1>6, <1>7, <1>8, <1>9, <1>10, <1>11, <1>12, <1>13, <1>14, <1>15, <1>16
     DEF Next, StartUp, DoExit, Capture

LEMMA FileInitially == Init => FileInv
PROOF
<1> SUFFICES ASSUME Init PROVE FileInv
  OBVIOUS
<1>1. RecorderInv
  BY RecorderInitially
<1>2. FieldTypes
  BY DEF Init, RecorderInit, NoRec, FieldTypes
<1>3. AppTypes /\ Delivering
  <2>1. 0 \in 0 .. MaxFrame
    BY RecorderAssumption
  <2>2. cap = [pc |-> "none", run |-> FALSE, todo |-> {}, frame |-> NoFrame, obj |-> NoSave]
    BY DEF Init
  <2>3. cap \in [pc : {"none", "check", "walk", "found", "input", "ended"}, run : BOOLEAN,
                 todo : SUBSET Stream, frame : Frame \cup {NoFrame}, obj : Rec \cup {NoSave}]
    BY <2>2
  <2>4. /\ main = "start" /\ vencs = {} /\ sec = [pc |-> "none", run |-> FALSE]
        /\ srv = "idle" /\ made = 0 /\ crashed = FALSE
    BY DEF Init
  <2>5. sec \in [pc : {"none", "check", "snap", "ended"}, run : BOOLEAN]
    BY <2>4
  <2>6. AppTypes
    BY <2>1, <2>3, <2>4, <2>5 DEF AppTypes, StartingUp
  <2> QED BY <2>2, <2>6 DEF Delivering
<1>4. NothingLost
  <2>1. <<>> \in Seq(Frame)
    OBVIOUS
  <2>2. Kept(NoRec, <<>>, <<>>)
    BY <2>1, KeptAtRest
  <2> QED BY <2>2 DEF Init, RecorderInit, NothingLost
<1> QED BY <1>1, <1>2, <1>3, <1>4 DEF FileInv

LEMMA FileStep == FileInv /\ [Next]_vars => FileInv' /\ [Log!LogNext]_(<<taken, filed>>)
PROOF
<1> SUFFICES ASSUME FileInv, [Next]_vars
             PROVE  FileInv' /\ [Log!LogNext]_(<<taken, filed>>)
  OBVIOUS
<1>1. RecorderInv'
  BY RecorderStep DEF FileInv
<1>2. AppTypes' /\ Delivering'
  BY AppStep
<1>3. FieldTypes' /\ NothingLost' /\ [Log!LogNext]_(<<taken, filed>>)
  BY LoggedStep DEF Logged
<1> QED BY <1>1, <1>2, <1>3 DEF FileInv

\* The variables have their types; above all a ring is a ring, however the
\* frames and the thread's gets wrapped.
THEOREM ChannelTypes == Spec => []TypeOK
  <1>1. Init => FileInv
    BY FileInitially
  <1>2. FileInv /\ [Next]_vars => FileInv'
    BY FileStep
  <1>3. FileInv => TypeOK
    BY FileInvTypes
  <1> QED BY <1>1, <1>2, <1>3, PTL DEF Spec

\* mp4_save implements the log: whatever the sizes of the ring and the frames
\* and whenever the thread looks, the file gets the frames that input_data
\* accepted, in their order, whole, each once and none left out.
THEOREM RecorderIsLog == Spec => ImplementsFrameLog
  <1>1. Init => FileInv /\ Log!LogInit
    BY FileInitially DEF Init, RecorderInit, Log!LogInit
  <1>2. FileInv /\ [Next]_vars => FileInv' /\ [Log!LogNext]_(Log!logVars)
    BY FileStep DEF Log!logVars
  <1> QED BY <1>1, <1>2, PTL DEF Spec, ImplementsFrameLog, Log!LogSpec
=============================================================================
