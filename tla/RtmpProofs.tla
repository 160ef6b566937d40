----------------------------- MODULE RtmpProofs -----------------------------
(***************************************************************************)
(* What an RTMP server gets is a stream a player can decode, and what the  *)
(* map no longer has is over: for any sessions, sizes of the ring and      *)
(* frames.                                                                 *)
(***************************************************************************)
EXTENDS RtmpSessions, TLAPS

BufP == INSTANCE StreamBufProofs

-----------------------------------------------------------------------------
(* The inductive invariant.                                                 *)

\* Records one after the other: each head is followed by its body, each body
\* by the head of the next frame.
Whole(c) ==
  /\ c \in Seq(Byte)
  /\ c # <<>> => c[1].part = 0
  /\ \A i \in 1 .. Len(c) : c[i].part = 0 =>
       /\ i + c[i].len <= Len(c)
       /\ \A j \in 1 .. c[i].len : c[i + j] = Cell(c[i], j)
       /\ i + c[i].len < Len(c) =>
            /\ c[i + c[i].len + 1].part = 0
            /\ c[i + c[i].len + 1].no = c[i].no + 1

InRing(d) == Buf!Contents(sess[d].ring)

\* The manager's call: whom it still has to serve, and what the nalus that are
\* left say about those that were stored.
Serving ==
  /\ mgr.todo \subseteq reg
  /\ mgr.pc \in {"free", "loop"} => mgr.dest = NoDest
  /\ mgr.pc \notin {"free", "loop"} => mgr.dest \in reg \ mgr.todo
  /\ mgr.pc = "free" => mgr.job = "none"
  /\ mgr.job = "post" =>
       /\ mgr.frame \in Frame
       /\ \A d \in Dest : d \in mgr.todo \/ d = mgr.dest => mgr.frame.no = count[StreamOf[d]]
  /\ mgr.pc = "nalus" =>
       /\ mgr.job = "post"
       /\ mgr.nalus \in {<<"sps", "pps", "slice">>, <<"pps", "slice">>, <<"slice">>}
       /\ mgr.frame.kind = "key" /\ mgr.nalus # <<"sps", "pps", "slice">> =>
            sess[mgr.dest].sps = mgr.frame.no
       /\ mgr.frame.kind = "key" /\ mgr.nalus = <<"slice">> => sess[mgr.dest].pps = mgr.frame.no

\* A session of the map has its thread and its RTMP, one that is being stopped
\* is not started any more; a thread is in librtmp only between the parts of a
\* record.
Living(d) ==
  /\ d \notin reg =>
       /\ ~sess[d].on /\ sess[d].pc \in {"none", "done"} /\ sess[d].rtmp = "none"
       /\ sent[d] = <<>>
  /\ d \in reg => sess[d].pc # "none" /\ sess[d].rtmp # "none"
  /\ sess[d].sending => sess[d].pc \in {"aac", "send", "check"}
  /\ mgr.pc \in {"close", "join"} /\ mgr.dest = d => ~sess[d].on

\* The record in the thread's hand is one of a frame.
InHand(d) ==
  sess[d].pc \in {"config", "aac", "send"} =>
    /\ sess[d].cur.head \in Byte
    /\ sess[d].cur.head.part = 0
    /\ sess[d].cur.body = Body(sess[d].cur.head)

\* A frame came, and a key frame with parameter sets; those that are stored are
\* not older.
Covered(d, b) ==
  /\ b.no <= count[StreamOf[d]]
  /\ b.kind = "key" => b.no <= sess[d].sps /\ b.no <= sess[d].pps

Configured(d) ==
  /\ \A i \in 1 .. Len(InRing(d)) : Covered(d, InRing(d)[i])
  /\ sess[d].pc = "config" => Covered(d, sess[d].cur.head)
  /\ sess[d].pc \in {"config", "aac"} => sess[d].cur.head.kind = "key"

\* The last frame a session was given, and the next one its thread will take
Pending(d) == mgr.job = "post" /\ (d \in mgr.todo \/ d = mgr.dest)
LastNo(d) == IF Pending(d) THEN count[StreamOf[d]] - 1 ELSE count[StreamOf[d]]
NextNo(d) == IF InRing(d) = <<>> THEN LastNo(d) + 1 ELSE InRing(d)[1].no

LastSent(d) == sent[d][Len(sent[d])]

\* Something was sent, and frame no comes next.
SentUpTo(d, no) == sent[d] # <<>> /\ LastSent(d).kind # "config" /\ LastSent(d).no + 1 = no

\* Parameter sets for key frame no were sent, behind the frame before it.
Introduced(d, no) ==
  /\ sent[d] # <<>> /\ LastSent(d).kind = "config" /\ LastSent(d).no >= no
  /\ Len(sent[d]) > 1 => sent[d][Len(sent[d]) - 1].no + 1 = no

\* While the connection is open no frame is missing between what was sent,
\* what the thread has in its hand, the ring and the frames to come.
Continuous(d) ==
  Connected(d) =>
    /\ InRing(d) # <<>> => InRing(d)[Len(InRing(d))].no = LastNo(d)
    /\ sess[d].pc \in {"check", "take", "done"} /\ sess[d].key => SentUpTo(d, NextNo(d))
    /\ sess[d].pc = "config" =>
         /\ sess[d].cur.head.no + 1 = NextNo(d)
         /\ sess[d].key => SentUpTo(d, sess[d].cur.head.no)
    /\ sess[d].pc \in {"aac", "send"} =>
         /\ sess[d].cur.head.no + 1 = NextNo(d)
         /\ sess[d].cur.head.kind = "key" => Introduced(d, sess[d].cur.head.no)
         /\ sess[d].cur.head.kind # "key" => SentUpTo(d, sess[d].cur.head.no)

\* Nothing is sent before a key frame.
Begun(d) ==
  /\ ~sess[d].key /\ sess[d].pc # "aac" => sent[d] = <<>>
  /\ sess[d].pc = "send" => sess[d].key

\* Playable, for one session
Decodable(s) ==
  /\ s # <<>> => s[1].kind = "config"
  /\ \A i \in 1 .. Len(s) - 1 :
       /\ s[i + 1].kind = "key" <=> s[i].kind = "config"
       /\ s[i + 1].kind = "key" => s[i].no >= s[i + 1].no
       /\ s[i + 1].kind = "key" /\ i > 1 => s[i + 1].no = s[i - 1].no + 1
       /\ s[i + 1].kind = "p" => s[i + 1].no = s[i].no + 1

SessionInv(d) ==
  /\ Whole(InRing(d)) /\ Living(d) /\ InHand(d) /\ Configured(d)
  /\ Continuous(d) /\ Begun(d) /\ Decodable(sent[d])

RInv == TypeOK /\ Serving /\ \A d \in Dest : SessionInv(d)

-----------------------------------------------------------------------------
(* Cells, and records one after the other.                                  *)

\* What is in a cell.
LEMMA ByteFields ==
  ASSUME NEW b \in Byte
  PROVE  /\ b.no \in 1 .. MaxFrame /\ b.kind \in {"key", "p"} /\ b.len \in BodyLen
         /\ b.part \in 0 .. Cap /\ b.len \in Nat /\ b.len > 0
PROOF
<1>1. PICK f \in Frame, j \in 0 .. Cap : b = Cell(f, j)
  BY DEF Byte
<1>2. /\ f.no \in 1 .. MaxFrame /\ f.kind \in {"key", "p"} /\ f.len \in BodyLen
      /\ b.no = f.no /\ b.kind = f.kind /\ b.len = f.len /\ b.part = j
  BY <1>1 DEF Frame, Cell
<1>3. b.len \in Nat \ {0}
  BY <1>2, RtmpAssumption
<1>4. b.part \in 0 .. Cap
  BY <1>1, <1>2
<1> QED BY <1>2, <1>3, <1>4

\* The cells of a frame are bytes of the ring, if the ring has room for it.
LEMMA CellIsByte ==
  ASSUME NEW f \in Frame, NEW j \in 0 .. Cap
  PROVE  /\ Cell(f, j) \in Byte
         /\ Cell(f, j).no = f.no /\ Cell(f, j).kind = f.kind
         /\ Cell(f, j).len = f.len /\ Cell(f, j).part = j
  BY DEF Byte, Cell

\* Sequences.
LEMMA SeqFacts ==
  ASSUME NEW S, NEW s \in Seq(S)
  PROVE  /\ Len(s) \in Nat /\ (s # <<>> <=> Len(s) >= 1)
         /\ \A i \in 1 .. Len(s) : s[i] \in S
  OBVIOUS

LEMMA ConcatFacts ==
  ASSUME NEW S, NEW s \in Seq(S), NEW t \in Seq(S)
  PROVE  /\ s \o t \in Seq(S) /\ Len(s \o t) = Len(s) + Len(t)
         /\ \A i \in 1 .. Len(s) : (s \o t)[i] = s[i]
         /\ \A i \in 1 .. Len(t) : (s \o t)[Len(s) + i] = t[i]
  OBVIOUS

\* What is behind the first record
Rest(c) == [i \in 1 .. Len(c) - (c[1].len + 1) |-> c[c[1].len + 1 + i]]

\* Without its first record a ring of records is one.
LEMMA WholeRest ==
  ASSUME NEW c, Whole(c), c # <<>>
  PROVE  /\ Whole(Rest(c))
         /\ Len(c) >= c[1].len + 1
         /\ Len(Rest(c)) = Len(c) - (c[1].len + 1)
PROOF
<1>0. PICK r : r = Rest(c)
  OBVIOUS
<1>12. PICK k : k = c[1].len + 1
  OBVIOUS
<1>1. /\ Whole(c) /\ c # <<>> /\ k = c[1].len + 1
      /\ r = [i \in 1 .. Len(c) - k |-> c[k + i]]
  BY <1>0, <1>12 DEF Rest
<1>2. c \in Seq(Byte) /\ c[1].part = 0
  BY <1>1 DEF Whole
<1>3. /\ Len(c) \in Nat /\ Len(c) >= 1
      /\ \A i \in 1 .. Len(c) : c[i] \in Byte
  BY <1>1, <1>2, SeqFacts
<1>4. c[1] \in Byte /\ 1 \in 1 .. Len(c)
  BY <1>3
<1>5. /\ c[1].len \in Nat /\ c[1].len > 0
  BY <1>4, ByteFields
<1>6. k \in Nat /\ k >= 2 /\ k <= Len(c) /\ (k < Len(c) => c[k + 1].part = 0)
  <2>1. /\ 1 + c[1].len <= Len(c)
        /\ 1 + c[1].len < Len(c) => c[1 + c[1].len + 1].part = 0
    BY <1>1, <1>2, <1>4 DEF Whole
  <2>2. 1 + c[1].len = k
    BY <1>1, <1>5
  <2> QED BY <1>1, <1>5, <2>1, <2>2
<1>7. \A i \in 1 .. Len(c) - k : k + i \in 1 .. Len(c)
  BY <1>3, <1>6
<1>8. r \in Seq(Byte) /\ Len(r) = Len(c) - k /\ \A i \in 1 .. Len(r) : r[i] = c[k + i]
  <2>1. Len(c) - k \in Nat
    BY <1>3, <1>6
  <2>2. r \in [1 .. Len(c) - k -> Byte] /\ \A i \in 1 .. Len(c) - k : r[i] = c[k + i]
    BY <1>1, <1>3, <1>7
  <2> QED BY <2>1, <2>2
<1>9. r # <<>> => r[1].part = 0
  <2>1. ASSUME r # <<>> PROVE 1 \in 1 .. Len(r) /\ k < Len(c)
    BY <1>3, <1>6, <1>8, <2>1, SeqFacts
  <2> QED BY <1>6, <1>8, <2>1
<1>10. ASSUME NEW i \in 1 .. Len(r), r[i].part = 0
       PROVE  /\ i + r[i].len <= Len(r)
              /\ \A j \in 1 .. r[i].len : r[i + j] = Cell(r[i], j)
              /\ i + r[i].len < Len(r) =>
                   r[i + r[i].len + 1].part = 0 /\ r[i + r[i].len + 1].no = r[i].no + 1
  <2>1. PICK m : m = k + i
    OBVIOUS
  <2>2. m \in 1 .. Len(c) /\ r[i] = c[m]
    BY <1>7, <1>8, <1>10, <2>1
  <2>3. PICK len : len = r[i].len
    OBVIOUS
  <2>4. len \in Nat /\ len > 0
    BY <1>3, <2>2, <2>3, ByteFields
  <2>5. /\ m + len <= Len(c)
        /\ \A j \in 1 .. len : c[m + j] = Cell(r[i], j)
        /\ m + len < Len(c) => c[m + len + 1].part = 0 /\ c[m + len + 1].no = r[i].no + 1
    BY <1>1, <1>10, <2>2, <2>3 DEF Whole
  <2>6. i + len <= Len(r)
    BY <1>3, <1>6, <1>8, <2>1, <2>4, <2>5
  <2>7. \A j \in 1 .. len + 1 : i + j <= Len(r) =>
          i + j \in 1 .. Len(r) /\ k + (i + j) = m + j
    BY <1>3, <1>6, <1>8, <2>1, <2>4
  <2>8. \A j \in 1 .. len + 1 : i + j <= Len(r) => r[i + j] = c[m + j]
    BY <1>8, <2>7
  <2>9. ASSUME NEW j \in 1 .. len PROVE r[i + j] = Cell(r[i], j)
    <3>1. j \in 1 .. len + 1 /\ i + j <= Len(r)
      BY <1>8, <2>4, <2>6
    <3> QED BY <2>5, <2>8, <3>1
  <2>10. ASSUME i + len < Len(r)
         PROVE  r[i + len + 1].part = 0 /\ r[i + len + 1].no = r[i].no + 1
    <3>1. /\ len + 1 \in 1 .. len + 1 /\ i + (len + 1) <= Len(r) /\ m + len < Len(c)
          /\ i + (len + 1) = i + len + 1 /\ m + (len + 1) = m + len + 1
      BY <1>3, <1>6, <1>8, <2>1, <2>2, <2>4, <2>10
    <3> QED BY <2>5, <2>8, <3>1
  <2> QED BY <2>3, <2>6, <2>9, <2>10
<1>11. Whole(r)
  BY <1>8, <1>9, <1>10 DEF Whole
<1> QED BY <1>0, <1>1, <1>6, <1>8, <1>11

\* f comes after the last frame in c, and w is c with the record of f behind it.
MayFollow(c, f) ==
  /\ Whole(c) /\ f \in Frame /\ f.len + 1 <= Cap
  /\ c # <<>> => c[Len(c)].no + 1 = f.no
WithRecord(c, f) == (c \o <<Cell(f, 0)>>) \o Body(f)
Extends(w, c, f) ==
  /\ Whole(w)
  /\ Len(w) = Len(c) + f.len + 1
  /\ w[Len(w)].no = f.no
  /\ \A i \in 1 .. Len(c) : w[i] = c[i]
  /\ \A i \in Len(c) + 1 .. Len(w) : w[i] = Cell(f, i - Len(c) - 1)

\* With the record of the next frame behind it a ring of records is one.
LEMMA WholeAppend == \A c, f : MayFollow(c, f) => Extends(WithRecord(c, f), c, f)
PROOF
<1>0. SUFFICES ASSUME NEW c, NEW f, MayFollow(c, f)
               PROVE  Extends(WithRecord(c, f), c, f)
  OBVIOUS
<1>12. PICK w, n, len : w = WithRecord(c, f) /\ n = Len(c) /\ len = f.len
  OBVIOUS
<1>1. /\ Whole(c) /\ f \in Frame /\ f.len + 1 <= Cap /\ n = Len(c) /\ len = f.len
      /\ c # <<>> => c[Len(c)].no + 1 = f.no
      /\ w = (c \o <<Cell(f, 0)>>) \o Body(f)
  BY <1>0, <1>12 DEF MayFollow, WithRecord
<1>2. len \in Nat /\ len > 0 /\ len <= Cap /\ f.no \in Nat
  BY <1>1, RtmpAssumption DEF Frame
<1>3. c \in Seq(Byte)
  BY <1>1 DEF Whole
<1>4. /\ n \in Nat /\ (c # <<>> <=> n >= 1)
      /\ \A i \in 1 .. n : c[i] \in Byte
  BY <1>1, <1>3, SeqFacts
<1>5. \A j \in 0 .. len : /\ Cell(f, j) \in Byte /\ Cell(f, j).no = f.no
                          /\ Cell(f, j).len = len /\ Cell(f, j).part = j
  <2>1. \A j \in 0 .. len : j \in 0 .. Cap
    BY <1>2, RtmpAssumption
  <2> QED BY <1>1, <2>1, CellIsByte
<1>6. Body(f) \in Seq(Byte) /\ Len(Body(f)) = len /\ \A j \in 1 .. len : Body(f)[j] = Cell(f, j)
  <2>1. \A j \in 1 .. len : j \in 0 .. len
    BY <1>2
  <2>2. Body(f) = [j \in 1 .. len |-> Cell(f, j)]
    BY <1>1 DEF Body
  <2>3. Body(f) \in [1 .. len -> Byte]
    BY <1>5, <2>1, <2>2
  <2> QED BY <1>2, <2>2, <2>3
<1>7. /\ w \in Seq(Byte) /\ Len(w) = n + len + 1 /\ w[n + 1] = Cell(f, 0)
      /\ \A i \in 1 .. n : w[i] = c[i]
      /\ \A i \in n + 1 .. Len(w) : w[i] = Cell(f, i - n - 1)
  <2>1. PICK h : h = c \o <<Cell(f, 0)>>
    OBVIOUS
  <2>2. Cell(f, 0) \in Byte
    BY <1>2, <1>5
  <2>3. /\ h \in Seq(Byte) /\ Len(h) = n + 1 /\ h[n + 1] = Cell(f, 0)
        /\ \A i \in 1 .. n : h[i] = c[i]
    BY <1>1, <1>3, <1>4, <2>1, <2>2
  <2>4. PICK b : b = Body(f)
    OBVIOUS
  <2>5. b \in Seq(Byte) /\ Len(b) = len /\ w = h \o b
    BY <1>1, <1>6, <2>1, <2>4
  <2>6. /\ w \in Seq(Byte) /\ Len(w) = (n + 1) + len
        /\ \A i \in 1 .. n + 1 : w[i] = h[i]
        /\ \A i \in 1 .. len : w[n + 1 + i] = b[i]
    <3>1. /\ w \in Seq(Byte) /\ Len(w) = Len(h) + Len(b)
          /\ \A i \in 1 .. Len(h) : w[i] = h[i]
          /\ \A i \in 1 .. Len(b) : w[Len(h) + i] = b[i]
      <4>1. h \in Seq(Byte) /\ b \in Seq(Byte) /\ w = h \o b
        BY <2>3, <2>5
      <4> QED BY <4>1, ConcatFacts
    <3> QED BY <2>3, <2>5, <3>1
  <2>7. Len(w) = n + len + 1
    BY <1>2, <1>4, <2>6
  <2>8. \A i \in 1 .. n : w[i] = c[i]
    <3>1. \A i \in 1 .. n : i \in 1 .. n + 1
      BY <1>4
    <3> QED BY <2>3, <2>6, <3>1
  <2>9. ASSUME NEW i \in n + 1 .. Len(w) PROVE w[i] = Cell(f, i - n - 1)
    <3>1. CASE i = n + 1
      <4>1. i \in 1 .. n + 1 /\ i - n - 1 = 0
        BY <1>4, <3>1
      <4> QED BY <2>3, <2>6, <3>1, <4>1
    <3>2. CASE i # n + 1
      <4>1. PICK j : j = i - n - 1
        OBVIOUS
      <4>2. j \in 1 .. len /\ n + 1 + j = i
        BY <1>2, <1>4, <2>7, <3>2, <4>1
      <4> QED BY <1>6, <2>4, <2>6, <4>1, <4>2
    <3> QED BY <3>1, <3>2
  <2>10. w[n + 1] = Cell(f, 0)
    <3>1. n + 1 \in 1 .. n + 1
      BY <1>4
    <3> QED BY <2>3, <2>6, <3>1
  <2> QED BY <2>6, <2>7, <2>8, <2>9, <2>10
<1>8. w[1].part = 0
  <2>1. CASE n = 0
    <3>1. 1 \in n + 1 .. Len(w) /\ 1 - n - 1 = 0 /\ 0 \in 0 .. len
      BY <1>2, <1>7, <2>1
    <3> QED BY <1>5, <1>7, <3>1
  <2>2. CASE n > 0
    <3>1. 1 \in 1 .. n /\ c # <<>>
      BY <1>4, <2>2
    <3> QED BY <1>1, <1>7, <3>1 DEF Whole
  <2> QED BY <1>4, <2>1, <2>2
<1>9. \A i \in n + 1 .. Len(w) : i - n - 1 \in 0 .. len /\ w[i].part = i - n - 1
  <2>1. \A i \in n + 1 .. Len(w) : i - n - 1 \in 0 .. len
    BY <1>2, <1>4, <1>7
  <2> QED BY <1>5, <1>7, <2>1
<1>10. ASSUME NEW i \in 1 .. Len(w), w[i].part = 0
       PROVE  /\ i + w[i].len <= Len(w)
              /\ \A j \in 1 .. w[i].len : w[i + j] = Cell(w[i], j)
              /\ i + w[i].len < Len(w) =>
                   w[i + w[i].len + 1].part = 0 /\ w[i + w[i].len + 1].no = w[i].no + 1
  <2>1. PICK l : l = w[i].len
    OBVIOUS
  <2>2. CASE i \in 1 .. n
    <3>1. w[i] = c[i] /\ c[i] \in Byte
      BY <1>4, <1>7, <2>2
    <3>2. l \in Nat /\ l > 0
      BY <2>1, <3>1, ByteFields
    <3>3. /\ i + l <= n
          /\ \A j \in 1 .. l : c[i + j] = Cell(w[i], j)
          /\ i + l < n => c[i + l + 1].part = 0 /\ c[i + l + 1].no = w[i].no + 1
      BY <1>1, <1>10, <2>1, <2>2, <3>1 DEF Whole
    <3>4. \A j \in 1 .. l : w[i + j] = Cell(w[i], j)
      <4>1. \A j \in 1 .. l : i + j \in 1 .. n
        BY <1>4, <2>2, <3>2, <3>3
      <4> QED BY <1>7, <3>3, <4>1
    <3>5. CASE i + l < n
      <4>1. i + l + 1 \in 1 .. n
        BY <1>4, <2>2, <3>2, <3>5
      <4>2. w[i + l + 1].part = 0 /\ w[i + l + 1].no = w[i].no + 1
        BY <1>7, <3>3, <3>5, <4>1
      <4>3. i + l <= Len(w)
        BY <1>2, <1>4, <1>7, <2>2, <3>2, <3>3
      <4> QED BY <2>1, <3>4, <4>2, <4>3
    <3>6. CASE i + l = n
      <4>1. i + l + 1 = n + 1 /\ n + 1 \in n + 1 .. Len(w) /\ 0 \in 0 .. len
        BY <1>2, <1>4, <1>7, <2>2, <3>2, <3>6
      <4>2. w[i + l + 1] = Cell(f, 0)
        BY <1>7, <4>1
      <4>3. l \in 1 .. l /\ c # <<>>
        BY <1>4, <2>2, <3>2
      <4>4. c[n] = Cell(w[i], l)
        BY <3>3, <3>6, <4>3
      <4>5. c[n].no = w[i].no
        BY <4>4 DEF Cell
      <4>6. w[i + l + 1].part = 0 /\ w[i + l + 1].no = f.no
        BY <1>5, <4>1, <4>2
      <4>7. w[i].no + 1 = f.no
        BY <1>1, <4>3, <4>5
      <4>8. i + l <= Len(w)
        BY <1>2, <1>4, <1>7, <3>6
      <4> QED BY <2>1, <3>4, <4>6, <4>7, <4>8
    <3> QED BY <1>4, <2>2, <3>2, <3>3, <3>5, <3>6
  <2>3. CASE i \notin 1 .. n
    <3>1. i \in n + 1 .. Len(w)
      BY <1>2, <1>4, <1>7, <2>3
    <3>2. i - n - 1 = 0
      BY <1>9, <1>10, <3>1
    <3>3. i = n + 1 /\ 0 \in 0 .. len
      BY <1>2, <1>4, <3>1, <3>2
    <3>4. w[i] = Cell(f, 0) /\ l = len
      BY <1>5, <1>7, <2>1, <3>1, <3>2, <3>3
    <3>5. i + l = Len(w)
      BY <1>2, <1>4, <1>7, <3>3, <3>4
    <3>6. ASSUME NEW j \in 1 .. l PROVE w[i + j] = Cell(w[i], j)
      <4>1. i + j \in n + 1 .. Len(w) /\ (i + j) - n - 1 = j
        BY <1>2, <1>4, <1>7, <3>3, <3>4
      <4>2. w[i + j] = Cell(f, j)
        <5>1. PICK m : m = i + j
          OBVIOUS
        <5>2. m \in n + 1 .. Len(w) /\ m - n - 1 = j
          BY <4>1, <5>1
        <5>3. w[m] = Cell(f, m - n - 1)
          BY <1>7, <5>2
        <5> QED BY <5>1, <5>2, <5>3
      <4> QED BY <3>4, <4>2 DEF Cell
    <3>7. ~(i + l < Len(w))
      BY <1>2, <1>4, <1>7, <3>5
    <3>8. i + l <= Len(w)
      BY <1>2, <1>4, <1>7, <3>5
    <3> QED BY <2>1, <3>6, <3>7, <3>8
  <2> QED BY <2>2, <2>3
<1>11. w[Len(w)].no = f.no
  <2>1. Len(w) \in n + 1 .. Len(w) /\ Len(w) - n - 1 = len /\ len \in 0 .. len
    BY <1>2, <1>4, <1>7
  <2>2. w[Len(w)] = Cell(f, len)
    BY <1>7, <2>1
  <2> QED BY <1>5, <2>1, <2>2
<1>13. Whole(w)
  BY <1>7, <1>8, <1>10 DEF Whole
<1> QED BY <1>1, <1>7, <1>11, <1>12, <1>13 DEF Extends

-----------------------------------------------------------------------------
(* Records in the ring, from the theorems about StreamBuf.                  *)

USE DEF Buf!Index, BufP!Index

\* InputAppends, for the ring of a session
LEMMA RingInput ==
  ASSUME NEW r \in Buf!Ring, NEW s \in Seq(Byte), Len(s) <= Buf!RemainLen(r)
  PROVE  /\ Buf!InputData(r, s) \in Buf!Ring
         /\ Buf!Contents(Buf!InputData(r, s)) = Buf!Contents(r) \o s
PROOF
<1>1. r \in BufP!Ring /\ Len(s) <= BufP!RemainLen(r)
  BY DEF Buf!Ring, BufP!Ring, Buf!RemainLen, BufP!RemainLen
<1>2. /\ BufP!InputData(r, s) \in BufP!Ring
      /\ BufP!Contents(BufP!InputData(r, s)) = BufP!Contents(r) \o s
  BY <1>1, BufP!InputAppends, RtmpAssumption
<1>3. Buf!InputData(r, s) = BufP!InputData(r, s)
  BY DEF Buf!InputData, BufP!InputData, Buf!PartOf, BufP!PartOf, Buf!DataEnd, BufP!DataEnd,
         Buf!RemainLen, BufP!RemainLen
<1>4. \A q : Buf!Contents(q) = BufP!Contents(q)
  BY DEF Buf!Contents, BufP!Contents, Buf!CopyData, BufP!CopyData, Buf!ReadAt, BufP!ReadAt
<1> QED BY <1>2, <1>3, <1>4 DEF Buf!Ring, BufP!Ring

\* GetRemovesFront, for the ring of a session
LEMMA RingGet ==
  ASSUME NEW r \in Buf!Ring, NEW n \in 0 .. r.len
  PROVE  /\ Buf!GetData(r, n) \in Buf!Ring
         /\ Buf!GetData(r, n).len = r.len - n
         /\ Buf!Contents(Buf!GetData(r, n)) = [i \in 1 .. r.len - n |-> Buf!Contents(r)[n + i]]
PROOF
<1>1. r \in BufP!Ring /\ n \in Nat
  BY DEF Buf!Ring, BufP!Ring
<1>2. /\ BufP!GetData(r, n) \in BufP!Ring
      /\ BufP!Contents(BufP!GetData(r, n)) = [i \in 1 .. r.len - n |-> BufP!Contents(r)[n + i]]
  BY <1>1, BufP!GetRemovesFront, BufP!GetDataType, RtmpAssumption
<1>3. Buf!GetData(r, n) = BufP!GetData(r, n)
  BY DEF Buf!GetData, BufP!GetData
<1>4. \A q : Buf!Contents(q) = BufP!Contents(q)
  BY DEF Buf!Contents, BufP!Contents, Buf!CopyData, BufP!CopyData, Buf!ReadAt, BufP!ReadAt
<1>5. Buf!GetData(r, n).len = r.len - n
  BY <1>1 DEF Buf!GetData, Buf!Ring
<1> QED BY <1>2, <1>3, <1>4, <1>5 DEF Buf!Ring, BufP!Ring

\* What copy_data shows is the front.
LEMMA RingCopy ==
  ASSUME NEW r \in Buf!Ring
  PROVE  /\ Buf!Contents(r) = Buf!CopyData(r, r.len)
         /\ r.len \in Nat /\ r.len <= Cap
         /\ \A n \in 0 .. r.len : \A i \in 1 .. n :
              Buf!CopyData(r, n)[i] = Buf!Contents(r)[i]
PROOF
<1>1. r.len \in 0 .. Cap
  BY DEF Buf!Ring
<1>2. r.len \in Nat /\ r.len <= Cap
  BY <1>1, RtmpAssumption
<1>3. \A n \in 0 .. r.len : \A i \in 1 .. n : i \in 1 .. r.len
  BY <1>2
<1> QED BY <1>2, <1>3 DEF Buf!Contents, Buf!CopyData

\* input_one_nalu of a slice: the record goes behind the others.
LEMMA StoreRecord ==
  ASSUME NEW r \in Buf!Ring, NEW c, c = Buf!Contents(r), Whole(c),
         NEW f \in Frame, Buf!RemainLen(r) >= f.len + 1,
         c # <<>> => c[Len(c)].no + 1 = f.no,
         NEW w, w = Buf!InputData(Buf!InputData(r, <<Cell(f, 0)>>), Body(f)),
         NEW e, e = Buf!Contents(w)
  PROVE  w \in Buf!Ring /\ Extends(e, c, f)
PROOF
<1>1. /\ r.len \in Nat /\ r.len <= Cap /\ c = Buf!CopyData(r, r.len)
      /\ Cap \in Nat /\ f.len \in Nat /\ f.len > 0 /\ f.len + 1 <= Cap - r.len
  <2>1. f.len \in BodyLen
    BY DEF Frame
  <2>2. f.len \in Nat \ {0} /\ Cap \in Nat
    BY <2>1, RtmpAssumption
  <2>3. r.len \in Nat /\ r.len <= Cap /\ c = Buf!CopyData(r, r.len)
    BY RingCopy
  <2>4. f.len + 1 <= Cap - r.len
    BY <2>2, <2>3 DEF Buf!RemainLen
  <2> QED BY <2>2, <2>3, <2>4
<1>2. Len(c) = r.len
  BY <1>1 DEF Buf!CopyData
<1>3. /\ Cell(f, 0) \in Byte /\ Body(f) \in Seq(Byte) /\ Len(Body(f)) = f.len
  <2>1. 0 \in 0 .. Cap /\ \A j \in 1 .. f.len : j \in 0 .. Cap
    BY <1>1
  <2>2. Cell(f, 0) \in Byte /\ \A j \in 1 .. f.len : Cell(f, j) \in Byte
    BY <2>1, CellIsByte
  <2>3. Body(f) = [j \in 1 .. f.len |-> Cell(f, j)]
    BY DEF Body
  <2>4. Body(f) \in [1 .. f.len -> Byte]
    BY <2>2, <2>3
  <2> QED BY <1>1, <2>2, <2>3, <2>4
<1>4. PICK q : q = Buf!InputData(r, <<Cell(f, 0)>>)
  OBVIOUS
<1>5. q \in Buf!Ring /\ Buf!Contents(q) = c \o <<Cell(f, 0)>>
  <2>1. <<Cell(f, 0)>> \in Seq(Byte) /\ Len(<<Cell(f, 0)>>) = 1
    BY <1>3
  <2>2. Len(<<Cell(f, 0)>>) <= Buf!RemainLen(r)
    BY <1>1, <2>1 DEF Buf!RemainLen
  <2> QED BY <1>4, <2>1, <2>2, RingInput
<1>6. q.len = r.len + 1
  <2>1. Buf!Contents(q) = Buf!CopyData(q, q.len) /\ q.len \in Nat
    BY <1>5, RingCopy
  <2>2. Len(Buf!Contents(q)) = q.len
    BY <2>1 DEF Buf!CopyData
  <2>3. c \in Seq(Byte) /\ <<Cell(f, 0)>> \in Seq(Byte) /\ Len(<<Cell(f, 0)>>) = 1
    BY <1>3 DEF Whole
  <2>4. Len(c \o <<Cell(f, 0)>>) = Len(c) + 1
    BY <2>3, ConcatFacts
  <2> QED BY <1>2, <1>5, <2>2, <2>4
<1>7. w \in Buf!Ring /\ e = (c \o <<Cell(f, 0)>>) \o Body(f)
  <2>1. Len(Body(f)) <= Buf!RemainLen(q)
    BY <1>1, <1>3, <1>6 DEF Buf!RemainLen
  <2> QED BY <1>3, <1>4, <1>5, <2>1, RingInput
<1>8. f.len + 1 <= Cap
  BY <1>1
<1>9. MayFollow(c, f) /\ e = WithRecord(c, f)
  BY <1>7, <1>8 DEF MayFollow, WithRecord
<1> QED BY <1>7, <1>9, WholeAppend

\* on_process: the record that is taken out is the first, as it was put in.
FirstHead(r) == Buf!CopyData(r, 1)[1]
FirstBody(r) == Buf!CopyData(Buf!GetData(r, 1), FirstHead(r).len)
WithoutFirst(r) == Buf!GetData(Buf!GetData(r, 1), FirstHead(r).len)

LEMMA TakeRecord ==
  ASSUME NEW r \in Buf!Ring, Whole(Buf!Contents(r)), r.len >= 1
  PROVE  /\ Buf!Contents(r) # <<>> /\ FirstHead(r) = Buf!Contents(r)[1]
         /\ FirstHead(r) \in Byte /\ FirstHead(r).part = 0
         /\ FirstBody(r) = Body(FirstHead(r))
         /\ WithoutFirst(r) \in Buf!Ring
         /\ Buf!Contents(WithoutFirst(r)) = Rest(Buf!Contents(r))
PROOF
<1> PICK c, head, body, w, e :
      /\ c = Buf!Contents(r)
      /\ head = FirstHead(r) /\ head = Buf!CopyData(r, 1)[1]
      /\ body = FirstBody(r) /\ body = Buf!CopyData(Buf!GetData(r, 1), head.len)
      /\ w = WithoutFirst(r) /\ w = Buf!GetData(Buf!GetData(r, 1), head.len)
      /\ e = Buf!Contents(w)
  BY DEF FirstHead, FirstBody, WithoutFirst
<1>1. /\ r.len \in Nat /\ r.len <= Cap /\ c = Buf!CopyData(r, r.len)
      /\ Cap \in Nat /\ c \in Seq(Byte)
  BY RingCopy, RtmpAssumption DEF Whole
<1>2. Len(c) = r.len /\ c # <<>> /\ c[1] \in Byte /\ c[1].part = 0
  <2>1. Len(c) = r.len
    BY <1>1 DEF Buf!CopyData
  <2>2. c # <<>> /\ 1 \in 1 .. Len(c)
    BY <1>1, <2>1
  <2> QED BY <1>1, <2>1, <2>2, SeqFacts DEF Whole
<1>3. head = c[1]
  <2>1. 1 \in 0 .. r.len /\ 1 \in 1 .. 1
    BY <1>1
  <2> QED BY <2>1, RingCopy
<1>4. head.len \in Nat /\ head.len > 0 /\ head.len + 1 <= r.len
  <2>1. 1 \in 1 .. Len(c)
    BY <1>1, <1>2
  <2>2. 1 + c[1].len <= Len(c)
    BY <1>2, <2>1 DEF Whole
  <2>3. head.len \in Nat /\ head.len > 0
    BY <1>2, <1>3, ByteFields
  <2> QED BY <1>1, <1>2, <1>3, <2>2, <2>3
<1>5. PICK q : q = Buf!GetData(r, 1)
  OBVIOUS
<1>6. /\ q \in Buf!Ring /\ q.len = r.len - 1
      /\ Buf!Contents(q) = [i \in 1 .. r.len - 1 |-> c[1 + i]]
  <2>1. 1 \in 0 .. r.len
    BY <1>1
  <2> QED BY <1>5, <2>1, RingGet
<1>7. head.len \in 0 .. q.len
  BY <1>1, <1>4, <1>6
<1>8. body = Body(head)
  <2>1. body = Buf!CopyData(q, head.len)
    BY <1>5
  <2>2. body = [i \in 1 .. head.len |-> Buf!ReadAt(q, i)]
    BY <2>1 DEF Buf!CopyData
  <2>3. ASSUME NEW i \in 1 .. head.len PROVE body[i] = Cell(head, i)
    <3>1. body[i] = Buf!Contents(q)[i]
      BY <1>6, <1>7, <2>1, RingCopy
    <3>2. i \in 1 .. r.len - 1
      BY <1>1, <1>4
    <3>3. body[i] = c[1 + i]
      BY <1>6, <3>1, <3>2
    <3>4. 1 \in 1 .. Len(c)
      BY <1>1, <1>2
    <3>5. \A j \in 1 .. c[1].len : c[1 + j] = Cell(c[1], j)
      BY <1>2, <3>4 DEF Whole
    <3> QED BY <1>3, <3>3, <3>5
  <2>4. body = [i \in 1 .. head.len |-> Cell(head, i)]
    BY <2>2, <2>3
  <2> QED BY <2>4 DEF Body
<1>9. /\ w \in Buf!Ring
      /\ e = [i \in 1 .. q.len - head.len |-> Buf!Contents(q)[head.len + i]]
  <2>1. w = Buf!GetData(q, head.len)
    BY <1>5
  <2>2. /\ Buf!GetData(q, head.len) \in Buf!Ring
        /\ Buf!Contents(Buf!GetData(q, head.len))
             = [i \in 1 .. q.len - head.len |-> Buf!Contents(q)[head.len + i]]
    BY <1>6, <1>7, RingGet
  <2> QED BY <2>1, <2>2
<1>10. e = [i \in 1 .. Len(c) - (c[1].len + 1) |-> c[c[1].len + 1 + i]]
  <2>1. q.len - head.len = Len(c) - (c[1].len + 1)
    BY <1>1, <1>2, <1>3, <1>4, <1>6
  <2>2. ASSUME NEW i \in 1 .. q.len - head.len
        PROVE  Buf!Contents(q)[head.len + i] = c[c[1].len + 1 + i]
    <3>1. PICK m : m = head.len + i
      OBVIOUS
    <3>2. m \in 1 .. r.len - 1
      BY <1>1, <1>4, <1>6, <3>1
    <3>3. Buf!Contents(q)[m] = c[1 + m]
      BY <1>6, <3>2
    <3>4. 1 + m = head.len + 1 + i
      BY <1>4, <3>1
    <3> QED BY <1>3, <3>1, <3>3, <3>4
  <2> QED BY <1>9, <2>1, <2>2
<1> QED BY <1>2, <1>3, <1>8, <1>9, <1>10 DEF Rest

-----------------------------------------------------------------------------
(* The initial states, and what a step leaves alone.                        *)

SessionType ==
  [on : BOOLEAN, rtmp : {"none", "open", "closed"}, sps : 0 .. MaxFrame,
   pps : 0 .. MaxFrame, ring : Buf!Ring, key : BOOLEAN,
   pc : {"none", "check", "take", "config", "aac", "send", "done"},
   cur : [head : Byte \cup {NoByte}, body : Seq(Byte)], sending : BOOLEAN]

SentType == Seq([kind : {"config", "key", "p"}, no : 1 .. MaxFrame])

MgrType ==
  [pc : {"free", "loop", "nalus", "stop", "close", "join"},
   job : {"none", "post", "delete"}, frame : Frame \cup {NoFrame},
   todo : SUBSET Dest, dest : Dest \cup {NoDest},
   nalus : Seq({"sps", "pps", "slice"})]

\* TypeOK in parts
LEMMA TypeParts ==
  /\ TypeOK <=> /\ sess \in [Dest -> SessionType]
                /\ reg \subseteq Dest
                /\ mgr \in MgrType
                /\ count \in [Stream -> 0 .. MaxFrame]
                /\ sent \in [Dest -> SentType]
  /\ TypeOK' <=> /\ sess' \in [Dest -> SessionType]
                 /\ reg' \subseteq Dest
                 /\ mgr' \in MgrType
                 /\ count' \in [Stream -> 0 .. MaxFrame]
                 /\ sent' \in [Dest -> SentType]
  BY DEF TypeOK, SessionType, MgrType, SentType

LEMMA NewSession ==
  /\ NoSession \in SessionType
  /\ Buf!Contents(NoSession.ring) = <<>> /\ Whole(<<>>)
  /\ FreeMgr \in MgrType
PROOF
<1>1. Cap \in Nat /\ Cap > 0 /\ 0 \in 0 .. Cap
  BY RtmpAssumption
<1>2. Buf!EmptyRing \in Buf!Ring
  BY <1>1 DEF Buf!EmptyRing, Buf!Ring
<1>3. <<>> \in Seq(Byte) /\ Len(<<>>) = 0
  OBVIOUS
<1>4. NoSession \in SessionType
  <2>1. 0 \in 0 .. MaxFrame
    BY RtmpAssumption
  <2> QED BY <1>2, <1>3, <2>1 DEF NoSession, SessionType, NoRecord
<1>5. Buf!Contents(NoSession.ring) = <<>>
  BY DEF NoSession, Buf!EmptyRing, Buf!Contents, Buf!CopyData
<1>6. Whole(<<>>)
  BY <1>3 DEF Whole
<1>7. FreeMgr \in MgrType
  BY DEF FreeMgr, MgrType
<1> QED BY <1>4, <1>5, <1>6, <1>7

LEMMA RInvInitially == Init => RInv
PROOF
<1>1. SUFFICES ASSUME Init PROVE RInv
  OBVIOUS
<1>2. TypeOK
  <2>1. <<>> \in SentType
    BY DEF SentType
  <2>2. \A s \in Stream : 0 \in 0 .. MaxFrame
    BY RtmpAssumption
  <2> QED BY <1>1, <2>1, <2>2, NewSession, TypeParts DEF Init
<1>3. Serving
  BY <1>1 DEF Init, Serving, FreeMgr
<1>4. ASSUME NEW d \in Dest PROVE SessionInv(d)
  <2>1. sess[d] = NoSession /\ sent[d] = <<>> /\ reg = {} /\ mgr = FreeMgr
    BY <1>1 DEF Init
  <2>2. InRing(d) = <<>> /\ Whole(InRing(d))
    BY <2>1, NewSession DEF InRing
  <2>3. Living(d) /\ InHand(d) /\ Continuous(d) /\ Begun(d)
    BY <2>1 DEF Living, InHand, Continuous, Connected, Begun, NoSession, FreeMgr
  <2>4. Configured(d)
    BY <2>1, <2>2 DEF Configured, NoSession
  <2>5. Decodable(sent[d])
    BY <2>1 DEF Decodable
  <2> QED BY <2>2, <2>3, <2>4, <2>5 DEF SessionInv
<1> QED BY <1>2, <1>3, <1>4 DEF RInv

\* A session whose object and output a step leaves alone stays as it is, when
\* the last frame that was given to it is the same.
LEMMA Untouched ==
  ASSUME NEW d \in Dest, SessionInv(d), sess'[d] = sess[d], sent'[d] = sent[d],
         d \in reg' <=> d \in reg,
         mgr'.pc \in {"close", "join"} /\ mgr'.dest = d => ~sess[d].on,
         Connected(d) => LastNo(d)' = LastNo(d),
         count[StreamOf[d]] \in Nat, count'[StreamOf[d]] \in Nat,
         count[StreamOf[d]] <= count'[StreamOf[d]]
  PROVE  SessionInv(d)'
PROOF
<1>1. InRing(d)' = InRing(d) /\ LastSent(d)' = LastSent(d) /\ (Connected(d)' <=> Connected(d))
  BY DEF InRing, LastSent, Connected
<1>2. \A no : (SentUpTo(d, no)' <=> SentUpTo(d, no)) /\ (Introduced(d, no)' <=> Introduced(d, no))
  BY <1>1 DEF SentUpTo, Introduced
<1>3. Connected(d) => NextNo(d)' = NextNo(d)
  BY <1>1 DEF NextNo
<1>4. Living(d)'
  BY DEF SessionInv, Living
<1>5. Continuous(d)'
  BY <1>1, <1>2, <1>3 DEF SessionInv, Continuous
<1>6. InHand(d)' /\ Begun(d)'
  BY DEF SessionInv, InHand, Begun
<1>7. Configured(d)'
  <2>1. ASSUME NEW b \in Byte, Covered(d, b) PROVE Covered(d, b)'
    <3>1. b.no \in Nat
      BY ByteFields, RtmpAssumption
    <3> QED BY <2>1, <3>1 DEF Covered
  <2>2. \A i \in 1 .. Len(InRing(d)) : InRing(d)[i] \in Byte
    BY SeqFacts DEF SessionInv, Whole
  <2>3. sess[d].pc = "config" => sess[d].cur.head \in Byte
    BY DEF SessionInv, InHand
  <2> QED BY <1>1, <2>1, <2>2, <2>3 DEF SessionInv, Configured
<1>8. Decodable(sent[d])' /\ Whole(InRing(d))'
  BY <1>1 DEF SessionInv
<1> QED BY <1>4, <1>5, <1>6, <1>7, <1>8 DEF SessionInv

-----------------------------------------------------------------------------
(* The calls of the manager that leave the session objects alone.           *)

\* What RInv says of the state.
LEMMA Known ==
  ASSUME RInv
  PROVE  /\ sess \in [Dest -> SessionType] /\ reg \subseteq Dest /\ mgr \in MgrType
         /\ count \in [Stream -> 0 .. MaxFrame] /\ sent \in [Dest -> SentType]
         /\ Serving
         /\ \A d \in Dest : SessionInv(d) /\ sess[d] \in SessionType /\ sent[d] \in SentType
         /\ \A d \in Dest : StreamOf[d] \in Stream /\ count[StreamOf[d]] \in 0 .. MaxFrame
         /\ \A d \in Dest : count[StreamOf[d]] \in Nat /\ count[StreamOf[d]] <= count[StreamOf[d]]
         /\ \A d \in Dest : d # NoDest
PROOF
<1>1. sess \in [Dest -> SessionType] /\ reg \subseteq Dest /\ mgr \in MgrType
      /\ count \in [Stream -> 0 .. MaxFrame] /\ sent \in [Dest -> SentType]
  BY TypeParts DEF RInv
<1>2. \A d \in Dest : StreamOf[d] \in Stream /\ d # NoDest
  BY RtmpAssumption
<1>3. \A d \in Dest : count[StreamOf[d]] \in Nat /\ count[StreamOf[d]] <= count[StreamOf[d]]
  <2>1. \A d \in Dest : count[StreamOf[d]] \in 0 .. MaxFrame
    BY <1>1, <1>2
  <2> QED BY <2>1, RtmpAssumption
<1> QED BY <1>1, <1>2, <1>3 DEF RInv

\* Only sessions of the map are connected.
LEMMA ConnectedListed ==
  ASSUME NEW d \in Dest, SessionInv(d), Connected(d) PROVE d \in reg
  BY DEF SessionInv, Living, Connected

LEMMA DeleteStep ==
  ASSUME RInv, NEW S \in SUBSET Dest, Delete(S) PROVE RInv'
PROOF
<1>1. /\ mgr.pc = "free" /\ sess' = sess /\ reg' = reg /\ count' = count /\ sent' = sent
      /\ mgr' = [FreeMgr EXCEPT !.pc = "loop", !.job = "delete", !.todo = S \cap reg]
  BY DEF Delete
<1>2. /\ mgr'.pc = "loop" /\ mgr'.job = "delete" /\ mgr'.todo = S \cap reg /\ mgr'.dest = NoDest
      /\ mgr' \in MgrType
  <2>1. <<>> \in Seq({"sps", "pps", "slice"})
    OBVIOUS
  <2>2. mgr' = [pc |-> "loop", job |-> "delete", frame |-> NoFrame, todo |-> S \cap reg,
                dest |-> NoDest, nalus |-> <<>>]
    BY <1>1 DEF FreeMgr
  <2> QED BY <2>1, <2>2 DEF MgrType
<1>3. TypeOK'
  BY <1>1, <1>2, Known, TypeParts
<1>4. Serving'
  BY <1>1, <1>2 DEF Serving
<1>5. ASSUME NEW d \in Dest PROVE SessionInv(d)'
  <2>1. LastNo(d)' = LastNo(d)
    BY <1>1, <1>2, Known DEF LastNo, Pending, Serving
  <2> QED BY <1>1, <1>2, <2>1, Known, Untouched
<1> QED BY <1>3, <1>4, <1>5 DEF RInv

LEMMA PostStep ==
  ASSUME RInv, NEW s \in Stream, NEW kind \in {"key", "p"}, NEW len \in BodyLen,
         Post(s, kind, len)
  PROVE  RInv'
PROOF
<1>1. PICK f, S : f = [no |-> count[s] + 1, kind |-> kind, len |-> len]
                  /\ S = {d \in reg : StreamOf[d] = s}
  OBVIOUS
<1>2. /\ mgr.pc = "free" /\ count[s] < MaxFrame
      /\ sess' = sess /\ reg' = reg /\ sent' = sent
      /\ count' = [count EXCEPT ![s] = @ + 1]
      /\ mgr' = [FreeMgr EXCEPT !.pc = "loop", !.job = "post", !.frame = f, !.todo = S]
  BY <1>1 DEF Post
<1>3. count[s] \in Nat /\ count[s] + 1 \in 1 .. MaxFrame
  BY <1>2, Known, RtmpAssumption
<1>4. f \in Frame /\ f.no = count[s] + 1
  BY <1>1, <1>3 DEF Frame
<1>5. /\ count' \in [Stream -> 0 .. MaxFrame] /\ count'[s] = count[s] + 1
      /\ \A t \in Stream : t # s => count'[t] = count[t]
  <2>1. count[s] + 1 \in 0 .. MaxFrame
    BY <1>3
  <2> QED BY <1>2, <2>1, Known
<1>6. /\ mgr'.pc = "loop" /\ mgr'.job = "post" /\ mgr'.todo = S /\ mgr'.dest = NoDest
      /\ mgr'.frame = f /\ mgr' \in MgrType
  <2>1. S \subseteq Dest
    BY <1>1, Known
  <2>2. <<>> \in Seq({"sps", "pps", "slice"})
    OBVIOUS
  <2>3. mgr' = [pc |-> "loop", job |-> "post", frame |-> f, todo |-> S,
                dest |-> NoDest, nalus |-> <<>>]
    BY <1>2 DEF FreeMgr
  <2> QED BY <1>4, <2>1, <2>2, <2>3 DEF MgrType
<1>7. TypeOK'
  BY <1>2, <1>5, <1>6, Known, TypeParts
<1>8. Serving'
  <2>1. ASSUME NEW d \in Dest, d \in S \/ d = NoDest PROVE f.no = count'[StreamOf[d]]
    BY <1>1, <1>4, <1>5, <2>1, Known
  <2>2. mgr'.todo \subseteq reg'
    BY <1>1, <1>2, <1>6
  <2> QED BY <1>4, <1>6, <2>1, <2>2 DEF Serving
<1>9. ASSUME NEW d \in Dest PROVE SessionInv(d)'
  <2>1. ASSUME Connected(d) PROVE LastNo(d)' = LastNo(d)
    <3>1. d \in reg /\ ~Pending(d)
      BY <1>2, <2>1, Known, ConnectedListed DEF Pending, Serving
    <3>2. StreamOf[d] \in Stream /\ d # NoDest /\ LastNo(d) = count[StreamOf[d]]
      BY <3>1, Known DEF LastNo
    <3>3. CASE StreamOf[d] = s
      BY <1>1, <1>3, <1>5, <1>6, <3>1, <3>2, <3>3 DEF LastNo, Pending
    <3>4. CASE StreamOf[d] # s
      BY <1>1, <1>5, <1>6, <3>2, <3>4 DEF LastNo, Pending
    <3> QED BY <3>3, <3>4
  <2>2. count[StreamOf[d]] \in Nat /\ count'[StreamOf[d]] \in Nat
        /\ count[StreamOf[d]] <= count'[StreamOf[d]]
    <3>1. StreamOf[d] \in Stream /\ count[StreamOf[d]] \in Nat
      BY Known
    <3> QED BY <1>3, <1>5, <3>1
  <2> QED BY <1>2, <1>6, <2>1, <2>2, Known, Untouched
<1> QED BY <1>7, <1>8, <1>9 DEF RInv

LEMMA VisitStep == ASSUME RInv, Visit PROVE RInv'
PROOF
<1>1. /\ mgr.pc = "loop" /\ mgr.dest = NoDest /\ mgr.todo \subseteq reg
      /\ sess' = sess /\ reg' = reg /\ count' = count /\ sent' = sent
  BY Known DEF Visit, Serving
<1>2. ASSUME NEW d \in mgr.todo,
             mgr' = [mgr EXCEPT !.dest = d, !.todo = @ \ {d},
                       !.pc = IF mgr.job = "post" THEN "nalus" ELSE "stop",
                       !.nalus = IF mgr.job = "post" THEN Nalus(mgr.frame) ELSE <<>>]
      PROVE  RInv'
  <2>1. d \in reg /\ d \in Dest
    BY <1>1, Known
  <2>2. /\ mgr'.dest = d /\ mgr'.todo = mgr.todo \ {d} /\ mgr'.job = mgr.job
        /\ mgr'.frame = mgr.frame
        /\ mgr'.pc = IF mgr.job = "post" THEN "nalus" ELSE "stop"
        /\ mgr'.nalus = IF mgr.job = "post" THEN Nalus(mgr.frame) ELSE <<>>
    BY <1>2, Known DEF MgrType
  <2>3. mgr' \in MgrType
    <3>1. mgr'.nalus \in Seq({"sps", "pps", "slice"})
      <4>1. /\ <<"sps", "pps", "slice">> \in Seq({"sps", "pps", "slice"})
            /\ <<"slice">> \in Seq({"sps", "pps", "slice"})
            /\ <<>> \in Seq({"sps", "pps", "slice"})
        OBVIOUS
      <4> QED BY <2>2, <4>1 DEF Nalus
    <3> QED BY <1>2, <2>1, <3>1, Known DEF MgrType
  <2>4. TypeOK'
    BY <1>1, <2>3, Known, TypeParts
  <2>5. Serving'
    <3>1. mgr.job = "post" => mgr.frame \in Frame /\ mgr.frame.kind \in {"key", "p"}
      BY Known DEF Serving, Frame
    <3>2. mgr.job = "post" =>
            \A e \in Dest : e \in mgr'.todo \/ e = mgr'.dest =>
              mgr'.frame.no = count'[StreamOf[e]]
      BY <1>1, <2>1, <2>2, Known DEF Serving
    <3>3. mgr.job = "post" =>
            /\ mgr'.nalus \in {<<"sps", "pps", "slice">>, <<"slice">>}
            /\ mgr.frame.kind = "key" => mgr'.nalus = <<"sps", "pps", "slice">>
      BY <2>2 DEF Nalus
    <3>4. <<"sps", "pps", "slice">> # <<"slice">>
      OBVIOUS
    <3> QED BY <1>1, <2>1, <2>2, <3>1, <3>2, <3>3, <3>4 DEF Serving
  <2>6. ASSUME NEW e \in Dest PROVE SessionInv(e)'
    <3>1. LastNo(e)' = LastNo(e)
      BY <1>1, <2>2, Known DEF LastNo, Pending
    <3>2. mgr'.pc \notin {"close", "join"}
      BY <2>2
    <3> QED BY <1>1, <3>1, <3>2, Known, Untouched
  <2> QED BY <2>4, <2>5, <2>6 DEF RInv
<1>3. ASSUME mgr.todo = {}, mgr' = FreeMgr PROVE RInv'
  <2>1. /\ mgr'.pc = "free" /\ mgr'.job = "none" /\ mgr'.todo = {} /\ mgr'.dest = NoDest
        /\ mgr' \in MgrType
    BY <1>3, NewSession DEF FreeMgr
  <2>2. TypeOK'
    BY <1>1, <2>1, Known, TypeParts
  <2>3. Serving'
    BY <2>1 DEF Serving
  <2>4. ASSUME NEW e \in Dest PROVE SessionInv(e)'
    <3>1. LastNo(e)' = LastNo(e)
      BY <1>1, <1>3, <2>1, Known DEF LastNo, Pending
    <3> QED BY <1>1, <2>1, <3>1, Known, Untouched
  <2> QED BY <2>2, <2>3, <2>4 DEF RInv
<1> QED BY <1>2, <1>3 DEF Visit

-----------------------------------------------------------------------------
(* The calls of the manager that change a session.                          *)

\* A step that changes one session object
LEMMA OneChanged ==
  ASSUME RInv, NEW d \in Dest, NEW x \in SessionType, sess' = [sess EXCEPT ![d] = x]
  PROVE  /\ sess' \in [Dest -> SessionType] /\ sess'[d] = x
         /\ \A e \in Dest : e # d => sess'[e] = sess[e]
PROOF
<1>1. sess \in [Dest -> SessionType]
  BY Known
<1> QED BY <1>1

LEMMA CreateStep == ASSUME RInv, NEW d \in Dest, Create(d) PROVE RInv'
PROOF
<1>1. PICK x : x = [NoSession EXCEPT !.on = TRUE, !.rtmp = "open", !.pc = "check"]
  OBVIOUS
<1>2. /\ mgr.pc = "free" /\ d \notin reg
      /\ sess' = [sess EXCEPT ![d] = x] /\ sent' = sent
      /\ reg' = reg \cup {d} /\ mgr' = mgr /\ count' = count
  BY <1>1 DEF Create
<1>3. /\ x \in SessionType /\ x.on /\ x.rtmp = "open" /\ x.pc = "check"
      /\ ~x.key /\ x.ring = NoSession.ring /\ ~x.sending
  BY <1>1, NewSession DEF NoSession, SessionType
<1>4. /\ sess' \in [Dest -> SessionType] /\ sess'[d] = x
      /\ \A e \in Dest : e # d => sess'[e] = sess[e]
  BY <1>2, <1>3, OneChanged
<1>5. sent' \in [Dest -> SentType] /\ sent'[d] = <<>>
  BY <1>2, Known DEF SessionInv, Living
<1>6. TypeOK'
  BY <1>2, <1>4, <1>5, Known, TypeParts
<1>7. Serving'
  BY <1>2, Known DEF Serving
<1>8. ASSUME NEW e \in Dest PROVE SessionInv(e)'
  <2>1. CASE e # d
    <3>1. LastNo(e)' = LastNo(e)
      BY <1>2 DEF LastNo, Pending
    <3>2. sess'[e] = sess[e] /\ sent'[e] = sent[e] /\ (e \in reg' <=> e \in reg)
      BY <1>2, <1>4, <1>5, <2>1
    <3>3. mgr'.pc \notin {"close", "join"}
      BY <1>2
    <3> QED BY <1>2, <3>1, <3>2, <3>3, Known, Untouched
  <2>2. CASE e = d
    <3>1. InRing(d)' = <<>> /\ Whole(InRing(d))'
      BY <1>3, <1>4, NewSession DEF InRing
    <3>2. Living(d)'
      BY <1>2, <1>3, <1>4 DEF Living
    <3>3. InHand(d)' /\ Begun(d)' /\ Continuous(d)'
      BY <1>3, <1>4, <1>5, <3>1 DEF InHand, Begun, Continuous
    <3>4. Configured(d)'
      BY <1>3, <1>4, <3>1 DEF Configured
    <3>5. Decodable(sent[d])'
      BY <1>5 DEF Decodable
    <3> QED BY <2>2, <3>1, <3>2, <3>3, <3>4, <3>5 DEF SessionInv
  <2> QED BY <2>1, <2>2
<1> QED BY <1>6, <1>7, <1>8 DEF RInv

\* The session being stopped, and the others
LEMMA StopFrame ==
  ASSUME RInv, mgr.pc \in {"stop", "close"}, mgr'.pc \in {"close", "join"},
         mgr' = [mgr EXCEPT !.pc = mgr'.pc],
         sess'[mgr.dest] \in SessionType,
         sess' = [sess EXCEPT ![mgr.dest] = sess'[mgr.dest]],
         reg' = reg, count' = count, sent' = sent
  PROVE  /\ mgr'.dest = mgr.dest
         /\ TypeOK' /\ Serving'
         /\ \A e \in Dest : LastNo(e)' = LastNo(e) /\ (e # mgr.dest => SessionInv(e)')
PROOF
<1>1. mgr.dest \in reg \ mgr.todo /\ mgr.dest \in Dest /\ mgr.todo \subseteq reg
  BY Known DEF Serving
<1>2. /\ mgr'.dest = mgr.dest /\ mgr'.todo = mgr.todo /\ mgr'.job = mgr.job
      /\ mgr'.frame = mgr.frame /\ mgr' \in MgrType
  BY Known DEF MgrType
<1>3. /\ sess' \in [Dest -> SessionType]
      /\ \A e \in Dest : e # mgr.dest => sess'[e] = sess[e]
  BY <1>1, OneChanged
<1>4. TypeOK'
  BY <1>2, <1>3, Known, TypeParts
<1>5. Serving'
  BY <1>1, <1>2, Known DEF Serving
<1>6. ASSUME NEW e \in Dest PROVE LastNo(e)' = LastNo(e) /\ (e # mgr.dest => SessionInv(e)')
  <2>1. LastNo(e)' = LastNo(e)
    BY <1>2 DEF LastNo, Pending
  <2> QED BY <1>2, <1>3, <2>1, Known, Untouched
<1> QED BY <1>1, <1>2, <1>3, <1>4, <1>5, <1>6

LEMMA StopFlagStep == ASSUME RInv, StopFlag PROVE RInv'
PROOF
<1>1. PICK d, x : d = mgr.dest /\ x = [sess[d] EXCEPT !.on = FALSE]
  OBVIOUS
<1>2. d \in reg /\ d \in Dest /\ sess[d] \in SessionType /\ SessionInv(d)
  BY <1>1, Known DEF StopFlag, Serving
<1>3. /\ x \in SessionType /\ ~x.on /\ x.rtmp = sess[d].rtmp /\ x.pc = sess[d].pc
      /\ x.ring = sess[d].ring /\ x.key = sess[d].key /\ x.cur = sess[d].cur
      /\ x.sps = sess[d].sps /\ x.pps = sess[d].pps /\ x.sending = sess[d].sending
  BY <1>1, <1>2 DEF SessionType
<1>4. sess' = [sess EXCEPT ![d] = x]
  BY <1>1, Known DEF StopFlag, ClearStart
<1>5. /\ mgr.pc = "stop" /\ mgr' = [mgr EXCEPT !.pc = "close"]
      /\ reg' = reg /\ count' = count /\ sent' = sent
  BY DEF StopFlag
<1>6. /\ mgr'.pc = "close" /\ mgr'.dest = d /\ sess'[d] = x /\ TypeOK' /\ Serving'
      /\ LastNo(d)' = LastNo(d) /\ \A e \in Dest : e # d => SessionInv(e)'
  <2>1. sess'[d] = x /\ sess' = [sess EXCEPT ![mgr.dest] = sess'[mgr.dest]]
    BY <1>1, <1>2, <1>3, <1>4, OneChanged
  <2>2. mgr'.pc = "close" /\ mgr' = [mgr EXCEPT !.pc = mgr'.pc]
    BY <1>5, Known DEF MgrType
  <2>3. mgr.pc \in {"stop", "close"} /\ mgr'.pc \in {"close", "join"} /\ sess'[mgr.dest] \in SessionType
    BY <1>1, <1>3, <1>5, <2>1, <2>2
  <2> QED BY <1>1, <1>2, <1>5, <2>1, <2>2, <2>3, StopFrame
<1>7. /\ InRing(d)' = InRing(d) /\ LastSent(d)' = LastSent(d) /\ NextNo(d)' = NextNo(d)
      /\ Connected(d)' <=> Connected(d)
      /\ \A no : (SentUpTo(d, no)' <=> SentUpTo(d, no)) /\ (Introduced(d, no)' <=> Introduced(d, no))
  BY <1>3, <1>5, <1>6 DEF InRing, LastSent, NextNo, Connected, SentUpTo, Introduced
<1>8. Living(d)'
  BY <1>2, <1>3, <1>5, <1>6 DEF SessionInv, Living
<1>9. InHand(d)' /\ Begun(d)'
  BY <1>2, <1>3, <1>5, <1>6 DEF SessionInv, InHand, Begun
<1>10. Configured(d)'
  BY <1>2, <1>3, <1>5, <1>6, <1>7 DEF SessionInv, Configured, Covered
<1>11. Continuous(d)'
  BY <1>2, <1>3, <1>5, <1>6, <1>7 DEF SessionInv, Continuous
<1>12. Decodable(sent[d])' /\ Whole(InRing(d))'
  BY <1>2, <1>5, <1>7 DEF SessionInv
<1>13. SessionInv(d)'
  BY <1>8, <1>9, <1>10, <1>11, <1>12 DEF SessionInv
<1> QED BY <1>6, <1>13 DEF RInv

LEMMA StopCloseStep == ASSUME RInv, StopClose PROVE RInv'
PROOF
<1>1. PICK d, x : d = mgr.dest /\ x = [sess[d] EXCEPT !.rtmp = "closed"]
  OBVIOUS
<1>2. d \in reg /\ d \in Dest /\ sess[d] \in SessionType /\ SessionInv(d)
  BY <1>1, Known DEF StopClose, Serving
<1>3. /\ x \in SessionType /\ x.on = sess[d].on /\ x.rtmp = "closed" /\ x.pc = sess[d].pc
      /\ x.ring = sess[d].ring /\ x.key = sess[d].key /\ x.cur = sess[d].cur
      /\ x.sps = sess[d].sps /\ x.pps = sess[d].pps /\ x.sending = sess[d].sending
  BY <1>1, <1>2 DEF SessionType
<1>4. sess' = [sess EXCEPT ![d] = x]
  BY <1>1, Known DEF StopClose
<1>5. /\ mgr.pc = "close" /\ mgr' = [mgr EXCEPT !.pc = "join"]
      /\ reg' = reg /\ count' = count /\ sent' = sent
  BY DEF StopClose
<1>6. /\ mgr'.pc = "join" /\ mgr'.dest = d /\ sess'[d] = x /\ TypeOK' /\ Serving'
      /\ \A e \in Dest : e # d => SessionInv(e)'
  <2>1. sess'[d] = x /\ sess' = [sess EXCEPT ![mgr.dest] = sess'[mgr.dest]]
    BY <1>1, <1>2, <1>3, <1>4, OneChanged
  <2>2. mgr'.pc = "join" /\ mgr' = [mgr EXCEPT !.pc = mgr'.pc]
    BY <1>5, Known DEF MgrType
  <2>3. mgr.pc \in {"stop", "close"} /\ mgr'.pc \in {"close", "join"} /\ sess'[mgr.dest] \in SessionType
    BY <1>1, <1>3, <1>5, <2>1, <2>2
  <2> QED BY <1>1, <1>2, <1>5, <2>1, <2>2, <2>3, StopFrame
<1>7. InRing(d)' = InRing(d) /\ ~Connected(d)'
  BY <1>3, <1>6 DEF InRing, Connected
<1>8. Living(d)'
  BY <1>1, <1>2, <1>3, <1>5, <1>6 DEF SessionInv, Living
<1>9. InHand(d)' /\ Begun(d)' /\ Continuous(d)'
  BY <1>2, <1>3, <1>5, <1>6, <1>7 DEF SessionInv, InHand, Begun, Continuous
<1>10. Configured(d)'
  BY <1>2, <1>3, <1>5, <1>6, <1>7 DEF SessionInv, Configured, Covered
<1>11. Decodable(sent[d])' /\ Whole(InRing(d))'
  BY <1>2, <1>5, <1>7 DEF SessionInv
<1>12. SessionInv(d)'
  BY <1>8, <1>9, <1>10, <1>11 DEF SessionInv
<1> QED BY <1>6, <1>12 DEF RInv

LEMMA StopJoinStep == ASSUME RInv, StopJoin PROVE RInv'
PROOF
<1>1. PICK d, x : d = mgr.dest /\ x = Over(sess[d])
  OBVIOUS
<1>2. /\ d \in reg \ mgr.todo /\ d \in Dest /\ mgr.todo \subseteq reg
      /\ sess[d] \in SessionType /\ SessionInv(d) /\ mgr.pc = "join" /\ sess[d].pc = "done"
  BY <1>1, Known DEF StopJoin, Serving, Joined
<1>3. /\ x \in SessionType /\ ~x.on /\ x.rtmp = "none" /\ x.pc = "done"
      /\ x.ring = NoSession.ring /\ ~x.key /\ ~x.sending
  <2>1. ~sess[d].on /\ ~sess[d].sending
    BY <1>1, <1>2 DEF SessionInv, Living
  <2> QED BY <1>1, <1>2, <2>1, NewSession DEF Over, NoSession, SessionType
<1>4. /\ sess' = [sess EXCEPT ![d] = x] /\ sent' = [sent EXCEPT ![d] = <<>>]
      /\ reg' = reg \ {d} /\ count' = count
      /\ mgr' = [mgr EXCEPT !.pc = "loop", !.dest = NoDest]
  BY <1>1, <1>2, Known DEF StopJoin
<1>5. /\ mgr'.pc = "loop" /\ mgr'.dest = NoDest /\ mgr'.todo = mgr.todo /\ mgr'.job = mgr.job
      /\ mgr'.frame = mgr.frame /\ mgr' \in MgrType
  BY <1>4, Known DEF MgrType
<1>6. /\ sess' \in [Dest -> SessionType] /\ sess'[d] = x
      /\ \A e \in Dest : e # d => sess'[e] = sess[e]
  BY <1>2, <1>3, <1>4, OneChanged
<1>7. /\ sent' \in [Dest -> SentType] /\ sent'[d] = <<>>
      /\ \A e \in Dest : e # d => sent'[e] = sent[e]
  <2>1. <<>> \in SentType
    BY DEF SentType
  <2>2. sent \in [Dest -> SentType]
    BY Known
  <2> QED BY <1>2, <1>4, <2>1, <2>2
<1>8. TypeOK'
  BY <1>4, <1>5, <1>6, <1>7, Known, TypeParts
<1>9. Serving'
  BY <1>2, <1>4, <1>5, Known DEF Serving
<1>10. ASSUME NEW e \in Dest, e # d PROVE SessionInv(e)'
  <2>1. LastNo(e)' = LastNo(e)
    BY <1>1, <1>4, <1>5, <1>10, Known DEF LastNo, Pending
  <2>2. e \in reg' <=> e \in reg
    BY <1>4, <1>10
  <2>3. mgr'.pc \notin {"close", "join"} /\ sess'[e] = sess[e] /\ sent'[e] = sent[e]
    BY <1>5, <1>6, <1>7, <1>10
  <2> QED BY <1>4, <2>1, <2>2, <2>3, Known, Untouched
<1>11. SessionInv(d)'
  <2>1. InRing(d)' = <<>> /\ Whole(InRing(d))' /\ ~Connected(d)'
    BY <1>3, <1>6, NewSession DEF InRing, Connected
  <2>2. Living(d)'
    BY <1>3, <1>4, <1>5, <1>6, <1>7 DEF Living
  <2>3. InHand(d)' /\ Begun(d)' /\ Continuous(d)'
    BY <1>3, <1>6, <1>7, <2>1 DEF InHand, Begun, Continuous
  <2>4. Configured(d)'
    BY <1>3, <1>6, <2>1 DEF Configured
  <2>5. Decodable(sent[d])'
    BY <1>7 DEF Decodable
  <2> QED BY <2>1, <2>2, <2>3, <2>4, <2>5 DEF SessionInv
<1> QED BY <1>8, <1>9, <1>10, <1>11 DEF RInv

\* The nalus of a frame, one after the other
LEMMA NaluTuples ==
  /\ Head(<<"sps", "pps", "slice">>) = "sps" /\ Tail(<<"sps", "pps", "slice">>) = <<"pps", "slice">>
  /\ Head(<<"pps", "slice">>) = "pps" /\ Tail(<<"pps", "slice">>) = <<"slice">>
  /\ Head(<<"slice">>) = "slice" /\ Tail(<<"slice">>) = <<>>
  OBVIOUS

\* input_one_nalu: who is served, and with what
LEMMA Served ==
  ASSUME RInv, mgr.pc = "nalus"
  PROVE  /\ mgr.dest \in reg \ mgr.todo /\ mgr.dest \in Dest /\ mgr.job = "post"
         /\ mgr.todo \subseteq reg /\ mgr.frame \in Frame
         /\ mgr.frame.no = count[StreamOf[mgr.dest]]
         /\ mgr.frame.no \in 1 .. MaxFrame /\ mgr.frame.no \in Nat
         /\ mgr.nalus \in {<<"sps", "pps", "slice">>, <<"pps", "slice">>, <<"slice">>}
         /\ Pending(mgr.dest)
PROOF
<1>1. /\ mgr.dest \in reg \ mgr.todo /\ mgr.dest \in Dest /\ mgr.job = "post"
      /\ mgr.todo \subseteq reg /\ mgr.frame \in Frame
      /\ mgr.frame.no = count[StreamOf[mgr.dest]]
      /\ mgr.nalus \in {<<"sps", "pps", "slice">>, <<"pps", "slice">>, <<"slice">>}
      /\ Pending(mgr.dest)
  BY Known DEF Serving, Pending
<1>2. mgr.frame.no \in 1 .. MaxFrame
  BY <1>1 DEF Frame
<1>3. mgr.frame.no \in Nat
  BY <1>2, RtmpAssumption
<1> QED BY <1>1, <1>2, <1>3

\* A nalu that is refused: the session is going to be stopped.
LEMMA RefuseStep ==
  ASSUME RInv, mgr.pc = "nalus", mgr' = [mgr EXCEPT !.pc = "stop", !.nalus = <<>>],
         sess' = sess, reg' = reg, count' = count, sent' = sent
  PROVE  RInv'
PROOF
<1>1. <<>> \in Seq({"sps", "pps", "slice"})
  OBVIOUS
<1>2. /\ mgr'.pc = "stop" /\ mgr'.dest = mgr.dest /\ mgr'.todo = mgr.todo /\ mgr'.job = mgr.job
      /\ mgr'.frame = mgr.frame /\ mgr' \in MgrType
  BY <1>1, Known DEF MgrType
<1>3. TypeOK'
  BY <1>2, Known, TypeParts
<1>4. Serving'
  BY <1>2, Known DEF Serving
<1>5. ASSUME NEW e \in Dest PROVE SessionInv(e)'
  <2>1. LastNo(e)' = LastNo(e)
    BY <1>2 DEF LastNo, Pending
  <2> QED BY <1>2, <2>1, Known, Untouched
<1> QED BY <1>3, <1>4, <1>5 DEF RInv

\* A parameter set is stored.
LEMMA ConfigStep ==
  ASSUME RInv, mgr.pc = "nalus", Head(mgr.nalus) # "slice",
         sess' = Store(mgr.dest, Head(mgr.nalus), mgr.frame),
         mgr' = [mgr EXCEPT !.nalus = Tail(mgr.nalus),
                   !.pc = IF Tail(mgr.nalus) = <<>> THEN "loop" ELSE @,
                   !.dest = IF Tail(mgr.nalus) = <<>> THEN NoDest ELSE @],
         reg' = reg, count' = count, sent' = sent
  PROVE  RInv'
PROOF
<1>1. PICK d, n, no, sps, pps, x :
        /\ d = mgr.dest /\ n = Head(mgr.nalus) /\ no = mgr.frame.no
        /\ sps = IF n = "sps" THEN no ELSE sess[d].sps
        /\ pps = IF n = "pps" THEN no ELSE sess[d].pps
        /\ x = [sess[d] EXCEPT !.sps = sps, !.pps = pps]
  OBVIOUS
<1>2. /\ d \in reg \ mgr.todo /\ d \in Dest /\ sess[d] \in SessionType /\ SessionInv(d)
      /\ no \in 1 .. MaxFrame /\ no \in Nat /\ no = count[StreamOf[d]]
  BY <1>1, Known, Served
<1>3. \/ mgr.nalus = <<"sps", "pps", "slice">> /\ n = "sps" /\ Tail(mgr.nalus) = <<"pps", "slice">>
      \/ mgr.nalus = <<"pps", "slice">> /\ n = "pps" /\ Tail(mgr.nalus) = <<"slice">>
  <2>1. mgr.nalus # <<"slice">>
    OBVIOUS
  <2>2. mgr.nalus = <<"sps", "pps", "slice">> \/ mgr.nalus = <<"pps", "slice">>
    BY <2>1, Served
  <2> QED BY <1>1, <2>2, NaluTuples
<1>4. /\ x \in SessionType /\ x.on = sess[d].on /\ x.rtmp = sess[d].rtmp /\ x.pc = sess[d].pc
      /\ x.ring = sess[d].ring /\ x.key = sess[d].key /\ x.cur = sess[d].cur
      /\ x.sps = sps /\ x.pps = pps /\ x.sending = sess[d].sending
  <2>1. no \in 0 .. MaxFrame /\ sess[d].sps \in 0 .. MaxFrame /\ sess[d].pps \in 0 .. MaxFrame
    BY <1>2, RtmpAssumption DEF SessionType
  <2>2. sps \in 0 .. MaxFrame /\ pps \in 0 .. MaxFrame
    BY <1>1, <2>1
  <2> QED BY <1>1, <1>2, <2>2 DEF SessionType
<1>5. sess' = [sess EXCEPT ![d] = x]
  <2>1. n # "slice"
    BY <1>3
  <2>2. sess' = [sess EXCEPT ![d].ring = sess[d].ring, ![d].sps = sps, ![d].pps = pps]
    BY <1>1, <1>2, <2>1, Known DEF Store
  <2>3. sess' = [sess EXCEPT ![d] = [sess[d] EXCEPT !.ring = sess[d].ring,
                   !.sps = sps, !.pps = pps]]
    BY <1>2, <2>2, Known
  <2>4. [sess[d] EXCEPT !.ring = sess[d].ring, !.sps = sps, !.pps = pps] = x
    BY <1>1, <1>2 DEF SessionType
  <2> QED BY <2>3, <2>4
<1>6. /\ sess' \in [Dest -> SessionType] /\ sess'[d] = x
      /\ \A e \in Dest : e # d => sess'[e] = sess[e]
  BY <1>2, <1>4, <1>5, OneChanged
<1>7. /\ mgr'.pc = "nalus" /\ mgr'.dest = d /\ mgr'.todo = mgr.todo /\ mgr'.job = mgr.job
      /\ mgr'.frame = mgr.frame /\ mgr'.nalus = Tail(mgr.nalus) /\ mgr' \in MgrType
  <2>1. /\ <<"pps", "slice">> \in Seq({"sps", "pps", "slice"}) /\ <<"pps", "slice">> # <<>>
        /\ <<"slice">> \in Seq({"sps", "pps", "slice"}) /\ <<"slice">> # <<>>
    OBVIOUS
  <2>2. Tail(mgr.nalus) # <<>> /\ Tail(mgr.nalus) \in Seq({"sps", "pps", "slice"})
    BY <1>3, <2>1
  <2>3. mgr' = [mgr EXCEPT !.nalus = Tail(mgr.nalus)]
    BY <2>2, Known DEF MgrType
  <2> QED BY <1>1, <2>2, <2>3, Known DEF MgrType
<1>8. TypeOK'
  BY <1>6, <1>7, Known, TypeParts
<1>9. Serving'
  <2>1. mgr.frame.kind = "key" =>
          sess'[d].sps = no /\ (mgr'.nalus = <<"slice">> => sess'[d].pps = no)
    <3>1. CASE mgr.nalus = <<"sps", "pps", "slice">>
      <4>1. n = "sps" /\ mgr'.nalus # <<"slice">>
        BY <1>3, <1>7, <3>1
      <4> QED BY <1>1, <1>4, <1>6, <4>1
    <3>2. CASE mgr.nalus = <<"pps", "slice">>
      <4>1. n = "pps" /\ mgr.nalus # <<"sps", "pps", "slice">>
        BY <1>3, <3>2
      <4>2. mgr.frame.kind = "key" => sess[d].sps = no
        BY <1>1, <4>1, Known DEF Serving
      <4> QED BY <1>1, <1>4, <1>6, <4>1, <4>2
    <3> QED BY <1>3, <3>1, <3>2
  <2>2. mgr'.nalus \in {<<"pps", "slice">>, <<"slice">>}
    BY <1>3, <1>7
  <2>3. /\ mgr.frame \in Frame /\ mgr.job = "post" /\ mgr.todo \subseteq reg
        /\ \A e \in Dest : e \in mgr.todo \/ e = d => mgr.frame.no = count[StreamOf[e]]
    BY <1>1, Known, Served DEF Serving
  <2> QED BY <1>1, <1>2, <1>7, <2>1, <2>2, <2>3 DEF Serving
<1>10. \A e \in Dest : LastNo(e)' = LastNo(e)
  BY <1>1, <1>7 DEF LastNo, Pending
<1>11. ASSUME NEW e \in Dest, e # d PROVE SessionInv(e)'
  BY <1>6, <1>7, <1>10, <1>11, Known, Untouched
<1>12. SessionInv(d)'
  <2>1. /\ InRing(d)' = InRing(d) /\ LastSent(d)' = LastSent(d) /\ NextNo(d)' = NextNo(d)
        /\ Connected(d)' <=> Connected(d)
        /\ \A k : (SentUpTo(d, k)' <=> SentUpTo(d, k)) /\ (Introduced(d, k)' <=> Introduced(d, k))
    BY <1>2, <1>4, <1>6, <1>10 DEF InRing, LastSent, NextNo, Connected, SentUpTo, Introduced
  <2>2. Living(d)'
    BY <1>2, <1>4, <1>6, <1>7 DEF SessionInv, Living
  <2>3. InHand(d)' /\ Begun(d)'
    BY <1>2, <1>4, <1>6 DEF SessionInv, InHand, Begun
  <2>4. Configured(d)'
    <3>1. ASSUME NEW b \in Byte, Covered(d, b) PROVE Covered(d, b)'
      <4>1. b.no \in Nat /\ b.no <= no
        BY <1>2, <3>1, ByteFields, RtmpAssumption DEF Covered
      <4>2. b.kind = "key" => b.no <= sps /\ b.no <= pps
        BY <1>1, <3>1, <4>1 DEF Covered
      <4> QED BY <1>2, <1>4, <1>6, <4>1, <4>2 DEF Covered
    <3>2. \A i \in 1 .. Len(InRing(d)) : InRing(d)[i] \in Byte
      BY <1>2, SeqFacts DEF SessionInv, Whole
    <3>3. sess[d].pc = "config" => sess[d].cur.head \in Byte
      BY <1>2 DEF SessionInv, InHand
    <3> QED BY <1>2, <1>4, <1>6, <2>1, <3>1, <3>2, <3>3 DEF SessionInv, Configured
  <2>5. Continuous(d)'
    BY <1>2, <1>4, <1>6, <1>10, <2>1 DEF SessionInv, Continuous
  <2>6. Decodable(sent[d])' /\ Whole(InRing(d))'
    BY <1>2, <2>1 DEF SessionInv
  <2> QED BY <2>2, <2>3, <2>4, <2>5, <2>6 DEF SessionInv
<1> QED BY <1>8, <1>9, <1>11, <1>12 DEF RInv

\* The slice is stored, with room for it and behind the frame before it.
LEMMA SliceStep ==
  ASSUME RInv, mgr.pc = "nalus", Head(mgr.nalus) = "slice",
         Connected(mgr.dest), Fits(mgr.dest, mgr.frame),
         sess' = Store(mgr.dest, "slice", mgr.frame),
         mgr' = [mgr EXCEPT !.nalus = Tail(mgr.nalus),
                   !.pc = IF Tail(mgr.nalus) = <<>> THEN "loop" ELSE @,
                   !.dest = IF Tail(mgr.nalus) = <<>> THEN NoDest ELSE @],
         reg' = reg, count' = count, sent' = sent
  PROVE  RInv'
PROOF
<1>1. PICK d, f, w, x :
        /\ d = mgr.dest /\ f = mgr.frame
        /\ w = Buf!InputData(Buf!InputData(sess[d].ring, <<Cell(f, 0)>>), Body(f))
        /\ x = [sess[d] EXCEPT !.ring = w]
  OBVIOUS
<1>2. /\ d \in reg \ mgr.todo /\ d \in Dest /\ sess[d] \in SessionType /\ SessionInv(d)
      /\ f \in Frame /\ f.no = count[StreamOf[d]] /\ f.no \in Nat /\ Pending(d)
      /\ mgr.job = "post" /\ mgr.todo \subseteq reg
  <2>1. mgr.frame.no \in 1 .. MaxFrame
    BY Served DEF Frame
  <2> QED BY <1>1, <2>1, Known, Served, RtmpAssumption
<1>3. mgr.nalus = <<"slice">> /\ Tail(mgr.nalus) = <<>>
  <2>1. mgr.nalus # <<"sps", "pps", "slice">> /\ mgr.nalus # <<"pps", "slice">>
    BY NaluTuples
  <2> QED BY <2>1, Served, NaluTuples
<1>4. /\ Whole(InRing(d))
      /\ InRing(d) # <<>> => InRing(d)[Len(InRing(d))].no + 1 = f.no
  BY <1>1, <1>2 DEF SessionInv, Continuous, LastNo
<1>5. w \in Buf!Ring /\ Extends(Buf!Contents(w), InRing(d), f)
  <2>1. sess[d].ring \in Buf!Ring
    BY <1>2 DEF SessionType
  <2>2. Buf!RemainLen(sess[d].ring) >= f.len + 1
    BY <1>1 DEF Fits
  <2> QED BY <1>1, <1>2, <1>4, <2>1, <2>2, StoreRecord DEF InRing
<1>6. /\ x \in SessionType /\ x.on = sess[d].on /\ x.rtmp = sess[d].rtmp /\ x.pc = sess[d].pc
      /\ x.ring = w /\ x.key = sess[d].key /\ x.cur = sess[d].cur
      /\ x.sps = sess[d].sps /\ x.pps = sess[d].pps /\ x.sending = sess[d].sending
  BY <1>1, <1>2, <1>5 DEF SessionType
<1>7. sess' = [sess EXCEPT ![d] = x]
  <2>3. sess' = [sess EXCEPT ![d].ring = w, ![d].sps = sess[d].sps, ![d].pps = sess[d].pps]
    BY <1>1, <1>2, Known DEF Store
  <2>4. sess' = [sess EXCEPT ![d] = [sess[d] EXCEPT !.ring = w, !.sps = sess[d].sps,
                                                    !.pps = sess[d].pps]]
    BY <1>2, <2>3, Known
  <2>5. [sess[d] EXCEPT !.ring = w, !.sps = sess[d].sps, !.pps = sess[d].pps]
          = [sess[d] EXCEPT !.ring = w]
    BY <1>2 DEF SessionType
  <2> QED BY <1>1, <2>4, <2>5
<1>8. /\ sess' \in [Dest -> SessionType] /\ sess'[d] = x
      /\ \A e \in Dest : e # d => sess'[e] = sess[e]
  BY <1>2, <1>6, <1>7, OneChanged
<1>9. /\ mgr'.pc = "loop" /\ mgr'.dest = NoDest /\ mgr'.todo = mgr.todo /\ mgr'.job = mgr.job
      /\ mgr'.frame = mgr.frame /\ mgr' \in MgrType
  <2>1. <<>> \in Seq({"sps", "pps", "slice"})
    OBVIOUS
  <2>2. mgr' = [mgr EXCEPT !.nalus = <<>>, !.pc = "loop", !.dest = NoDest]
    BY <1>3
  <2> QED BY <2>1, <2>2, Known DEF MgrType
<1>10. TypeOK'
  BY <1>8, <1>9, Known, TypeParts
<1>11. Serving'
  BY <1>2, <1>9, Known DEF Serving
<1>12. ASSUME NEW e \in Dest, e # d PROVE SessionInv(e)'
  <2>1. LastNo(e)' = LastNo(e)
    BY <1>1, <1>9, <1>12, Known DEF LastNo, Pending
  <2> QED BY <1>8, <1>9, <1>12, <2>1, Known, Untouched
<1>13. SessionInv(d)'
  <2>1. PICK c, e : c = InRing(d) /\ e = Buf!Contents(w)
    OBVIOUS
  <2>2. InRing(d)' = e
    BY <1>6, <1>8, <2>1 DEF InRing
  <2>3. /\ c \in Seq(Byte) /\ Len(c) \in Nat /\ (c # <<>> <=> Len(c) >= 1)
        /\ e \in Seq(Byte) /\ Len(e) = Len(c) + f.len + 1 /\ e # <<>>
        /\ f.len \in Nat /\ Whole(e)
    <3>1. f.len \in Nat \ {0}
      BY <1>2, RtmpAssumption DEF Frame
    <3>2. c \in Seq(Byte) /\ Whole(e) /\ e \in Seq(Byte) /\ Len(e) = Len(c) + f.len + 1
      BY <1>4, <1>5, <2>1 DEF Whole, Extends
    <3>3. Len(c) \in Nat /\ (c # <<>> <=> Len(c) >= 1) /\ (e # <<>> <=> Len(e) >= 1)
      BY <3>2, SeqFacts
    <3> QED BY <3>1, <3>2, <3>3
  <2>4. LastNo(d) = f.no - 1 /\ LastNo(d)' = f.no
    BY <1>2, <1>9, Known DEF LastNo, Pending
  <2>5. e[Len(e)].no = f.no
    BY <1>5, <2>1 DEF Extends
  <2>6. NextNo(d)' = NextNo(d)
    <3>1. CASE c = <<>>
      <4>1. Len(c) = 0 /\ 1 \in Len(c) + 1 .. Len(e) /\ 1 - Len(c) - 1 = 0
        <5>1. Len(c) = 0 /\ Len(e) \in Nat /\ Len(e) >= 1
          BY <2>3, <3>1
        <5> QED BY <5>1
      <4>2. e[1] = Cell(f, 0)
        <5>1. \A i \in Len(c) + 1 .. Len(e) : e[i] = Cell(f, i - Len(c) - 1)
          BY <1>5, <2>1 DEF Extends
        <5> QED BY <4>1, <5>1
      <4>3. e[1].no = f.no
        BY <4>2 DEF Cell
      <4> QED BY <1>2, <2>1, <2>2, <2>3, <2>4, <3>1, <4>3 DEF NextNo
    <3>2. CASE c # <<>>
      <4>1. 1 \in 1 .. Len(c)
        BY <2>3, <3>2
      <4>2. e[1] = c[1]
        BY <1>5, <2>1, <4>1 DEF Extends
      <4> QED BY <2>1, <2>2, <2>3, <3>2, <4>2 DEF NextNo
    <3> QED BY <3>1, <3>2
  <2>7. Living(d)'
    BY <1>2, <1>6, <1>8, <1>9 DEF SessionInv, Living
  <2>8. InHand(d)' /\ Begun(d)'
    BY <1>2, <1>6, <1>8 DEF SessionInv, InHand, Begun
  <2>9. Configured(d)'
    <3>1. ASSUME NEW i \in 1 .. Len(e) PROVE Covered(d, e[i])
      <4>1. CASE i \in 1 .. Len(c)
        <5>1. e[i] = c[i]
          BY <1>5, <2>1, <4>1 DEF Extends
        <5> QED BY <1>2, <2>1, <4>1, <5>1 DEF SessionInv, Configured
      <4>2. CASE i \notin 1 .. Len(c)
        <5>1. i \in Len(c) + 1 .. Len(e)
          BY <2>3, <4>2
        <5>2. e[i] = Cell(f, i - Len(c) - 1)
          BY <1>5, <2>1, <5>1 DEF Extends
        <5>3. e[i].kind = f.kind /\ e[i].no = f.no
          BY <5>2 DEF Cell
        <5>4. mgr.nalus # <<"sps", "pps", "slice">>
          BY <1>3
        <5>5. f.kind = "key" => sess[d].sps = f.no /\ sess[d].pps = f.no
          BY <1>1, <1>3, <5>4, Known, Served DEF Serving
        <5> QED BY <1>2, <5>3, <5>5 DEF Covered
      <4> QED BY <4>1, <4>2
    <3>2. \A b : Covered(d, b)' <=> Covered(d, b)
      BY <1>6, <1>8 DEF Covered
    <3> QED BY <1>2, <1>6, <1>8, <2>2, <3>1, <3>2 DEF SessionInv, Configured
  <2>10. Continuous(d)'
    <3>1. \A no : (SentUpTo(d, no)' <=> SentUpTo(d, no)) /\ (Introduced(d, no)' <=> Introduced(d, no))
      BY DEF SentUpTo, LastSent, Introduced
    <3>2. LastSent(d)' = LastSent(d) /\ Connected(d) /\ Connected(d)'
      BY <1>1, <1>6, <1>8 DEF LastSent, Connected
    <3> QED BY <1>2, <1>6, <1>8, <2>2, <2>4, <2>5, <2>6, <3>1, <3>2 DEF SessionInv, Continuous
  <2>11. Decodable(sent[d])' /\ Whole(InRing(d))'
    BY <1>2, <2>2, <2>3 DEF SessionInv
  <2> QED BY <2>7, <2>8, <2>9, <2>10, <2>11 DEF SessionInv
<1> QED BY <1>10, <1>11, <1>12, <1>13 DEF RInv

LEMMA InputOneNaluStep == ASSUME RInv, InputOneNalu PROVE RInv'
PROOF
<1>1. /\ mgr.pc = "nalus" /\ reg' = reg /\ count' = count /\ sent' = sent
  BY DEF InputOneNalu
<1>2. CASE mgr' = [mgr EXCEPT !.pc = "stop", !.nalus = <<>>] /\ sess' = sess
  BY <1>1, <1>2, RefuseStep
<1>3. CASE /\ Accepts(mgr.dest, Head(mgr.nalus), mgr.frame)
           /\ sess' = Store(mgr.dest, Head(mgr.nalus), mgr.frame)
           /\ mgr' = [mgr EXCEPT !.nalus = Tail(mgr.nalus),
                        !.pc = IF Tail(mgr.nalus) = <<>> THEN "loop" ELSE @,
                        !.dest = IF Tail(mgr.nalus) = <<>> THEN NoDest ELSE @]
  <2>1. CASE Head(mgr.nalus) = "slice"
    BY <1>1, <1>3, <2>1, SliceStep DEF Accepts
  <2>2. CASE Head(mgr.nalus) # "slice"
    BY <1>1, <1>3, <2>2, ConfigStep
  <2> QED BY <2>1, <2>2
<1> QED BY <1>2, <1>3 DEF InputOneNalu

-----------------------------------------------------------------------------
(* The threads of the sessions.                                             *)

Message == [kind : {"config", "key", "p"}, no : 1 .. MaxFrame]

\* m fits the last message of s.
Fitting(s, m) ==
  /\ s = <<>> => m.kind = "config"
  /\ s # <<>> =>
       /\ m.kind = "key" <=> s[Len(s)].kind = "config"
       /\ m.kind = "key" => s[Len(s)].no >= m.no
       /\ m.kind = "key" /\ Len(s) > 1 => m.no = s[Len(s) - 1].no + 1
       /\ m.kind = "p" => m.no = s[Len(s)].no + 1

LEMMA DecodableAppend ==
  ASSUME NEW s \in SentType, Decodable(s), NEW m \in Message, Fitting(s, m)
  PROVE  /\ Append(s, m) \in SentType /\ Decodable(Append(s, m))
         /\ Append(s, m) # <<>> /\ Append(s, m)[Len(Append(s, m))] = m
PROOF
<1>0. PICK t : t = Append(s, m)
  OBVIOUS
<1>1. s \in Seq(Message) /\ Len(s) \in Nat /\ (s # <<>> <=> Len(s) >= 1)
  <2>1. s \in Seq(Message)
    BY DEF SentType, Message
  <2> QED BY <2>1, SeqFacts
<1>2. /\ t \in Seq(Message) /\ Len(t) = Len(s) + 1 /\ t[Len(s) + 1] = m
      /\ \A i \in 1 .. Len(s) : t[i] = s[i]
  BY <1>0, <1>1
<1>3. t # <<>> /\ t[Len(t)] = m
  BY <1>1, <1>2, SeqFacts
<1>4. t[1].kind = "config"
  <2>1. CASE s = <<>>
    <3>1. Len(s) = 0
      BY <1>1, <2>1
    <3> QED BY <1>2, <2>1, <3>1 DEF Fitting
  <2>2. CASE s # <<>>
    <3>1. 1 \in 1 .. Len(s)
      BY <1>1, <2>2
    <3> QED BY <1>2, <2>2, <3>1 DEF Decodable
  <2> QED BY <2>1, <2>2
<1>5. ASSUME NEW i \in 1 .. Len(t) - 1
      PROVE  /\ t[i + 1].kind = "key" <=> t[i].kind = "config"
             /\ t[i + 1].kind = "key" => t[i].no >= t[i + 1].no
             /\ t[i + 1].kind = "key" /\ i > 1 => t[i + 1].no = t[i - 1].no + 1
             /\ t[i + 1].kind = "p" => t[i + 1].no = t[i].no + 1
  <2>1. CASE i = Len(s)
    <3>1. s # <<>> /\ i \in 1 .. Len(s)
      BY <1>1, <1>2, <2>1
    <3>2. t[i] = s[Len(s)] /\ t[i + 1] = m
      BY <1>2, <2>1, <3>1
    <3>3. ASSUME i > 1 PROVE t[i - 1] = s[Len(s) - 1]
      <4>1. i - 1 \in 1 .. Len(s)
        BY <1>1, <2>1, <3>3
      <4> QED BY <1>2, <2>1, <4>1
    <3> QED BY <2>1, <3>1, <3>2, <3>3 DEF Fitting
  <2>2. CASE i # Len(s)
    <3>1. i \in 1 .. Len(s) - 1 /\ i \in 1 .. Len(s) /\ i + 1 \in 1 .. Len(s)
      BY <1>1, <1>2, <2>2
    <3>2. t[i] = s[i] /\ t[i + 1] = s[i + 1]
      BY <1>2, <3>1
    <3>3. ASSUME i > 1 PROVE t[i - 1] = s[i - 1]
      <4>1. i - 1 \in 1 .. Len(s)
        BY <1>1, <3>1, <3>3
      <4> QED BY <1>2, <4>1
    <3> QED BY <3>1, <3>2, <3>3 DEF Decodable
  <2> QED BY <2>1, <2>2
<1>6. t \in SentType
  BY <1>2 DEF SentType, Message
<1>7. Decodable(t)
  BY <1>4, <1>5 DEF Decodable
<1> QED BY <1>0, <1>3, <1>6, <1>7

\* A thread changes its own session; it stores no parameter sets.
LEMMA WorkerFrame ==
  ASSUME RInv, NEW d \in Dest,
         sess' = [sess EXCEPT ![d] = sess'[d]], sess'[d] \in SessionType,
         sess'[d].sps = sess[d].sps, sess'[d].pps = sess[d].pps,
         sent' = [sent EXCEPT ![d] = sent'[d]], sent'[d] \in SentType,
         reg' = reg, mgr' = mgr, count' = count,
         SessionInv(d)'
  PROVE  RInv'
PROOF
<1>1. /\ sess' \in [Dest -> SessionType]
      /\ \A e \in Dest : e # d => sess'[e] = sess[e]
  BY OneChanged
<1>2. /\ sent' \in [Dest -> SentType]
      /\ \A e \in Dest : e # d => sent'[e] = sent[e]
  <2>1. sent \in [Dest -> SentType]
    BY Known
  <2> QED BY <2>1
<1>3. TypeOK'
  BY <1>1, <1>2, Known, TypeParts
<1>4. Serving'
  <2>1. mgr.pc = "nalus" => /\ sess'[mgr.dest].sps = sess[mgr.dest].sps
                           /\ sess'[mgr.dest].pps = sess[mgr.dest].pps
    BY <1>1, Served
  <2> QED BY <2>1, Known DEF Serving
<1>5. ASSUME NEW e \in Dest, e # d PROVE SessionInv(e)'
  <2>1. LastNo(e)' = LastNo(e)
    BY DEF LastNo, Pending
  <2>2. mgr'.pc \in {"close", "join"} /\ mgr'.dest = e => ~sess[e].on
    BY Known DEF SessionInv, Living
  <2> QED BY <1>1, <1>2, <1>5, <2>1, <2>2, Known, Untouched
<1> QED BY <1>3, <1>4, <1>5 DEF RInv

\* The thread of a session that is not over
LEMMA Running ==
  ASSUME RInv, NEW d \in Dest, sess[d].pc \notin {"none", "done"}
  PROVE  d \in reg /\ SessionInv(d) /\ sess[d] \in SessionType /\ sent[d] \in SentType
  BY Known DEF SessionInv, Living

\* The thread goes to another place in the loop with nothing in its hand.
LEMMA LoopStep ==
  ASSUME RInv, NEW d \in Dest, NEW pc \in {"check", "take", "done"},
         sess[d].pc \in {"check", "take"}, ~sess[d].sending,
         sess' = [sess EXCEPT ![d].pc = pc],
         reg' = reg, mgr' = mgr, count' = count, sent' = sent
  PROVE  RInv'
PROOF
<1>1. d \in reg /\ SessionInv(d) /\ sess[d] \in SessionType /\ sent[d] \in SentType
  BY Running
<1>2. PICK x : x = [sess[d] EXCEPT !.pc = pc]
  OBVIOUS
<1>3. /\ x \in SessionType /\ x.on = sess[d].on /\ x.rtmp = sess[d].rtmp /\ x.pc = pc
      /\ x.ring = sess[d].ring /\ x.key = sess[d].key /\ x.cur = sess[d].cur
      /\ x.sps = sess[d].sps /\ x.pps = sess[d].pps /\ ~x.sending
  BY <1>1, <1>2 DEF SessionType
<1>4. sess' = [sess EXCEPT ![d] = x] /\ sess'[d] = x
  BY <1>2, Known
<1>5. /\ InRing(d)' = InRing(d) /\ LastSent(d)' = LastSent(d) /\ LastNo(d)' = LastNo(d)
      /\ NextNo(d)' = NextNo(d) /\ (Connected(d)' <=> Connected(d))
      /\ \A no : (SentUpTo(d, no)' <=> SentUpTo(d, no)) /\ (Introduced(d, no)' <=> Introduced(d, no))
  BY <1>3, <1>4 DEF InRing, LastSent, LastNo, Pending, NextNo, Connected, SentUpTo, Introduced
<1>6. Living(d)'
  BY <1>1, <1>3, <1>4 DEF SessionInv, Living
<1>7. InHand(d)' /\ Begun(d)'
  BY <1>1, <1>3, <1>4 DEF SessionInv, InHand, Begun
<1>8. Configured(d)'
  BY <1>1, <1>3, <1>4, <1>5 DEF SessionInv, Configured, Covered
<1>9. Continuous(d)'
  BY <1>1, <1>3, <1>4, <1>5 DEF SessionInv, Continuous
<1>10. Decodable(sent[d])' /\ Whole(InRing(d))'
  BY <1>1, <1>5 DEF SessionInv
<1>11. SessionInv(d)'
  BY <1>6, <1>7, <1>8, <1>9, <1>10 DEF SessionInv
<1>12. sent' = [sent EXCEPT ![d] = sent'[d]]
  BY Known
<1> QED BY <1>1, <1>3, <1>4, <1>11, <1>12, WorkerFrame

LEMMA CheckStartStep == ASSUME RInv, NEW d \in Dest, CheckStart(d) PROVE RInv'
PROOF
<1>1. PICK pc \in {"take", "done"} : sess' = [sess EXCEPT ![d].pc = pc]
  BY DEF CheckStart
<1> QED BY <1>1, LoopStep DEF CheckStart, At

\* The first record comes out of the ring of a connected session: it is the
\* one before what is next, and the last one stays the last.
LEMMA FirstTaken ==
  ASSUME NEW c, Whole(c), c # <<>>
  PROVE  /\ Len(Rest(c)) \in Nat /\ Len(c) \in Nat
         /\ Rest(c) = <<>> => c[Len(c)].no = c[1].no
         /\ Rest(c) # <<>> => Rest(c)[1].no = c[1].no + 1 /\ Rest(c)[Len(Rest(c))] = c[Len(c)]
         /\ \A i \in 1 .. Len(Rest(c)) : \E j \in 1 .. Len(c) : Rest(c)[i] = c[j]
PROOF
<1> PICK head, e : head = c[1] /\ e = Rest(c)
  OBVIOUS
<1>1. c \in Seq(Byte) /\ c[1].part = 0 /\ Whole(c) /\ c # <<>>
  BY DEF Whole
<1>2. PICK k, n : k = head.len + 1 /\ n = Len(c)
  OBVIOUS
<1>3. n \in Nat /\ n >= 1 /\ head \in Byte /\ 1 \in 1 .. n
  BY <1>1, <1>2, SeqFacts
<1>4. head.len \in Nat /\ head.len > 0
  BY <1>3, ByteFields
<1>5. Whole(e) /\ n >= k /\ Len(e) = n - k
  BY <1>1, <1>2, WholeRest
<1>6. /\ \A j \in 1 .. head.len : c[1 + j] = Cell(head, j)
      /\ 1 + head.len < n => c[1 + head.len + 1].no = head.no + 1
  BY <1>1, <1>2, <1>3 DEF Whole
<1>7. \A i \in 1 .. n - k : e[i] = c[k + i]
  BY <1>2 DEF Rest
<1>8. Len(e) \in Nat /\ Len(e) <= n /\ (e # <<>> <=> Len(e) >= 1)
  <2>1. e \in Seq(Byte)
    BY <1>5 DEF Whole
  <2>2. Len(e) \in Nat /\ (e # <<>> <=> Len(e) >= 1)
    BY <2>1, SeqFacts
  <2> QED BY <1>2, <1>3, <1>4, <1>5, <2>2
<1>9. ASSUME e = <<>> PROVE c[n].no = head.no
  <2>1. n = 1 + head.len /\ head.len \in 1 .. head.len
    BY <1>2, <1>3, <1>4, <1>5, <1>8, <1>9
  <2>2. c[n] = Cell(head, head.len)
    BY <1>6, <2>1
  <2> QED BY <2>2 DEF Cell
<1>10. ASSUME e # <<>> PROVE e[1].no = head.no + 1 /\ e[Len(e)] = c[n]
  <2>1. /\ 1 \in 1 .. n - k /\ n - k \in 1 .. n - k /\ k + (n - k) = n
        /\ 1 + head.len < n /\ k + 1 = 1 + head.len + 1
    BY <1>2, <1>3, <1>4, <1>5, <1>8, <1>10
  <2>2. e[1] = c[k + 1] /\ e[n - k] = c[k + (n - k)]
    BY <1>7, <2>1
  <2> QED BY <1>5, <1>6, <2>1, <2>2
<1>11. \A i \in 1 .. Len(e) : \E j \in 1 .. n : e[i] = c[j]
  <2>1. ASSUME NEW i \in 1 .. Len(e) PROVE \E j \in 1 .. n : e[i] = c[j]
    <3>1. k + i \in 1 .. n /\ i \in 1 .. n - k
      BY <1>2, <1>3, <1>4, <1>5
    <3> QED BY <1>7, <3>1
  <2> QED BY <2>1
<1> QED BY <1>2, <1>3, <1>8, <1>9, <1>10, <1>11

LEMMA TakeStep == ASSUME RInv, NEW d \in Dest, Take(d) PROVE RInv'
PROOF
<1>1. /\ sess[d].pc = "take" /\ reg' = reg /\ mgr' = mgr /\ count' = count /\ sent' = sent
      /\ d \in reg /\ SessionInv(d) /\ sess[d] \in SessionType /\ sent[d] \in SentType
      /\ ~sess[d].sending
  <2>1. /\ sess[d].pc = "take" /\ ~sess[d].sending
        /\ reg' = reg /\ mgr' = mgr /\ count' = count /\ sent' = sent
    BY DEF Take, At
  <2> QED BY <2>1, Running
<1>2. CASE sess' = [sess EXCEPT ![d].pc = "check"]
  BY <1>1, <1>2, LoopStep
<1>3. CASE sess' # [sess EXCEPT ![d].pc = "check"]
  <2>1. PICK r, head, body, w, x :
          /\ r = sess[d].ring
          /\ head = FirstHead(r) /\ body = FirstBody(r) /\ w = WithoutFirst(r)
          /\ x = [sess[d] EXCEPT !.ring = w,
                    !.cur = IF Wanted(sess[d], head) THEN [head |-> head, body |-> body] ELSE @,
                    !.pc = IF ~Wanted(sess[d], head) THEN "check"
                           ELSE IF head.kind = "key" THEN "config" ELSE "send"]
    OBVIOUS
  <2>2. r.len >= 1 /\ sess' = [sess EXCEPT ![d] = x] /\ sess'[d] = x
    <3>1. /\ r.len >= 1
          /\ sess' = [sess EXCEPT ![d].ring = w,
                      ![d].cur = IF Wanted(sess[d], head) THEN [head |-> head, body |-> body] ELSE @,
                      ![d].pc = IF ~Wanted(sess[d], head) THEN "check"
                                ELSE IF head.kind = "key" THEN "config" ELSE "send"]
      BY <1>3, <2>1 DEF Take, FirstHead, FirstBody, WithoutFirst
    <3> QED BY <2>1, <3>1, Known
  <2>3. PICK c, e : c = InRing(d) /\ e = Buf!Contents(w)
    OBVIOUS
  <2>4. /\ c # <<>> /\ head = c[1] /\ head \in Byte /\ head.part = 0
        /\ body = Body(head) /\ w \in Buf!Ring /\ Whole(c) /\ Whole(e)
        /\ e = Rest(c)
    <3>1. r \in Buf!Ring /\ c = Buf!Contents(r) /\ Whole(c)
      BY <1>1, <2>1, <2>3 DEF SessionType, SessionInv, InRing
    <3> QED BY <2>1, <2>2, <2>3, <3>1, TakeRecord, WholeRest
  <2>5. head.kind \in {"key", "p"} /\ head.no \in Nat /\ head.len \in Nat
    <3>1. head.no \in 1 .. MaxFrame /\ head.kind \in {"key", "p"} /\ head.len \in Nat
      BY <2>4, ByteFields
    <3> QED BY <3>1, RtmpAssumption
  <2>6. [head |-> head, body |-> body] \in [head : Byte \cup {NoByte}, body : Seq(Byte)]
    <3>1. \A i \in 1 .. Len(c) : c[i] \in Byte
      BY <2>4, SeqFacts DEF Whole
    <3>2. \A i \in 1 .. head.len : Cell(head, i) \in Byte
      <4>1. PICK n : n = Len(c)
        OBVIOUS
      <4>2. n \in Nat /\ n >= 1 /\ 1 \in 1 .. n
        <5>1. c \in Seq(Byte)
          BY <2>4 DEF Whole
        <5> QED BY <2>4, <4>1, <5>1, SeqFacts
      <4>3. 1 + head.len <= n /\ \A j \in 1 .. head.len : c[1 + j] = Cell(head, j)
        BY <2>4, <4>1, <4>2 DEF Whole
      <4>4. ASSUME NEW i \in 1 .. head.len PROVE Cell(head, i) \in Byte
        <5>1. 1 + i \in 1 .. n
          BY <2>5, <4>2, <4>3
        <5> QED BY <3>1, <4>1, <4>3, <5>1
      <4> QED BY <4>4
    <3>3. body = [i \in 1 .. head.len |-> Cell(head, i)]
      BY <2>4 DEF Body
    <3>4. body \in [1 .. head.len -> Byte]
      BY <3>2, <3>3
    <3>5. body \in Seq(Byte)
      BY <2>5, <3>4
    <3> QED BY <2>4, <3>5
  <2>7. /\ x \in SessionType /\ x.on = sess[d].on /\ x.rtmp = sess[d].rtmp
        /\ x.ring = w /\ x.key = sess[d].key
        /\ x.cur = IF Wanted(sess[d], head) THEN [head |-> head, body |-> body] ELSE sess[d].cur
        /\ x.pc = IF ~Wanted(sess[d], head) THEN "check"
                  ELSE IF head.kind = "key" THEN "config" ELSE "send"
        /\ x.sps = sess[d].sps /\ x.pps = sess[d].pps /\ ~x.sending
    BY <1>1, <2>1, <2>4, <2>6 DEF SessionType
  <2>8. InRing(d)' = e
    BY <2>2, <2>3, <2>7 DEF InRing
  <2>9. /\ LastNo(d)' = LastNo(d) /\ LastSent(d)' = LastSent(d) /\ (Connected(d)' <=> Connected(d))
        /\ \A no : SentUpTo(d, no)' <=> SentUpTo(d, no)
        /\ \A b : Covered(d, b)' <=> Covered(d, b)
    BY <1>1, <2>2, <2>7 DEF LastNo, Pending, LastSent, Connected, SentUpTo, Covered
  <2>10. /\ Len(e) \in Nat /\ Len(c) \in Nat
         /\ e = <<>> => c[Len(c)].no = head.no
         /\ e # <<>> => e[1].no = head.no + 1 /\ e[Len(e)] = c[Len(c)]
         /\ \A i \in 1 .. Len(e) : \E j \in 1 .. Len(c) : e[i] = c[j]
    BY <2>4, FirstTaken
  <2>11. NextNo(d) = head.no
    BY <2>3, <2>4 DEF NextNo
  <2>12. Connected(d) => NextNo(d)' = head.no + 1 /\ (e # <<>> => e[Len(e)].no = LastNo(d))
    <3>1. Connected(d) => c[Len(c)].no = LastNo(d)
      BY <1>1, <2>3, <2>4 DEF SessionInv, Continuous
    <3>2. NextNo(d)' = IF e = <<>> THEN LastNo(d) + 1 ELSE e[1].no
      BY <2>8, <2>9 DEF NextNo
    <3> QED BY <2>10, <3>1, <3>2
  <2>13. Living(d)'
    BY <1>1, <2>2, <2>7 DEF SessionInv, Living
  <2>14. InHand(d)'
    BY <2>2, <2>4, <2>7 DEF InHand
  <2>15. Begun(d)'
    BY <1>1, <2>2, <2>7 DEF SessionInv, Begun, Wanted
  <2>16. Configured(d)'
    <3>1. ASSUME NEW j \in 1 .. Len(c) PROVE Covered(d, c[j])
      BY <1>1, <2>3 DEF SessionInv, Configured
    <3>2. Covered(d, head)
      <4>1. 1 \in 1 .. Len(c)
        BY <2>4, SeqFacts DEF Whole
      <4> QED BY <2>4, <3>1, <4>1
    <3>3. \A i \in 1 .. Len(e) : Covered(d, e[i])
      BY <2>10, <3>1
    <3> QED BY <2>2, <2>7, <2>8, <2>9, <3>2, <3>3 DEF Configured
  <2>17. Continuous(d)'
    <3>1. ASSUME Connected(d), sess[d].key PROVE SentUpTo(d, head.no)
      BY <1>1, <2>11, <3>1 DEF SessionInv, Continuous
    <3> QED BY <2>2, <2>7, <2>8, <2>9, <2>12, <3>1 DEF Continuous, Wanted
  <2>18. Decodable(sent[d])' /\ Whole(InRing(d))'
    BY <1>1, <2>4, <2>8 DEF SessionInv
  <2>19. SessionInv(d)'
    BY <2>13, <2>14, <2>15, <2>16, <2>17, <2>18 DEF SessionInv
  <2>20. sent' = [sent EXCEPT ![d] = sent'[d]]
    BY <1>1, Known
  <2> QED BY <1>1, <2>2, <2>7, <2>19, <2>20, WorkerFrame
<1> QED BY <1>2, <1>3

\* What a thread sends follows what it sent before.
LEMMA Sendable ==
  ASSUME RInv, NEW d \in Dest, Connected(d), NEW m \in Message,
         \/ sess[d].pc = "config" /\ m.kind = "config"
         \/ /\ sess[d].pc = "send" /\ m.kind = sess[d].cur.head.kind /\ m.no = sess[d].cur.head.no
            /\ m.kind \in {"key", "p"}
  PROVE  Fitting(sent[d], m)
PROOF
<1>1. SessionInv(d) /\ sess[d] \in SessionType /\ sent[d] \in SentType
  BY Running
<1>2. CASE sess[d].pc = "config"
  <2>1. m.kind = "config"
    BY <1>2
  <2>2. sent[d] # <<>> => LastSent(d).kind # "config"
    BY <1>1, <1>2 DEF SessionInv, Begun, Continuous, SentUpTo
  <2> QED BY <2>1, <2>2 DEF Fitting, LastSent
<1>3. CASE sess[d].pc = "send"
  <2>1. m.kind = sess[d].cur.head.kind /\ m.no = sess[d].cur.head.no /\ m.kind \in {"key", "p"}
    BY <1>3
  <2>2. CASE m.kind = "key"
    <3>1. Introduced(d, m.no)
      BY <1>1, <1>3, <2>1, <2>2 DEF SessionInv, Continuous
    <3> QED BY <2>2, <3>1 DEF Fitting, Introduced, LastSent
  <2>3. CASE m.kind = "p"
    <3>1. SentUpTo(d, m.no)
      BY <1>1, <1>3, <2>1, <2>3 DEF SessionInv, Continuous
    <3> QED BY <2>3, <3>1 DEF Fitting, SentUpTo, LastSent
  <2> QED BY <2>1, <2>2, <2>3
<1> QED BY <1>2, <1>3

\* The thread goes on, with or without librtmp: what is left to show is that
\* frames still follow each other if the connection is open.
LEMMA GoesOn ==
  ASSUME RInv, NEW d \in Dest, d \in reg,
         sess' = [sess EXCEPT ![d] = sess'[d]], sess'[d] \in SessionType,
         sess'[d].on = sess[d].on, sess'[d].rtmp # "none", sess'[d].ring = sess[d].ring,
         sess'[d].sps = sess[d].sps, sess'[d].pps = sess[d].pps,
         \/ sess'[d].pc = sess[d].pc
         \/ sess[d].pc = "config" /\ sess'[d].pc = "aac"
         \/ sess[d].pc = "aac" /\ sess'[d].pc = "send"
         \/ sess[d].pc = "send" /\ sess'[d].pc = "check",
         sess'[d].pc # "check" => sess'[d].cur = sess[d].cur,
         sess'[d].key <=> sess[d].key \/ sess'[d].pc = "send",
         sess'[d].sending => sess'[d].pc \in {"aac", "send", "check"},
         sent' = [sent EXCEPT ![d] = sent'[d]], sent'[d] \in SentType, Decodable(sent'[d]),
         sess'[d].pc \notin {"aac", "send"} /\ ~sess'[d].key => sent'[d] = <<>>,
         Continuous(d)',
         reg' = reg, mgr' = mgr, count' = count
  PROVE  RInv'
PROOF
<1>1. SessionInv(d) /\ sess[d] \in SessionType
  BY Known
<1>2. InRing(d)' = InRing(d) /\ \A b : Covered(d, b)' <=> Covered(d, b)
  BY DEF InRing, Covered
<1>3. Living(d)'
  BY <1>1 DEF SessionInv, Living
<1>4. InHand(d)'
  BY <1>1 DEF SessionInv, InHand
<1>5. Begun(d)'
  BY <1>1 DEF SessionInv, Begun
<1>6. Configured(d)'
  BY <1>1, <1>2 DEF SessionInv, Configured
<1>7. Decodable(sent[d])' /\ Whole(InRing(d))'
  BY <1>1, <1>2 DEF SessionInv
<1>8. SessionInv(d)'
  BY <1>3, <1>4, <1>5, <1>6, <1>7 DEF SessionInv
<1> QED BY <1>8, WorkerFrame

\* What the sequences of send_packet are
LEMMA SentFacts ==
  ASSUME NEW s \in SentType
  PROVE  s \o <<>> = s /\ \A m \in Message : s \o <<m>> = Append(s, m)
  BY DEF SentType, Message

LEMMA SendSpsPpsStep == ASSUME RInv, NEW d \in Dest, SendSpsPps(d) PROVE RInv'
PROOF
<1>1. PICK next, older, m :
        /\ next = [sess[d] EXCEPT !.pc = "aac"]
        /\ older = IF sess[d].sps <= sess[d].pps THEN sess[d].sps ELSE sess[d].pps
        /\ m = [kind |-> "config", no |-> older]
  OBVIOUS
<1>2. sess[d].pc = "config" /\ ~sess[d].sending /\ reg' = reg /\ mgr' = mgr /\ count' = count
  BY DEF SendSpsPps, At
<1>3. /\ d \in reg /\ sess[d] \in SessionType /\ SessionInv(d) /\ sent[d] \in SentType
      /\ sess \in [Dest -> SessionType] /\ sent \in [Dest -> SentType] /\ sess[d].rtmp # "none"
  BY <1>2, Running, Known DEF SessionInv, Living
<1>4. PICK head : head = sess[d].cur.head
  OBVIOUS
<1>5. head \in Byte /\ head.kind = "key" /\ Covered(d, head)
  BY <1>2, <1>3, <1>4 DEF SessionInv, InHand, Configured
<1>6. head.no \in Nat /\ head.no >= 1 /\ older \in Nat /\ older >= head.no /\ older \in 1 .. MaxFrame
  <2>1. head.no \in 1 .. MaxFrame /\ head.no <= sess[d].sps /\ head.no <= sess[d].pps
    BY <1>5, ByteFields DEF Covered
  <2>2. sess[d].sps \in 0 .. MaxFrame /\ sess[d].pps \in 0 .. MaxFrame
    BY <1>3 DEF SessionType
  <2>3. older = sess[d].sps \/ older = sess[d].pps
    BY <1>1
  <2> QED BY <2>1, <2>2, <2>3, RtmpAssumption
<1>7. m \in Message /\ m.kind = "config" /\ m.no = older
  BY <1>1, <1>6 DEF Message
<1>8. SendPacket(d, <<m>>, next)
  BY <1>1, <1>6 DEF SendSpsPps
<1>9. /\ next \in SessionType /\ next.ring = sess[d].ring /\ next.rtmp = sess[d].rtmp
      /\ next.sps = sess[d].sps /\ next.pps = sess[d].pps /\ next.on = sess[d].on
      /\ next.pc = "aac" /\ next.cur = sess[d].cur /\ next.key = sess[d].key /\ ~next.sending
  BY <1>1, <1>2, <1>3 DEF SessionType
<1>10. CASE Connected(d)
  <2>1. PICK x, t : x = [next EXCEPT !.sending = TRUE] /\ t = Append(sent[d], m)
    OBVIOUS
  <2>2. sess' = [sess EXCEPT ![d] = x] /\ sent' = [sent EXCEPT ![d] = t]
    BY <1>3, <1>7, <1>8, <1>10, <2>1, SentFacts DEF SendPacket
  <2>3. /\ x \in SessionType /\ x.ring = sess[d].ring /\ x.rtmp = sess[d].rtmp
        /\ x.sps = sess[d].sps /\ x.pps = sess[d].pps /\ x.on = sess[d].on
        /\ x.pc = "aac" /\ x.cur = sess[d].cur /\ x.key = sess[d].key /\ x.sending
    BY <1>9, <2>1 DEF SessionType
  <2>4. sess'[d] = x /\ sent'[d] = t
    BY <1>3, <2>2
  <2>5. Fitting(sent[d], m) /\ Decodable(sent[d])
    BY <1>2, <1>3, <1>7, <1>10, Sendable DEF SessionInv
  <2>6. t \in SentType /\ Decodable(t) /\ t # <<>> /\ t[Len(t)] = m
    BY <1>3, <1>7, <2>1, <2>5, DecodableAppend
  <2>7. Len(t) > 1 => t[Len(t) - 1].no + 1 = head.no
    <3>1. /\ Len(t) = Len(sent[d]) + 1 /\ Len(sent[d]) \in Nat
          /\ \A i \in 1 .. Len(sent[d]) : t[i] = sent[d][i]
          /\ sent[d] # <<>> <=> Len(sent[d]) >= 1
      <4>1. sent[d] \in Seq(Message)
        BY <1>3 DEF SentType, Message
      <4> QED BY <1>7, <2>1, <4>1
    <3>2. Len(sent[d]) >= 1 => sent[d][Len(sent[d])].no + 1 = head.no
      BY <1>2, <1>3, <1>4, <1>10, <3>1 DEF SessionInv, Begun, Continuous, SentUpTo, LastSent
    <3> QED BY <3>1, <3>2
  <2>8. Introduced(d, head.no)'
    BY <1>6, <1>7, <2>4, <2>6, <2>7 DEF Introduced, LastSent
  <2>9. InRing(d)' = InRing(d) /\ NextNo(d)' = NextNo(d) /\ LastNo(d)' = LastNo(d)
    BY <1>2, <2>3, <2>4 DEF InRing, NextNo, LastNo, Pending
  <2>10. Continuous(d)'
    BY <1>2, <1>3, <1>4, <1>5, <1>10, <2>3, <2>4, <2>8, <2>9 DEF SessionInv, Continuous
  <2>11. sess' = [sess EXCEPT ![d] = sess'[d]] /\ sent' = [sent EXCEPT ![d] = sent'[d]]
    BY <2>2, <2>4
  <2> QED BY <1>2, <1>3, <2>3, <2>4, <2>6, <2>10, <2>11, GoesOn
<1>11. CASE ~Connected(d)
  <2>1. sess' = [sess EXCEPT ![d] = next] /\ sent' = sent
    BY <1>8, <1>11 DEF SendPacket
  <2>2. sess'[d] = next /\ sent' = [sent EXCEPT ![d] = sent'[d]]
    BY <1>3, <2>1
  <2>3. ~Connected(d)'
    BY <1>9, <1>11, <2>2 DEF Connected
  <2>4. Continuous(d)'
    BY <2>3 DEF Continuous
  <2>5. Decodable(sent'[d]) /\ sent'[d] \in SentType
    BY <1>3, <2>1 DEF SessionInv
  <2> QED BY <1>2, <1>3, <1>9, <2>1, <2>2, <2>4, <2>5, GoesOn
<1> QED BY <1>10, <1>11

LEMMA SendAacSpecStep == ASSUME RInv, NEW d \in Dest, SendAacSpec(d) PROVE RInv'
PROOF
<1>1. PICK next : next = [sess[d] EXCEPT !.pc = "send", !.key = TRUE]
  OBVIOUS
<1>2. /\ sess[d].pc = "aac" /\ ~sess[d].sending /\ reg' = reg /\ mgr' = mgr /\ count' = count
      /\ SendPacket(d, <<>>, next)
  BY <1>1 DEF SendAacSpec, At
<1>3. /\ d \in reg /\ sess[d] \in SessionType /\ SessionInv(d) /\ sent[d] \in SentType
      /\ sess \in [Dest -> SessionType] /\ sent \in [Dest -> SentType] /\ sess[d].rtmp # "none"
  BY <1>2, Running, Known DEF SessionInv, Living
<1>4. PICK x : /\ sess' = [sess EXCEPT ![d] = x] /\ sent' = sent
               /\ x = next \/ x = [next EXCEPT !.sending = TRUE]
  <2>1. [sent EXCEPT ![d] = sent[d] \o <<>>] = sent
    BY <1>3, SentFacts
  <2> QED BY <1>2, <2>1 DEF SendPacket
<1>5. /\ x \in SessionType /\ x.ring = sess[d].ring /\ x.rtmp = sess[d].rtmp
      /\ x.sps = sess[d].sps /\ x.pps = sess[d].pps /\ x.on = sess[d].on
      /\ x.pc = "send" /\ x.cur = sess[d].cur /\ x.key
  <2>1. /\ next \in SessionType /\ next.ring = sess[d].ring /\ next.rtmp = sess[d].rtmp
        /\ next.sps = sess[d].sps /\ next.pps = sess[d].pps /\ next.on = sess[d].on
        /\ next.pc = "send" /\ next.cur = sess[d].cur /\ next.key
    BY <1>1, <1>3 DEF SessionType
  <2> QED BY <1>4, <2>1 DEF SessionType
<1>6. sess'[d] = x /\ sess' = [sess EXCEPT ![d] = sess'[d]] /\ sent' = [sent EXCEPT ![d] = sent'[d]]
  BY <1>3, <1>4
<1>7. /\ InRing(d)' = InRing(d) /\ NextNo(d)' = NextNo(d) /\ LastNo(d)' = LastNo(d)
      /\ Connected(d)' <=> Connected(d)
      /\ \A no : Introduced(d, no)' <=> Introduced(d, no)
  BY <1>2, <1>4, <1>5, <1>6 DEF InRing, NextNo, LastNo, Pending, Connected, Introduced, LastSent
<1>8. Continuous(d)'
  BY <1>2, <1>3, <1>5, <1>6, <1>7 DEF SessionInv, Configured, Continuous
<1>9. Decodable(sent'[d]) /\ sent'[d] \in SentType
  BY <1>3, <1>4 DEF SessionInv
<1> QED BY <1>2, <1>3, <1>5, <1>6, <1>8, <1>9, GoesOn

LEMMA ProcessVideoStep == ASSUME RInv, NEW d \in Dest, ProcessVideo(d) PROVE RInv'
PROOF
<1>1. PICK next, head, m : /\ next = [sess[d] EXCEPT !.pc = "check", !.cur = NoRecord]
                           /\ head = sess[d].cur.head
                           /\ m = [kind |-> head.kind, no |-> head.no]
  OBVIOUS
<1>2. /\ sess[d].pc = "send" /\ ~sess[d].sending /\ reg' = reg /\ mgr' = mgr /\ count' = count
      /\ SendPacket(d, <<m>>, next)
  BY <1>1 DEF ProcessVideo, At
<1>3. /\ d \in reg /\ sess[d] \in SessionType /\ SessionInv(d) /\ sent[d] \in SentType
      /\ sess \in [Dest -> SessionType] /\ sent \in [Dest -> SentType]
      /\ sess[d].rtmp # "none" /\ sess[d].key
  BY <1>2, Running, Known DEF SessionInv, Living, Begun
<1>4. head \in Byte /\ head.kind \in {"key", "p"} /\ head.no \in 1 .. MaxFrame
  <2>1. head \in Byte
    BY <1>1, <1>2, <1>3 DEF SessionInv, InHand
  <2> QED BY <2>1, ByteFields
<1>5. m \in Message /\ m.kind = head.kind /\ m.no = head.no
  BY <1>1, <1>4 DEF Message
<1>6. NoRecord \in [head : Byte \cup {NoByte}, body : Seq(Byte)]
  <2>1. <<>> \in Seq(Byte)
    OBVIOUS
  <2> QED BY <2>1 DEF NoRecord
<1>7. /\ next \in SessionType /\ next.ring = sess[d].ring /\ next.rtmp = sess[d].rtmp
      /\ next.sps = sess[d].sps /\ next.pps = sess[d].pps /\ next.on = sess[d].on
      /\ next.pc = "check" /\ next.key /\ ~next.sending
  BY <1>1, <1>2, <1>3, <1>6 DEF SessionType
<1>8. CASE Connected(d)
  <2>1. PICK x, t : x = [next EXCEPT !.sending = TRUE] /\ t = Append(sent[d], m)
    OBVIOUS
  <2>2. sess' = [sess EXCEPT ![d] = x] /\ sent' = [sent EXCEPT ![d] = t]
    BY <1>2, <1>3, <1>5, <1>8, <2>1, SentFacts DEF SendPacket
  <2>3. /\ x \in SessionType /\ x.ring = sess[d].ring /\ x.rtmp = sess[d].rtmp
        /\ x.sps = sess[d].sps /\ x.pps = sess[d].pps /\ x.on = sess[d].on
        /\ x.pc = "check" /\ x.key /\ x.sending
    BY <1>7, <2>1 DEF SessionType
  <2>4. sess'[d] = x /\ sent'[d] = t
    BY <1>3, <2>2
  <2>5. Fitting(sent[d], m) /\ Decodable(sent[d])
    BY <1>1, <1>2, <1>3, <1>4, <1>5, <1>8, Sendable DEF SessionInv
  <2>6. t \in SentType /\ Decodable(t) /\ t # <<>> /\ t[Len(t)] = m
    BY <1>3, <1>5, <2>1, <2>5, DecodableAppend
  <2>7. InRing(d)' = InRing(d) /\ NextNo(d)' = NextNo(d) /\ LastNo(d)' = LastNo(d)
    BY <1>2, <2>3, <2>4 DEF InRing, NextNo, LastNo, Pending
  <2>8. /\ head.no + 1 = NextNo(d)
        /\ InRing(d) # <<>> => InRing(d)[Len(InRing(d))].no = LastNo(d)
    BY <1>1, <1>2, <1>3, <1>8 DEF SessionInv, Continuous
  <2>9. SentUpTo(d, NextNo(d))'
    BY <1>4, <1>5, <2>4, <2>6, <2>7, <2>8 DEF SentUpTo, LastSent
  <2>10. Continuous(d)'
    BY <2>3, <2>4, <2>7, <2>8, <2>9 DEF Continuous
  <2>11. sess' = [sess EXCEPT ![d] = sess'[d]] /\ sent' = [sent EXCEPT ![d] = sent'[d]]
    BY <2>2, <2>4
  <2> QED BY <1>2, <1>3, <2>3, <2>4, <2>6, <2>10, <2>11, GoesOn
<1>9. CASE ~Connected(d)
  <2>1. sess' = [sess EXCEPT ![d] = next] /\ sent' = sent
    BY <1>2, <1>9 DEF SendPacket
  <2>2. sess'[d] = next /\ sent' = [sent EXCEPT ![d] = sent'[d]]
    BY <1>3, <2>1
  <2>3. ~Connected(d)'
    BY <1>7, <1>9, <2>2 DEF Connected
  <2>4. Continuous(d)'
    BY <2>3 DEF Continuous
  <2>5. Decodable(sent'[d]) /\ sent'[d] \in SentType
    BY <1>3, <2>1 DEF SessionInv
  <2> QED BY <1>2, <1>3, <1>7, <2>1, <2>2, <2>4, <2>5, GoesOn
<1> QED BY <1>8, <1>9

LEMMA EndSendStep == ASSUME RInv, NEW d \in Dest, EndSend(d) PROVE RInv'
PROOF
<1>1. sess[d].sending /\ reg' = reg /\ mgr' = mgr /\ count' = count /\ sent' = sent
  BY DEF EndSend
<1>2. /\ d \in reg /\ sess[d] \in SessionType /\ SessionInv(d) /\ sent[d] \in SentType
      /\ sess \in [Dest -> SessionType] /\ sent \in [Dest -> SentType] /\ sess[d].rtmp # "none"
      /\ sess[d].pc \in {"aac", "send", "check"}
  <2>1. SessionInv(d) /\ sess[d].pc \in {"aac", "send", "check"}
    BY <1>1, Known DEF SessionInv, Living
  <2> QED BY <2>1, Running, Known DEF SessionInv, Living
<1>10. PICK rtmp \in {"none", "open", "closed"} :
        /\ sess' = [sess EXCEPT ![d] = [sess[d] EXCEPT !.sending = FALSE, !.rtmp = rtmp]]
        /\ rtmp = sess[d].rtmp \/ rtmp = "closed"
  <2>1. CASE sess' = [sess EXCEPT ![d].sending = FALSE]
    <3>1. [sess[d] EXCEPT !.sending = FALSE] = [sess[d] EXCEPT !.sending = FALSE, !.rtmp = sess[d].rtmp]
      BY <1>2 DEF SessionType
    <3>2. sess' = [sess EXCEPT ![d] = [sess[d] EXCEPT !.sending = FALSE]]
      BY <1>2, <2>1
    <3>3. sess[d].rtmp \in {"none", "open", "closed"}
      BY <1>2 DEF SessionType
    <3> QED BY <3>1, <3>2, <3>3
  <2>2. CASE sess' = [sess EXCEPT ![d].sending = FALSE, ![d].rtmp = "closed"]
    <3>1. sess' = [sess EXCEPT ![d] = [sess[d] EXCEPT !.sending = FALSE, !.rtmp = "closed"]]
      BY <1>2, <2>2
    <3> QED BY <3>1
  <2> QED BY <2>1, <2>2 DEF EndSend
<1>3. PICK x : /\ x = [sess[d] EXCEPT !.sending = FALSE, !.rtmp = rtmp]
               /\ sess' = [sess EXCEPT ![d] = x]
               /\ rtmp = sess[d].rtmp \/ rtmp = "closed"
  BY <1>10
<1>4. /\ x \in SessionType /\ x.ring = sess[d].ring /\ x.rtmp = rtmp
      /\ x.sps = sess[d].sps /\ x.pps = sess[d].pps /\ x.on = sess[d].on
      /\ x.pc = sess[d].pc /\ x.cur = sess[d].cur /\ x.key = sess[d].key /\ ~x.sending
  BY <1>2, <1>3 DEF SessionType
<1>5. sess'[d] = x /\ sess' = [sess EXCEPT ![d] = sess'[d]] /\ sent' = [sent EXCEPT ![d] = sent'[d]]
  BY <1>1, <1>2, <1>3
<1>6. /\ InRing(d)' = InRing(d) /\ NextNo(d)' = NextNo(d) /\ LastNo(d)' = LastNo(d)
      /\ Connected(d)' => Connected(d)
      /\ \A no : (SentUpTo(d, no)' <=> SentUpTo(d, no)) /\ (Introduced(d, no)' <=> Introduced(d, no))
  BY <1>1, <1>3, <1>4, <1>5 DEF InRing, NextNo, LastNo, Pending, Connected, SentUpTo, Introduced, LastSent
<1>7. Continuous(d)'
  BY <1>2, <1>4, <1>5, <1>6 DEF SessionInv, Continuous
<1>8. /\ Decodable(sent'[d]) /\ sent'[d] \in SentType
      /\ x.pc \notin {"aac", "send"} /\ ~x.key => sent'[d] = <<>>
  BY <1>1, <1>2, <1>4 DEF SessionInv, Begun
<1>9. x.key <=> sess[d].key \/ x.pc = "send"
  BY <1>2, <1>4 DEF SessionInv, Begun
<1> QED BY <1>1, <1>2, <1>3, <1>4, <1>5, <1>7, <1>8, <1>9, GoesOn

-----------------------------------------------------------------------------
(* The theorems.                                                            *)

LEMMA RInvStep == RInv /\ [Next]_vars => RInv'
PROOF
<1> SUFFICES ASSUME RInv, [Next]_vars PROVE RInv'
  OBVIOUS
<1>1. ASSUME NEW d \in Dest, Create(d) PROVE RInv'
  BY <1>1, CreateStep
<1>2. ASSUME NEW d \in Dest, Delete({d}) PROVE RInv'
  BY <1>2, DeleteStep
<1>3. ASSUME NEW d \in Dest, Worker(d) PROVE RInv'
  BY <1>3, CheckStartStep, TakeStep, SendSpsPpsStep, SendAacSpecStep, ProcessVideoStep DEF Worker
<1>4. ASSUME NEW s \in Stream, Delete(OfStream(s)) PROVE RInv'
  <2>1. OfStream(s) \in SUBSET Dest
    BY DEF OfStream
  <2> QED BY <1>4, <2>1, DeleteStep
<1>5. ASSUME NEW s \in Stream, NEW kind \in {"key", "p"}, NEW len \in BodyLen, Post(s, kind, len)
      PROVE  RInv'
  BY <1>5, PostStep
<1>6. CASE Manager \/ StopClose
  BY <1>6, VisitStep, InputOneNaluStep, StopFlagStep, StopCloseStep, StopJoinStep DEF Manager
<1>7. CASE UNCHANGED vars
  <2>1. sess' = sess /\ reg' = reg /\ mgr' = mgr /\ count' = count /\ sent' = sent
    BY <1>7 DEF vars
  <2>2. TypeOK'
    BY <2>1, Known, TypeParts
  <2>3. Serving'
    BY <2>1, Known DEF Serving
  <2>4. ASSUME NEW e \in Dest PROVE SessionInv(e)'
    <3>1. LastNo(e)' = LastNo(e)
      BY <2>1 DEF LastNo, Pending
    <3>2. mgr'.pc \in {"close", "join"} /\ mgr'.dest = e => ~sess[e].on
      BY <2>1, Known DEF SessionInv, Living
    <3> QED BY <2>1, <3>1, <3>2, Known, Untouched
  <2> QED BY <2>2, <2>3, <2>4 DEF RInv
<1>8. ASSUME NEW d \in Dest, EndSend(d) PROVE RInv'
  BY <1>8, EndSendStep
<1> QED BY <1>1, <1>2, <1>3, <1>4, <1>5, <1>6, <1>7, <1>8 DEF Next

LEMMA RInvAlways == Spec => []RInv
  BY RInvInitially, RInvStep, PTL DEF Spec

\* Sessions, ring, manager and output stay well typed, whatever is published,
\* deleted and lost.
THEOREM RtmpTypeCorrect == Spec => []TypeOK
PROOF
<1>1. RInv => TypeOK
  BY DEF RInv
<1> QED BY <1>1, RInvAlways, PTL

\* session_manager::delete_session and process_data: a session that left m_sess
\* is not started, its thread has ended and is not inside librtmp, and its RTMP is
\* freed, and no thread runs on a freed one.
THEOREM ErasedSessionsOver == Spec => []ErasedIsOver
PROOF
<1>1. RInv => ErasedIsOver
  <2>1. ASSUME NEW d \in Dest, SessionInv(d), d \notin reg PROVE ~sess[d].sending
    BY <2>1 DEF SessionInv, Living
  <2> QED BY <2>1 DEF RInv, SessionInv, Living, ErasedIsOver
<1> QED BY <1>1, RInvAlways, PTL

\* input_one_nalu and on_process: what a thread sends is a record as it was put
\* in, for any size of the ring and of the frames.
THEOREM RecordsStayIntact == Spec => []RecordsIntact
PROOF
<1>1. RInv => RecordsIntact
  BY DEF RInv, SessionInv, InHand, RecordsIntact
<1> QED BY <1>1, RInvAlways, PTL

\* What a server gets begins with parameter sets and a key frame, has parameter
\* sets not older than the frame before every key frame, and has no gap, for any sessions, any size of the ring and any frames, wherever the
\* connection breaks or the ring overflows.
THEOREM AlwaysPlayable == Spec => []Playable
PROOF
<1>1. RInv => Playable
  <2>1. SUFFICES ASSUME RInv, NEW d \in Dest PROVE
          /\ sent[d] # <<>> => sent[d][1].kind = "config"
          /\ \A i \in 1 .. Len(sent[d]) - 1 :
               LET a == sent[d][i]
                   b == sent[d][i + 1]
               IN  /\ b.kind = "key" <=> a.kind = "config"
                   /\ b.kind = "key" => a.no >= b.no
                   /\ b.kind = "key" /\ i > 1 => b.no = sent[d][i - 1].no + 1
                   /\ b.kind = "p" => b.no = a.no + 1
    BY DEF Playable
  <2>2. Decodable(sent[d])
    BY <2>1 DEF RInv, SessionInv
  <2> QED BY <2>2 DEF Decodable
<1> QED BY <1>1, RInvAlways, PTL
=============================================================================
