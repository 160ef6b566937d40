--------------------------- MODULE StreamBufProofs ---------------------------
(***************************************************************************)
(* The ring of StreamBuf is a queue, whatever its capacity and wherever    *)
(* its data begins: input_data appends, copy_data reads the front and      *)
(* get_data removes it.                                                    *)
(***************************************************************************)
EXTENDS StreamBuf, TLAPS

\* Reading everything is a sequence of as many bytes as the ring says it has.
LEMMA ContentsLen ==
  ASSUME NEW r \in Ring
  PROVE  Contents(r) = [i \in 1 .. r.len |-> ReadAt(r, i)] /\ r.len \in Nat
  BY DEF Contents, CopyData, Ring

\* get_data of n bytes leaves a ring.
LEMMA GetDataType ==
  ASSUME Cap \in Nat \ {0}, NEW r \in Ring, NEW n \in Nat
  PROVE  GetData(r, n) \in Ring
PROOF
<1> DEFINE g == GetData(r, n)
<1>1. CASE r.len < n
  BY <1>1 DEF GetData
<1>2. CASE ~(r.len < n)
  <2>1. g = [buf |-> r.buf, len |-> r.len - n,
             beg |-> IF r.beg + n > Cap THEN n - (Cap - r.beg) ELSE r.beg + n]
    BY <1>2 DEF GetData, Ring
  <2>2. r.beg \in 0 .. Cap /\ r.len \in 0 .. Cap /\ r.buf \in [Index -> Byte \cup {NoByte}]
    BY DEF Ring
  <2>3. r.len - n \in 0 .. Cap
    BY <1>2, <2>2
  <2>4. (IF r.beg + n > Cap THEN n - (Cap - r.beg) ELSE r.beg + n) \in 0 .. Cap
    BY <1>2, <2>2
  <2>5. QED BY <2>1, <2>2, <2>3, <2>4 DEF Ring
<1>3. QED BY <1>1, <1>2

\* get_data removes what it read from the front and nothing else (the records
\* of a session stay in order when one of them wraps around).
THEOREM GetRemovesFront ==
  ASSUME Cap \in Nat \ {0}, NEW r \in Ring, NEW n \in 0 .. r.len
  PROVE  Contents(GetData(r, n)) = [i \in 1 .. r.len - n |-> Contents(r)[n + i]]
PROOF
<1> DEFINE g == GetData(r, n)
<1>1. r.beg \in 0 .. Cap /\ r.len \in 0 .. Cap /\ n \in Nat /\ n <= r.len
  BY DEF Ring
<1>2. /\ g.buf = r.buf
      /\ g.len = r.len - n
      /\ g.beg = IF r.beg + n > Cap THEN n - (Cap - r.beg) ELSE r.beg + n
  BY <1>1 DEF GetData, Ring
<1>3. ASSUME NEW i \in 1 .. r.len - n
      PROVE  ReadAt(g, i) = ReadAt(r, n + i)
  <2>1. CASE r.beg + n > Cap
    BY <1>1, <1>2, <2>1 DEF ReadAt
  <2>2. CASE r.beg + n <= Cap
    BY <1>1, <1>2, <2>2 DEF ReadAt
  <2>3. QED BY <2>1, <2>2, <1>1
<1>4. \A i \in 1 .. r.len - n : Contents(r)[n + i] = ReadAt(r, n + i)
  BY <1>1 DEF Contents, CopyData
<1>5. QED BY <1>1, <1>2, <1>3, <1>4 DEF Contents, CopyData

\* input_data leaves a ring, and appends: what was there stays where the
\* reader finds it, also when the new bytes wrap around, and the new bytes
\* follow.
THEOREM InputAppends ==
  ASSUME Cap \in Nat \ {0}, NEW r \in Ring, NEW s \in Seq(Byte), Len(s) <= RemainLen(r)
  PROVE  /\ InputData(r, s) \in Ring
         /\ Contents(InputData(r, s)) = Contents(r) \o s
PROOF
<1> DEFINE w == InputData(r, s)
<1>1. /\ r.beg \in 0 .. Cap /\ r.len \in 0 .. Cap /\ Cap \in Nat /\ Cap > 0
      /\ Len(s) \in Nat /\ r.len + Len(s) <= Cap
  BY DEF Ring, RemainLen
<1>2. DataEnd(r) \in 0 .. Cap
  BY <1>1 DEF DataEnd
<1>3. /\ w.buf = [i \in Index |-> IF PartOf(r, i) <= Len(s) THEN s[PartOf(r, i)] ELSE r.buf[i]]
      /\ w.len = r.len + Len(s)
      /\ w.beg = r.beg
  <2>1. ~(RemainLen(r) < Len(s))
    BY <1>1 DEF RemainLen
  <2>2. QED BY <1>1, <2>1 DEF InputData, Ring
<1>4. \A i \in Index : PartOf(r, i) \in 1 .. Cap
  BY <1>1, <1>2 DEF PartOf, Index
<1>5. w \in Ring
  <2>1. \A k \in 1 .. Len(s) : s[k] \in Byte
    OBVIOUS
  <2>2. \A i \in Index : w.buf[i] \in Byte \cup {NoByte}
    BY <1>3, <1>4, <2>1 DEF Ring, Index
  <2>3. w.buf \in [Index -> Byte \cup {NoByte}]
    BY <1>3, <2>2
  <2>4. w = [buf |-> w.buf, beg |-> w.beg, len |-> w.len]
    BY DEF InputData, Ring
  <2>5. QED BY <1>1, <1>3, <2>3, <2>4 DEF Ring
<1>6. ASSUME NEW i \in 1 .. r.len
      PROVE  ReadAt(w, i) = ReadAt(r, i)
  <2> DEFINE at == IF i <= Cap - r.beg THEN r.beg + i - 1 ELSE i - (Cap - r.beg) - 1
  <2>1. at \in Index
    BY <1>1 DEF Index
  <2>2. PartOf(r, at) > Len(s)
    BY <1>1 DEF PartOf, DataEnd
  <2>3. w.buf[at] = r.buf[at]
    BY <1>1, <1>3, <1>4, <2>1, <2>2
  <2>4. QED BY <1>1, <1>3, <2>3 DEF ReadAt
<1>7. ASSUME NEW k \in 1 .. Len(s)
      PROVE  ReadAt(w, r.len + k) = s[k]
  <2> DEFINE i == r.len + k
             at == IF i <= Cap - r.beg THEN r.beg + i - 1 ELSE i - (Cap - r.beg) - 1
  <2>1. at \in Index
    BY <1>1 DEF Index
  <2>2. PartOf(r, at) = k
    BY <1>1 DEF PartOf, DataEnd
  <2>3. w.buf[at] = s[k]
    BY <1>1, <1>3, <2>1, <2>2
  <2>4. QED BY <1>1, <1>3, <2>3 DEF ReadAt
<1>8. Contents(w) = Contents(r) \o s
  <2>1. Contents(w) = [i \in 1 .. r.len + Len(s) |-> ReadAt(w, i)]
    BY <1>3 DEF Contents, CopyData
  <2>2. Contents(r) \o s = [i \in 1 .. r.len + Len(s) |->
                              IF i <= r.len THEN ReadAt(r, i) ELSE s[i - r.len]]
    <3> DEFINE c == Contents(r)
    <3>1. c = [i \in 1 .. r.len |-> ReadAt(r, i)]
      BY DEF Contents, CopyData
    <3>2. c \in Seq({ReadAt(r, i) : i \in 1 .. r.len}) /\ Len(c) = r.len
      BY <1>1, <3>1
    <3>3. QED BY <1>1, <3>1, <3>2
  <2>3. \A i \in 1 .. r.len + Len(s) :
          ReadAt(w, i) = IF i <= r.len THEN ReadAt(r, i) ELSE s[i - r.len]
    <3>1. TAKE i \in 1 .. r.len + Len(s)
    <3>2. CASE i <= r.len
      BY <1>1, <1>6, <3>2
    <3>3. CASE i > r.len
      <4>1. i - r.len \in 1 .. Len(s) /\ r.len + (i - r.len) = i
        BY <1>1, <3>3
      <4>2. QED BY <1>1, <1>7, <3>3, <4>1
    <3>4. QED BY <1>1, <3>2, <3>3
  <2>4. QED BY <2>1, <2>2, <2>3
<1>9. QED BY <1>5, <1>8
=============================================================================
