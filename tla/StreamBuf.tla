------------------------------ MODULE StreamBuf ------------------------------
(***************************************************************************)
(* util::stream_buf, the ring of bytes between a producer and a consumer   *)
(* thread: the bytes, the offset of m_data_beg and m_data_len.  The offset *)
(* may be Cap, one past the last byte, when a get ended there.             *)
(***************************************************************************)
EXTENDS Naturals, Sequences

CONSTANTS
  Cap,    \* buf_len of the constructor, not 0
  Byte,   \* what a cell holds
  NoByte  \* what an uninitialized cell holds

Index == 0 .. Cap - 1

Ring == [buf : [Index -> Byte \cup {NoByte}], beg : 0 .. Cap, len : 0 .. Cap]

EmptyRing == [buf |-> [i \in Index |-> NoByte], beg |-> 0, len |-> 0]

RemainLen(r) == Cap - r.len

\* data_end, wrapped
DataEnd(r) == LET end == r.beg + r.len IN IF end >= Cap THEN end - Cap ELSE end

\* The number of the byte that input_data puts at index i, in the two parts
\* that memcpy writes
PartOf(r, i) == LET end == DataEnd(r) IN
  IF i >= end THEN i - end + 1 ELSE Cap - end + i + 1

\* input_data of s; without room for it nothing happens
InputData(r, s) ==
  IF RemainLen(r) < Len(s) THEN r
  ELSE [r EXCEPT !.buf = [i \in Index |-> IF PartOf(r, i) <= Len(s) THEN s[PartOf(r, i)] ELSE @[i]],
                 !.len = @ + Len(s)]

\* Mutant: the second part is read behind the first one.
ReadAtNoWrap(r, i) == r.buf[IF r.beg + i <= Cap THEN r.beg + i - 1 ELSE Cap - 1]

\* The i-th byte that copy_data and get_data read, in their two parts
ReadAt(r, i) == LET left == Cap - r.beg IN
  IF i <= left THEN r.buf[r.beg + i - 1] ELSE r.buf[i - left - 1]

\* copy_data of n bytes, when there are as many
CopyData(r, n) == [i \in 1 .. n |-> ReadAt(r, i)]

\* Mutant: a get that ends at the end of the ring moves the offset beyond it.
GetDataNoWrap(r, n) == [r EXCEPT !.beg = @ + n, !.len = @ - n]

\* get_data: copy_data, and the bytes leave the ring; nothing happens when
\* there are fewer
GetData(r, n) ==
  IF r.len < n THEN r
  ELSE [r EXCEPT !.beg = IF @ + n > Cap THEN n - (Cap - @) ELSE @ + n, !.len = @ - n]

\* What a reader gets who reads everything
Contents(r) == CopyData(r, r.len)
=============================================================================
