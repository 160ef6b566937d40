-------------------------- MODULE RtspInputProofs --------------------------
(***************************************************************************)
(* However TCP cuts and joins what a client sends, for any requests, any   *)
(* sequence of them and any size of the server's buffer.                   *)
(*                                                                         *)
(* The definitions of RtspInput that run through a message or through the  *)
(* messages are recursive functions, so the lemmas about them are          *)
(* inductions.  Induction for a set of naturals (SetInduction) follows     *)
(* from the pigeonhole principle, which the library proves.                *)
(***************************************************************************)
EXTENDS RtspInput, Integers, FiniteSetTheorems, SequenceTheorems, TLAPS

-----------------------------------------------------------------------------
(* Induction and recursion.                                                 *)

\* A set that has 0 and with every number the next has all of them: the first
\* one it does not have would leave its predecessors without enough successors.
LEMMA SetInduction ==
  ASSUME NEW S \in SUBSET Nat, 0 \in S, \A n \in S : n + 1 \in S
  PROVE  \A n \in Nat : n \in S
PROOF
<1> SUFFICES ASSUME NEW n \in Nat, n \notin S PROVE FALSE
  OBVIOUS
<1> DEFINE T == S \cap (0 .. n)
           U == T \ {0}
           f == [k \in T |-> k + 1]
<1>1. IsFiniteSet(T)
  <2>1. IsFiniteSet(0 .. n)
    BY FS_Interval
  <2>2. T \in SUBSET (0 .. n)
    OBVIOUS
  <2>3. QED BY <2>1, <2>2, FS_Subset
<1>2. 0 \in T
  OBVIOUS
<1>3. f \in [T -> U]
  OBVIOUS
<1>4. \A x, y \in T : f[x] = f[y] => x = y
  OBVIOUS
<1> HIDE DEF T, f
<1>5. IsFiniteSet(U) /\ Cardinality(U) = Cardinality(T) - 1
  BY <1>1, <1>2, FS_RemoveElement
<1>6. Cardinality(T) \in Nat
  BY <1>1, FS_CardinalityType
<1> HIDE DEF U
<1>7. Cardinality(U) < Cardinality(T)
  BY <1>5, <1>6
<1>8. QED BY <1>1, <1>3, <1>4, <1>5, <1>7, FS_PigeonHole

\* The same up to a bound.
LEMMA BoundedInduction ==
  ASSUME NEW N \in Nat, NEW S, 0 \in S, \A n \in 0 .. N - 1 : n \in S => n + 1 \in S
  PROVE  \A n \in 0 .. N : n \in S
PROOF
<1> DEFINE T == {n \in Nat : n <= N => n \in S}
<1>1. T \in SUBSET Nat /\ 0 \in T
  OBVIOUS
<1>2. ASSUME NEW n \in T PROVE n + 1 \in T
  OBVIOUS
<1> HIDE DEF T
<1>3. \A n \in Nat : n \in T
  BY <1>1, <1>2, SetInduction
<1>4. QED BY <1>3 DEF T

\* A function on 0 .. n that begins with b and goes on by step,
Recurs(g, n, b, step) == g[0] = b /\ \A i \in 1 .. n : g[i] = step[i][g[i - 1]]

\* exists.
LEMMA RecursionExists ==
  ASSUME NEW N \in Nat, NEW V, NEW b \in V, NEW step \in [1 .. N -> [V -> V]]
  PROVE  \E g \in [0 .. N -> V] : Recurs(g, N, b, step)
PROOF
<1> DEFINE Upto(n, g) == Recurs(g, n, b, step)
           S == {n \in Nat : \E g \in [0 .. n -> V] : Upto(n, g)}
<1>1. 0 \in S
  <2>1. [i \in 0 .. 0 |-> b] \in [0 .. 0 -> V] /\ Upto(0, [i \in 0 .. 0 |-> b])
    BY DEF Recurs
  <2>2. QED BY <2>1
<1>2. ASSUME NEW n \in 0 .. N - 1, n \in S PROVE n + 1 \in S
  <2>1. PICK g \in [0 .. n -> V] : Upto(n, g)
    BY <1>2
  <2> DEFINE h == [i \in 0 .. n + 1 |-> IF i <= n THEN g[i] ELSE step[n + 1][g[n]]]
  <2>2. h \in [0 .. n + 1 -> V]
    BY <2>1
  <2>3. h[0] = b
    BY <2>1 DEF Recurs
  <2>4. ASSUME NEW i \in 1 .. n + 1 PROVE h[i] = step[i][h[i - 1]]
    <3>1. CASE i = n + 1
      BY <3>1
    <3>2. CASE i <= n
      BY <2>1, <3>2 DEF Recurs
    <3>3. QED BY <3>1, <3>2
  <2>5. Upto(n + 1, h)
    BY <2>3, <2>4 DEF Recurs
  <2> HIDE DEF h, Upto
  <2>6. n + 1 \in Nat
    OBVIOUS
  <2>7. QED BY <2>2, <2>5, <2>6
<1>3. \A n \in 0 .. N - 1 : n \in S => n + 1 \in S
  BY <1>2
<1> HIDE DEF S
<1>4. \A n \in 0 .. N : n \in S
  BY <1>1, <1>3, BoundedInduction, Zenon
<1>5. N \in S
  BY <1>4
<1>6. QED BY <1>5 DEF S

-----------------------------------------------------------------------------
(* What the recursive definitions compute.                                  *)

Kind == DOMAIN Bytes
ReqType == [state : States, method : Seq(Char), named : BOOLEAN, counted : BOOLEAN,
            need : 0 .. 2, head : BOOLEAN, data : Seq(Char)]

\* What a client has sent grows by its next message.
LEMMA SentDef ==
  ASSUME NEW ms \in Seq(Kind)
  PROVE  /\ Sent(ms) \in [0 .. Len(ms) -> Seq(Char)]
         /\ Sent(ms)[0] = <<>>
         /\ \A i \in 1 .. Len(ms) : Sent(ms)[i] = Sent(ms)[i - 1] \o Bytes[ms[i]]
PROOF
<1> DEFINE N == Len(ms)
           V == Seq(Char)
           step == [i \in 1 .. N |-> [v \in V |-> v \o Bytes[ms[i]]]]
           F(f) == [i \in 0 .. N |-> IF i = 0 THEN <<>> ELSE f[i - 1] \o Bytes[ms[i]]]
           s == Sent(ms)
<1>1. N \in Nat /\ <<>> \in V
  OBVIOUS
<1>2. \A i \in 1 .. N : Bytes[ms[i]] \in V
  BY InputAssumption DEF Kind
<1>3. \A i \in 1 .. N : \A v \in V : v \o Bytes[ms[i]] \in V
  BY <1>2
<1>4. s = CHOOSE f : f = F(f)
  BY DEF Sent
<1> HIDE DEF V, N, s
<1>5. step \in [1 .. N -> [V -> V]]
  BY <1>3
<1>6. \A i \in 1 .. N : \A v \in V : step[i][v] = v \o Bytes[ms[i]]
  OBVIOUS
<1> HIDE DEF step
<1>7. PICK g \in [0 .. N -> V] : Recurs(g, N, <<>>, step)
  BY <1>1, <1>5, RecursionExists
<1>8. ASSUME NEW i \in 0 .. N PROVE g[i] = F(g)[i]
  <2>1. CASE i = 0
    BY <1>7, <2>1 DEF Recurs
  <2>2. CASE i # 0
    <3>1. i \in 1 .. N /\ i - 1 \in 0 .. N
      BY <1>1, <2>2
    <3>2. g[i] = g[i - 1] \o Bytes[ms[i]]
      BY <1>6, <1>7, <3>1 DEF Recurs
    <3>3. QED BY <2>2, <3>2
  <2>3. QED BY <2>1, <2>2
<1>9. g = F(g)
  BY <1>8
<1>10. s = F(s)
  BY <1>4, <1>9
<1>11. s[0] = <<>> /\ \A i \in 1 .. N : s[i] = s[i - 1] \o Bytes[ms[i]]
  BY <1>1, <1>10
<1>12. \A i \in 0 .. N : s[i] \in V
  <2> DEFINE S == {i \in 0 .. N : s[i] \in V}
  <2>1. 0 \in S
    BY <1>1, <1>11
  <2>2. \A i \in 0 .. N - 1 : i \in S => i + 1 \in S
    <3> SUFFICES ASSUME NEW i \in 0 .. N - 1, s[i] \in V PROVE s[i + 1] \in V
      BY <1>1
    <3>1. i + 1 \in 1 .. N /\ (i + 1) - 1 = i
      BY <1>1
    <3>2. s[i + 1] = s[i] \o Bytes[ms[i + 1]]
      BY <1>11, <3>1
    <3>3. QED BY <1>3, <3>1, <3>2
  <2> HIDE DEF S
  <2>3. \A i \in 0 .. N : i \in S
    BY <1>1, <2>1, <2>2, BoundedInduction, Zenon
  <2>4. QED BY <2>3 DEF S
<1>13. s \in [0 .. N -> V]
  BY <1>10, <1>12
<1>14. QED BY <1>11, <1>13 DEF s, N, V

\* The automaton stays among its states.
LEMMA ConsumeType ==
  ASSUME NEW q \in ReqType, NEW ch \in Char, Takes(q, ch)
  PROVE  Consume(q, ch) \in States
PROOF
<1>1. \A e \in Consumes : e[3] \in States
  <2>1. \A from, chars, to : \A e \in Letters(from, chars, to) : e[3] = to
    BY DEF Letters
  <2>2. \A e \in Separators : e[3] \in States
    BY DEF Separators, States
  <2>3. QED BY <2>1, <2>2 DEF Consumes, States
<1>2. NextStates(q.state, ch) \subseteq States
  BY <1>1 DEF NextStates
<1>3. Consume(q, ch) \in NextStates(q.state, ch)
  BY DEF Takes, Consume
<1>4. QED BY <1>2, <1>3

LEMMA TakeHeadType ==
  ASSUME NEW q \in ReqType, NEW ch \in Char, Takes(q, ch)
  PROVE  TakeHead(q, ch) \in ReqType
PROOF
<1> DEFINE to == Consume(q, ch)
<1>1. to \in States
  BY ConsumeType
<1> HIDE DEF to
<1>2. TakeHead(q, ch) =
        [q EXCEPT !.state = to,
            !.method = IF to = "method" THEN Append(q.method, ch) ELSE q.method,
            !.named = CASE to = "header_name" -> q.state # "header_name" /\ ch = "L"
                        [] to = "header_line_next" -> FALSE
                        [] OTHER -> q.named,
            !.counted = q.counted \/ (q.named /\ to = "header_line_next"),
            !.need = IF q.named /\ ~q.counted /\ to = "header_value" /\ ch \in Digit
                       THEN Numeral(ch) ELSE q.need,
            !.head = to = "done"]
  BY DEF TakeHead, to
<1>3. (IF to = "method" THEN Append(q.method, ch) ELSE q.method) \in Seq(Char)
  BY DEF ReqType
<1>4. (CASE to = "header_name" -> q.state # "header_name" /\ ch = "L"
         [] to = "header_line_next" -> FALSE
         [] OTHER -> q.named) \in BOOLEAN
  BY DEF ReqType
<1>5. (IF q.named /\ ~q.counted /\ to = "header_value" /\ ch \in Digit
         THEN Numeral(ch) ELSE q.need) \in 0 .. 2
  BY DEF ReqType, Numeral
<1>6. (q.counted \/ (q.named /\ to = "header_line_next")) \in BOOLEAN /\ (to = "done") \in BOOLEAN
  OBVIOUS
<1>7. QED BY <1>1, <1>2, <1>3, <1>4, <1>5, <1>6 DEF ReqType

LEMMA MoreType ==
  ASSUME NEW q \in ReqType, NEW ch \in Char
  PROVE  More(q, ch) \in ReqType
PROOF
<1>1. CASE q.head
  <2>1. Append(q.data, ch) \in Seq(Char)
    BY DEF ReqType
  <2>2. More(q, ch) = [q EXCEPT !.data = Append(q.data, ch)]
    BY <1>1 DEF More
  <2>3. QED BY <2>1, <2>2 DEF ReqType
<1>2. CASE ~q.head
  BY <1>2, TakeHeadType DEF More
<1>3. QED BY <1>1, <1>2

LEMMA NewRequestType == NewRequest \in ReqType
  BY DEF NewRequest, ReqType, States

\* A message read alone is read character by character.
LEMMA AloneDef ==
  ASSUME NEW m \in Kind
  PROVE  /\ Alone(m) \in [0 .. Len(Bytes[m]) -> ReqType]
         /\ Alone(m)[0] = NewRequest
         /\ \A i \in 1 .. Len(Bytes[m]) : Alone(m)[i] = More(Alone(m)[i - 1], Bytes[m][i])
PROOF
<1> DEFINE N == Len(Bytes[m])
           V == ReqType
           step == [i \in 1 .. N |-> [v \in V |-> More(v, Bytes[m][i])]]
           F(f) == [i \in 0 .. N |-> IF i = 0 THEN NewRequest ELSE More(f[i - 1], Bytes[m][i])]
           s == Alone(m)
<1>1. N \in Nat /\ NewRequest \in V
  BY InputAssumption, NewRequestType DEF Kind
<1>2. \A i \in 1 .. N : Bytes[m][i] \in Char
  BY InputAssumption DEF Kind
<1>3. \A i \in 1 .. N : \A v \in V : More(v, Bytes[m][i]) \in V
  BY <1>2, MoreType
<1>4. s = CHOOSE f : f = F(f)
  BY DEF Alone
<1> HIDE DEF V, N, s
<1>5. step \in [1 .. N -> [V -> V]]
  BY <1>3
<1>6. \A i \in 1 .. N : \A v \in V : step[i][v] = More(v, Bytes[m][i])
  OBVIOUS
<1> HIDE DEF step
<1>7. PICK g \in [0 .. N -> V] : Recurs(g, N, NewRequest, step)
  BY <1>1, <1>5, RecursionExists
<1>8. ASSUME NEW i \in 0 .. N PROVE g[i] = F(g)[i]
  <2>1. CASE i = 0
    BY <1>7, <2>1 DEF Recurs
  <2>2. CASE i # 0
    <3>1. i \in 1 .. N /\ i - 1 \in 0 .. N
      BY <1>1, <2>2
    <3>2. g[i] = More(g[i - 1], Bytes[m][i])
      BY <1>6, <1>7, <3>1 DEF Recurs
    <3>3. QED BY <2>2, <3>2
  <2>3. QED BY <2>1, <2>2
<1>9. g = F(g)
  BY <1>8
<1>10. s = F(s)
  BY <1>4, <1>9
<1>11. s[0] = NewRequest /\ \A i \in 1 .. N : s[i] = More(s[i - 1], Bytes[m][i])
  BY <1>1, <1>10
<1>12. \A i \in 0 .. N : s[i] \in V
  <2> DEFINE S == {i \in 0 .. N : s[i] \in V}
  <2>1. 0 \in S
    BY <1>1, <1>11
  <2>2. \A i \in 0 .. N - 1 : i \in S => i + 1 \in S
    <3> SUFFICES ASSUME NEW i \in 0 .. N - 1, s[i] \in V PROVE s[i + 1] \in V
      BY <1>1
    <3>1. i + 1 \in 1 .. N /\ (i + 1) - 1 = i
      BY <1>1
    <3>2. s[i + 1] = More(s[i], Bytes[m][i + 1])
      BY <1>11, <3>1
    <3>3. QED BY <1>3, <3>1, <3>2
  <2> HIDE DEF S
  <2>3. \A i \in 0 .. N : i \in S
    BY <1>1, <2>1, <2>2, BoundedInduction, Zenon
  <2>4. QED BY <2>3 DEF S
<1>13. s \in [0 .. N -> V]
  BY <1>10, <1>12
<1>14. QED BY <1>11, <1>13 DEF s, N, V

\* A request read alone has a method and a body.
LEMMA RequestType ==
  ASSUME NEW m \in Kind
  PROVE  Request(m) \in Handled
PROOF
<1>1. Len(Bytes[m]) \in 0 .. Len(Bytes[m])
  BY InputAssumption DEF Kind
<1>2. Alone(m)[Len(Bytes[m])] \in ReqType
  BY <1>1, AloneDef
<1>3. QED BY <1>2 DEF Request, Handled, ReqType

\* The requests of a client grow by its next message, unless it is RTCP.
LEMMA RequestsDef ==
  ASSUME NEW ms \in Seq(Kind)
  PROVE  /\ Requests(ms) \in [0 .. Len(ms) -> Seq(Handled)]
         /\ Requests(ms)[0] = <<>>
         /\ \A i \in 1 .. Len(ms) :
              Requests(ms)[i] = IF ms[i] \in Rtcp THEN Requests(ms)[i - 1]
                                ELSE Append(Requests(ms)[i - 1], Request(ms[i]))
PROOF
<1> DEFINE N == Len(ms)
           V == Seq(Handled)
           Grown(v, m) == IF m \in Rtcp THEN v ELSE Append(v, Request(m))
           step == [i \in 1 .. N |-> [v \in V |-> Grown(v, ms[i])]]
           F(f) == [i \in 0 .. N |-> IF i = 0 THEN <<>> ELSE Grown(f[i - 1], ms[i])]
           s == Requests(ms)
<1>1. N \in Nat /\ <<>> \in V
  OBVIOUS
<1>2. \A i \in 1 .. N : Request(ms[i]) \in Handled
  BY RequestType
<1>3. \A i \in 1 .. N : \A v \in V : Grown(v, ms[i]) \in V
  BY <1>2
<1>4. s = CHOOSE f : f = F(f)
  BY DEF Requests
<1> HIDE DEF V, N, s, Grown
<1>5. step \in [1 .. N -> [V -> V]]
  BY <1>3
<1>6. \A i \in 1 .. N : \A v \in V : step[i][v] = Grown(v, ms[i])
  OBVIOUS
<1> HIDE DEF step
<1>7. PICK g \in [0 .. N -> V] : Recurs(g, N, <<>>, step)
  BY <1>1, <1>5, RecursionExists
<1>8. ASSUME NEW i \in 0 .. N PROVE g[i] = F(g)[i]
  <2>1. CASE i = 0
    BY <1>7, <2>1 DEF Recurs
  <2>2. CASE i # 0
    <3>1. i \in 1 .. N /\ i - 1 \in 0 .. N
      BY <1>1, <2>2
    <3>2. g[i] = Grown(g[i - 1], ms[i])
      BY <1>6, <1>7, <3>1 DEF Recurs
    <3>3. QED BY <2>2, <3>2
  <2>3. QED BY <2>1, <2>2
<1>9. g = F(g)
  BY <1>8
<1>10. s = F(s)
  BY <1>4, <1>9
<1>11. s[0] = <<>> /\ \A i \in 1 .. N : s[i] = Grown(s[i - 1], ms[i])
  BY <1>1, <1>10
<1>12. \A i \in 0 .. N : s[i] \in V
  <2> DEFINE S == {i \in 0 .. N : s[i] \in V}
  <2>1. 0 \in S
    BY <1>1, <1>11
  <2>2. \A i \in 0 .. N - 1 : i \in S => i + 1 \in S
    <3> SUFFICES ASSUME NEW i \in 0 .. N - 1, s[i] \in V PROVE s[i + 1] \in V
      BY <1>1
    <3>1. i + 1 \in 1 .. N /\ (i + 1) - 1 = i
      BY <1>1
    <3>2. s[i + 1] = Grown(s[i], ms[i + 1])
      BY <1>11, <3>1
    <3>3. QED BY <1>3, <3>1, <3>2
  <2> HIDE DEF S
  <2>3. \A i \in 0 .. N : i \in S
    BY <1>1, <2>1, <2>2, BoundedInduction, Zenon
  <2>4. QED BY <2>3 DEF S
<1>13. s \in [0 .. N -> V]
  BY <1>10, <1>12
<1>14. QED BY <1>11, <1>13 DEF s, N, V, Grown
-----------------------------------------------------------------------------
(* The bytes of a client, message by message.                               *)

\* No message is empty: an empty one would neither be a request nor be refused.
LEMMA MessageNotEmpty ==
  ASSUME NEW m \in Kind
  PROVE  Len(Bytes[m]) \in Nat \ {0}
PROOF
<1>1. Len(Bytes[m]) \in Nat
  BY InputAssumption DEF Kind
<1>2. CASE m \in Rtcp
  <2>1. IsRefused(m)
    BY <1>2, InputAssumption DEF Kind
  <2>2. QED BY <1>1, <2>1 DEF IsRefused
<1>3. CASE m \notin Rtcp
  <2>1. Whole(Alone(m)[Len(Bytes[m])])
    BY <1>3, InputAssumption DEF Kind, IsRequest
  <2>2. ~Alone(m)[0].head
    BY AloneDef DEF NewRequest
  <2>3. QED BY <1>1, <2>1, <2>2 DEF Whole
<1>4. QED BY <1>2, <1>3

LEMMA ConcatAt ==
  ASSUME NEW T, NEW a \in Seq(T), NEW b \in Seq(T)
  PROVE  /\ a \o b \in Seq(T)
         /\ Len(a \o b) = Len(a) + Len(b) /\ Len(a) \in Nat /\ Len(b) \in Nat
         /\ \A p \in 1 .. Len(a) : (a \o b)[p] = a[p]
         /\ \A k \in 1 .. Len(b) : (a \o b)[Len(a) + k] = b[k]
  OBVIOUS

\* A sequence that begins with another one, and is followed by a third
Begins(a, c) == Len(a) <= Len(c) /\ \A p \in 1 .. Len(a) : c[p] = a[p]
Follows(a, b, c) ==
  Len(c) = Len(a) + Len(b) /\ \A k \in 1 .. Len(b) : c[Len(a) + k] = b[k]

LEMMA ConcatIs ==
  ASSUME NEW a \in Seq(Char), NEW b \in Seq(Char)
  PROVE  Begins(a, a \o b) /\ Follows(a, b, a \o b)
  BY ConcatAt DEF Begins, Follows

LEMMA BeginsTransitive ==
  ASSUME NEW a \in Seq(Char), NEW b \in Seq(Char), NEW c \in Seq(Char), Begins(a, b), Begins(b, c)
  PROVE  Begins(a, c)
PROOF
<1>1. Len(a) \in Nat /\ Len(b) \in Nat /\ Len(c) \in Nat
  OBVIOUS
<1>2. QED BY <1>1 DEF Begins

\* The next message, as it is appended
LEMMA SentNext ==
  ASSUME NEW ms \in Seq(Kind), NEW i \in 0 .. Len(ms) - 1, NEW j, j = i + 1
  PROVE  /\ Sent(ms)[i] \in Seq(Char) /\ Sent(ms)[j] \in Seq(Char) /\ Bytes[ms[j]] \in Seq(Char)
         /\ Begins(Sent(ms)[i], Sent(ms)[j])
         /\ Follows(Sent(ms)[i], Bytes[ms[j]], Sent(ms)[j])
PROOF
<1>1. Len(ms) \in Nat /\ j \in 1 .. Len(ms) /\ j - 1 = i /\ i \in 0 .. Len(ms) /\ j \in 0 .. Len(ms)
  OBVIOUS
<1>2. Sent(ms)[i] \in Seq(Char) /\ Sent(ms)[j] = Sent(ms)[i] \o Bytes[ms[j]]
  BY <1>1, SentDef
<1>3. ms[j] \in Kind
  BY <1>1
<1>4. Bytes[ms[j]] \in Seq(Char)
  BY <1>3, InputAssumption DEF Kind
<1>5. Sent(ms)[j] \in Seq(Char)
  BY <1>1, SentDef
<1> QED BY <1>2, <1>4, <1>5, ConcatIs

\* Where messages end
LEMMA EndOfDef ==
  ASSUME NEW ms \in Seq(Kind)
  PROVE  /\ EndOf(ms, 0) = 0
         /\ \A i \in 0 .. Len(ms) : EndOf(ms, i) \in Nat
         /\ \A i \in 0 .. Len(ms) - 1 :
              EndOf(ms, i + 1) = EndOf(ms, i) + Len(Bytes[ms[i + 1]])
PROOF
<1>1. \A i \in 0 .. Len(ms) : Sent(ms)[i] \in Seq(Char)
  BY SentDef
<1>2. \A i \in 1 .. Len(ms) : Bytes[ms[i]] \in Seq(Char)
  BY InputAssumption DEF Kind
<1>3. ASSUME NEW i \in 0 .. Len(ms) - 1
      PROVE  EndOf(ms, i + 1) = EndOf(ms, i) + Len(Bytes[ms[i + 1]])
  <2>1. i + 1 \in 1 .. Len(ms) /\ (i + 1) - 1 = i /\ i \in 0 .. Len(ms)
    OBVIOUS
  <2>2. Sent(ms)[i + 1] = Sent(ms)[i] \o Bytes[ms[i + 1]]
    BY <2>1, SentDef
  <2>3. QED BY <1>1, <1>2, <2>1, <2>2 DEF EndOf
<1>4. EndOf(ms, 0) = 0
  <2>1. Sent(ms)[0] = <<>>
    BY SentDef
  <2>2. QED BY <2>1 DEF EndOf
<1>5. \A i \in 0 .. Len(ms) : EndOf(ms, i) \in Nat
  BY <1>1 DEF EndOf
<1>6. QED BY <1>3, <1>4, <1>5

\* What is sent later does not change what was sent before.
LEMMA SentGrows ==
  ASSUME NEW ms \in Seq(Kind), NEW j \in 0 .. Len(ms), NEW i \in 0 .. j
  PROVE  Begins(Sent(ms)[i], Sent(ms)[j])
PROOF
<1> DEFINE N == Len(ms)
           s == Sent(ms)
           S == {k \in 0 .. N : \A h \in 0 .. k : Begins(s[h], s[k])}
<1>1. N \in Nat
  OBVIOUS
<1>2. \A k \in 0 .. N : s[k] \in Seq(Char)
  BY SentDef
<1>3. \A k \in 0 .. N : Begins(s[k], s[k])
  <2>1. \A k \in 0 .. N : Len(s[k]) \in Nat
    BY <1>2
  <2> HIDE DEF s
  <2>2. QED BY <2>1 DEF Begins
<1>4. 0 \in S
  BY <1>3
<1>5. ASSUME NEW n \in 0 .. N - 1, n \in S PROVE n + 1 \in S
  <2>1. n \in 0 .. N /\ n + 1 \in 0 .. N
    OBVIOUS
  <2>2. Begins(s[n], s[n + 1])
    BY SentNext
  <2> HIDE DEF s
  <2>3. ASSUME NEW h \in 0 .. n + 1 PROVE Begins(s[h], s[n + 1])
    <3>1. CASE h = n + 1
      BY <1>3, <2>1, <3>1
    <3>2. CASE h <= n
      <4>1. Begins(s[h], s[n]) /\ h \in 0 .. N
        BY <1>5, <2>1, <3>2
      <4>2. QED BY <1>2, <2>1, <2>2, <4>1, BeginsTransitive
    <3>3. QED BY <3>1, <3>2
  <2>4. QED BY <2>1, <2>3
<1>6. \A n \in 0 .. N - 1 : n \in S => n + 1 \in S
  BY <1>5
<1> HIDE DEF S, N
<1>7. \A n \in 0 .. N : n \in S
  BY <1>1, <1>4, <1>6, BoundedInduction
<1>8. j \in S
  BY <1>7 DEF N
<1>9. QED BY <1>8 DEF S, s

LEMMA EndsGrow ==
  ASSUME NEW ms \in Seq(Kind), NEW j \in 0 .. Len(ms), NEW i \in 0 .. j
  PROVE  EndOf(ms, i) <= EndOf(ms, j)
  BY SentGrows DEF Begins, EndOf

\* A later message ends later.
LEMMA EndsApart ==
  ASSUME NEW ms \in Seq(Kind), NEW j \in 0 .. Len(ms), NEW i \in 0 .. Len(ms), i < j
  PROVE  EndOf(ms, i) < EndOf(ms, j)
PROOF
<1>1. i + 1 \in 0 .. j /\ i \in 0 .. Len(ms) - 1 /\ ms[i + 1] \in Kind
  OBVIOUS
<1>2. EndOf(ms, i + 1) <= EndOf(ms, j)
  BY <1>1, EndsGrow
<1>3. EndOf(ms, i + 1) = EndOf(ms, i) + Len(Bytes[ms[i + 1]])
  BY <1>1, EndOfDef
<1>4. /\ EndOf(ms, i) \in Nat /\ EndOf(ms, i + 1) \in Nat /\ EndOf(ms, j) \in Nat
      /\ Len(Bytes[ms[i + 1]]) \in Nat \ {0}
  <2>1. i + 1 \in 0 .. Len(ms)
    BY <1>1
  <2>2. QED BY <1>1, <2>1, EndOfDef, MessageNotEmpty
<1>5. QED BY <1>2, <1>3, <1>4

\* The bytes of a message are where the messages before it end.
LEMMA WireAt ==
  ASSUME NEW ms \in Seq(Kind), NEW i \in 0 .. Len(ms) - 1, NEW k \in 1 .. Len(Bytes[ms[i + 1]])
  PROVE  /\ EndOf(ms, i) + k \in 1 .. Len(Wire(ms))
         /\ Wire(ms)[EndOf(ms, i) + k] = Bytes[ms[i + 1]][k]
PROOF
<1> DEFINE a == Sent(ms)[i]
           b == Bytes[ms[i + 1]]
           c == Sent(ms)[i + 1]
           d == Wire(ms)
<1>1. i + 1 \in 0 .. Len(ms) /\ Len(ms) \in 0 .. Len(ms)
  OBVIOUS
<1>2. a \in Seq(Char) /\ b \in Seq(Char) /\ c \in Seq(Char) /\ Follows(a, b, c)
  BY SentNext
<1>3. Begins(c, d)
  BY <1>1, SentGrows DEF Wire
<1>4. d \in Seq(Char)
  BY <1>1, SentDef DEF Wire
<1>5. k \in 1 .. Len(b)
  OBVIOUS
<1>6. EndOf(ms, i) = Len(a)
  BY DEF EndOf
<1> HIDE DEF a, b, c, d
<1>7. Len(a) \in Nat /\ Len(b) \in Nat /\ Len(c) \in Nat /\ Len(d) \in Nat
  BY <1>2, <1>4
<1>8. c[Len(a) + k] = b[k] /\ Len(a) + k \in 1 .. Len(c)
  BY <1>2, <1>5, <1>7 DEF Follows
<1>9. d[Len(a) + k] = b[k] /\ Len(a) + k \in 1 .. Len(d)
  BY <1>3, <1>7, <1>8 DEF Begins
<1>10. QED BY <1>6, <1>9 DEF b, d
-----------------------------------------------------------------------------
(* A body, read character by character or in pieces.                        *)

WithData(q, d) == [q EXCEPT !.data = d]

LEMMA WithDataIs ==
  ASSUME NEW q \in ReqType, NEW d \in Seq(Char)
  PROVE  /\ WithData(q, d) \in ReqType
         /\ WithData(q, d).data = d /\ WithData(q, d).need = q.need
         /\ WithData(q, d).head = q.head /\ WithData(q, d).method = q.method
         /\ \A e : WithData(WithData(q, d), e) = WithData(q, e)
         /\ WithData(q, q.data) = q
  BY DEF WithData, ReqType

\* A piece of a sequence, and the piece that is longer by one
LEMMA SubSeqAt ==
  ASSUME NEW w \in Seq(Char), NEW p \in Nat, NEW n \in Nat, p + n <= Len(w)
  PROVE  /\ SubSeq(w, p + 1, p + n) \in Seq(Char)
         /\ Len(SubSeq(w, p + 1, p + n)) = n
         /\ \A x \in 1 .. n : SubSeq(w, p + 1, p + n)[x] = w[p + x]
  OBVIOUS

LEMMA SubSeqGrows ==
  ASSUME NEW s \in Seq(Char), NEW d \in Seq(Char), NEW k \in 0 .. Len(s) - 1, NEW j \in k .. Len(s) - 1
  PROVE  Append(d \o SubSeq(s, k + 1, j), s[j + 1]) = d \o SubSeq(s, k + 1, j + 1)
PROOF
<1>1. /\ Len(s) \in Nat /\ Len(d) \in Nat /\ k \in Nat /\ j \in Nat /\ j <= Len(s) - 1 /\ k <= j
      /\ s[j + 1] \in Char
  OBVIOUS
<1> DEFINE a == SubSeq(s, k + 1, j)
           b == SubSeq(s, k + 1, j + 1)
<1>2. /\ a \in Seq(Char) /\ Len(a) = j - k
      /\ \A x \in 1 .. j - k : a[x] = s[k + x]
  <2>0. PICK n \in Nat : n = j - k
    BY <1>1
  <2>1. k + n = j /\ k + n <= Len(s)
    BY <1>1, <2>0
  <2>2. a = SubSeq(s, k + 1, k + n)
    BY <2>1
  <2>3. QED BY <1>1, <2>0, <2>1, <2>2, SubSeqAt
<1>3. /\ b \in Seq(Char) /\ Len(b) = j + 1 - k
      /\ \A x \in 1 .. j + 1 - k : b[x] = s[k + x]
  <2>0. PICK n \in Nat : n = j + 1 - k
    BY <1>1
  <2>1. k + n = j + 1 /\ k + n <= Len(s)
    BY <1>1, <2>0
  <2>2. b = SubSeq(s, k + 1, k + n)
    BY <2>1
  <2>3. QED BY <1>1, <2>0, <2>1, <2>2, SubSeqAt
<1> HIDE DEF a, b
<1>4. b = Append(a, s[j + 1])
  <2> DEFINE c == Append(a, s[j + 1])
  <2>1. /\ c \in Seq(Char) /\ Len(c) = Len(a) + 1 /\ c[Len(a) + 1] = s[j + 1]
        /\ \A x \in 1 .. Len(a) : c[x] = a[x]
    BY <1>1, <1>2, AppendProperties
  <2> HIDE DEF c
  <2>2. ASSUME NEW x \in 1 .. j + 1 - k PROVE c[x] = b[x]
    <3>1. b[x] = s[k + x]
      BY <1>3
    <3>2. CASE x = j + 1 - k
      BY <1>1, <1>2, <2>1, <3>1, <3>2
    <3>3. CASE x \in 1 .. j - k
      BY <1>2, <2>1, <3>1, <3>3
    <3>4. QED BY <1>1, <3>2, <3>3
  <2>3. Len(c) = j + 1 - k
    BY <1>1, <1>2, <2>1
  <2>4. c = b
    BY <1>1, <1>3, <2>1, <2>2, <2>3
  <2>5. QED BY <2>4 DEF c
<1>5. Append(d \o a, s[j + 1]) = d \o Append(a, s[j + 1])
  <2>0. PICK ch \in Char : ch = s[j + 1]
    BY <1>1
  <2>1. d \o a \in Seq(Char) /\ a \in Seq(Char) /\ <<ch>> \in Seq(Char)
    BY <1>2, ConcatAt
  <2>2. Append(d \o a, ch) = (d \o a) \o <<ch>>
    BY <2>1, AppendIsConcat
  <2>3. Append(a, ch) = a \o <<ch>>
    BY <2>1, AppendIsConcat
  <2>4. (d \o a) \o <<ch>> = d \o (a \o <<ch>>)
    BY <2>1, ConcatAssociative
  <2>5. QED BY <2>0, <2>2, <2>3, <2>4
<1>6. QED BY <1>4, <1>5 DEF a, b

\* Behind the head a message that is read alone only adds to the body.
LEMMA BodyAlone ==
  ASSUME NEW m \in Kind, NEW k \in 0 .. Len(Bytes[m]) - 1, Alone(m)[k].head,
         NEW j \in k .. Len(Bytes[m])
  PROVE  Alone(m)[j] = WithData(Alone(m)[k], Alone(m)[k].data \o SubSeq(Bytes[m], k + 1, j))
PROOF
<1> DEFINE s == Bytes[m]
           N == Len(s)
           r == Alone(m)
           Is(h) == r[h] = WithData(r[k], r[k].data \o SubSeq(s, k + 1, h))
           S == {h \in 0 .. N : h >= k => Is(h)}
<1>1. s \in Seq(Char) /\ N \in Nat
  BY InputAssumption DEF Kind
<1>2. /\ \A h \in 0 .. N : r[h] \in ReqType
      /\ \A h \in 1 .. N : r[h] = More(r[h - 1], s[h])
      /\ r[k] \in ReqType /\ r[k].head /\ r[k].data \in Seq(Char)
  <2>1. \A h \in 0 .. N : r[h] \in ReqType
    BY AloneDef
  <2>2. r[k] \in ReqType /\ r[k].head
    BY <1>1, <2>1
  <2>3. r[k].data \in Seq(Char)
    BY <2>2 DEF ReqType
  <2>4. QED BY <2>1, <2>2, <2>3, AloneDef
<1> HIDE DEF r, s
<1>3. Is(k)
  <2>1. r[k].data \o SubSeq(s, k + 1, k) = r[k].data
    BY <1>1, <1>2
  <2>2. QED BY <1>2, <2>1, WithDataIs
<1>4. 0 \in S
  <2>1. CASE k = 0
    BY <1>1, <1>3, <2>1
  <2>2. CASE k # 0
    BY <1>1, <2>2
  <2>3. QED BY <2>1, <2>2
<1>5. ASSUME NEW h \in 0 .. N - 1, h \in S PROVE h + 1 \in S
  <2>1. h + 1 \in 1 .. N /\ (h + 1) - 1 = h /\ h \in 0 .. N /\ h + 1 \in 0 .. N
    BY <1>1
  <2>2. CASE h >= k
    <3> DEFINE q == r[k]
               d == q.data \o SubSeq(s, k + 1, h)
               e == q.data \o SubSeq(s, k + 1, h + 1)
               v == r[h]
    <3>1. v = WithData(q, d)
      BY <1>5, <2>2
    <3>2. q \in ReqType /\ q.head /\ q.data \in Seq(Char)
      BY <1>2
    <3>3. r[h + 1] = More(v, s[h + 1])
      BY <1>2, <2>1
    <3>4. k \in 0 .. Len(s) - 1 /\ h \in k .. Len(s) - 1
      BY <1>1, <2>1, <2>2
    <3>5. d \in Seq(Char)
      <4> HIDE DEF q
      <4>1. SubSeq(s, k + 1, h) \in Seq(Char)
        BY <1>1, <3>4
      <4>2. QED BY <3>2, <4>1
    <3>6. Append(d, s[h + 1]) = e
      <4> HIDE DEF q
      <4>1. q.data \in Seq(Char)
        BY <3>2
      <4>2. QED BY <1>1, <3>4, <4>1, SubSeqGrows
    <3> HIDE DEF q, d, e, v
    <3>7. v.head /\ v.data = d /\ WithData(v, e) = WithData(q, e)
      BY <3>1, <3>2, <3>5, WithDataIs
    <3>8. Is(h + 1)
      <4>1. More(v, s[h + 1]) = WithData(v, e)
        BY <3>6, <3>7 DEF More, WithData
      <4>2. r[h + 1] = WithData(q, e)
        BY <3>3, <3>7, <4>1
      <4>3. QED BY <4>2 DEF q, e
    <3>9. QED BY <2>1, <3>8
  <2>3. CASE h + 1 = k
    BY <1>3, <2>1, <2>3
  <2>4. CASE h + 1 < k
    BY <2>1, <2>4
  <2>5. QED BY <1>1, <2>1, <2>2, <2>3, <2>4
<1>6. \A h \in 0 .. N - 1 : h \in S => h + 1 \in S
  BY <1>5
<1> HIDE DEF S, N
<1>7. \A h \in 0 .. N : h \in S
  BY <1>1, <1>4, <1>6, BoundedInduction
<1>8. j \in S /\ j >= k
  BY <1>7 DEF N, s
<1>9. QED BY <1>8 DEF S, r, s

\* What a request still lacks is what is left of it.
LEMMA MissingAlone ==
  ASSUME NEW m \in Kind, m \notin Rtcp, NEW k \in 0 .. Len(Bytes[m]), Alone(m)[k].head
  PROVE  Missing(Alone(m)[k]) = Len(Bytes[m]) - k
PROOF
<1> DEFINE s == Bytes[m]
           N == Len(s)
           q == Alone(m)[k]
           e == Alone(m)[N]
<1>1. s \in Seq(Char) /\ N \in Nat /\ k \in 0 .. N
  BY InputAssumption DEF Kind
<1>2. q \in ReqType /\ e \in ReqType
  BY <1>1, AloneDef
<1>3. Len(e.data) = e.need
  BY InputAssumption DEF Kind, IsRequest, Whole
<1>4. CASE k = N
  BY <1>1, <1>2, <1>3, <1>4 DEF Missing, ReqType
<1>5. CASE k # N
  <2>1. e = WithData(q, q.data \o SubSeq(s, k + 1, N))
    BY <1>1, <1>5, BodyAlone
  <2> HIDE DEF q, e, s
  <2>2. q.data \in Seq(Char) /\ Len(q.data) \in Nat /\ q.need \in 0 .. 2
    BY <1>2 DEF ReqType
  <2>3. /\ q.data \o SubSeq(s, k + 1, N) \in Seq(Char)
        /\ Len(q.data \o SubSeq(s, k + 1, N)) = Len(q.data) + (N - k)
    <3>1. SubSeq(s, k + 1, N) \in Seq(Char) /\ Len(SubSeq(s, k + 1, N)) = N - k
      BY <1>1
    <3> DEFINE a == q.data
               b == SubSeq(s, k + 1, N)
    <3> HIDE DEF a, b
    <3>2. a \in Seq(Char) /\ b \in Seq(Char) /\ Len(b) = N - k
      BY <2>2, <3>1 DEF a, b
    <3>3. a \o b \in Seq(Char) /\ Len(a \o b) = Len(a) + Len(b)
      BY <3>2, ConcatAt
    <3>4. QED BY <3>2, <3>3 DEF a, b
  <2>4. e.need = q.need /\ Len(e.data) = Len(q.data) + (N - k)
    BY <1>2, <2>1, <2>3, WithDataIs
  <2>5. q.need - Len(q.data) = N - k
    BY <1>1, <1>3, <2>2, <2>4
  <2>6. QED BY <2>5 DEF Missing, q, s
<1>6. QED BY <1>4, <1>5

-----------------------------------------------------------------------------
(* The invariant.                                                           *)

\* Bytes that were parsed
Parsed == pos - left

\* Types that the parser keeps whatever it is given: a body begins behind the
\* head and does not outgrow its length.
ParserInv ==
  /\ messages \in Messages
  /\ pos \in 0 .. Len(Wire(messages))
  /\ left \in 0 .. pos /\ left <= ReadMax
  /\ at \in {"read", "parse"} /\ (at = "read" => left = 0)
  /\ req \in ReqType
  /\ Len(req.data) <= req.need
  /\ ~req.head => req.data = <<>>
  /\ handled \in Seq(Handled)
  /\ \A i \in DOMAIN handled : Len(handled[i].data) <= 2
  /\ state \in {"IDLE", "DESCRIBED", "SETUPED", "PLAYING"}
  /\ granted \in Seq(BOOLEAN) /\ Len(granted) = Len(handled)
  /\ shut \in BOOLEAN

\* A packet of RTCP is parsed in a chunk of its own.
Apart(i) ==
  LET from == EndOf(messages, i - 1)
      to == EndOf(messages, i)
  IN pos <= from \/ Parsed >= to \/ (pos = to /\ Parsed >= from)

RtcpApart ==
  at = "parse" => \A i \in 1 .. Len(messages) : messages[i] \in Rtcp => Apart(i)

\* The parser is as if it had read the first k bytes of message m, and nothing
\* before; if that is all of them, it is about to end the request.
Amid(m, k) ==
  /\ k \in 0 .. Len(Bytes[m])
  /\ req = Alone(m)[k]
  /\ k = Len(Bytes[m]) => at = "parse" /\ req.head
  /\ m \in Rtcp => \A t \in 0 .. k - 1 : Takes(Alone(m)[t], Bytes[m][t + 1])

\* i messages were parsed, and k bytes of the next.
Progress(i, k) ==
  /\ Parsed = EndOf(messages, i) + k
  /\ k = 0 => req = NewRequest
  /\ k # 0 => i < Len(messages) /\ Amid(messages[i + 1], k)
  /\ handled = Requests(messages)[i]
  /\ PlaysAfter(i) => state = "PLAYING"

InStep ==
  ~shut => \E i \in 0 .. Len(messages) : \E k \in Nat : Progress(i, k)

\* The message that ended the connection, and all before it were handled.
Ender(i) ==
  /\ EndOf(messages, i) <= pos
  /\ Len(Requests(messages)[i]) <= Len(granted)
  /\ \/ Granted(i, "TEARDOWN")
     \/ messages[i] \in Rtcp /\ ~PlaysAfter(i - 1)

Ended == shut => \E i \in 1 .. Len(messages) : Ender(i)

InputInv == ParserInv /\ RtcpApart /\ InStep /\ Ended

-----------------------------------------------------------------------------
(* What the parser keeps whatever it is given.                              *)

LEMMA MessagesType ==
  ASSUME messages \in Messages
  PROVE  messages \in Seq(Kind)
  BY InputAssumption DEF Kind

LEMMA WireType ==
  ASSUME NEW ms \in Seq(Kind)
  PROVE  Wire(ms) \in Seq(Char) /\ Len(Wire(ms)) \in Nat /\ Len(Wire(ms)) = EndOf(ms, Len(ms))
PROOF
<1>1. Len(ms) \in 0 .. Len(ms)
  OBVIOUS
<1>2. Wire(ms) \in Seq(Char)
  BY <1>1, SentDef DEF Wire
<1>3. QED BY <1>2 DEF EndOf, Wire

LEMMA ChunkIs ==
  ASSUME ParserInv
  PROVE  /\ Chunk \in Seq(Char) /\ Len(Chunk) = left
         /\ \A x \in 1 .. left : Chunk[x] = Wire(messages)[Parsed + x]
PROOF
<1> DEFINE w == Wire(messages)
<1>1. w \in Seq(Char)
  BY MessagesType, WireType DEF ParserInv
<1>2. Parsed \in Nat /\ left \in Nat /\ Parsed + left = pos /\ pos <= Len(w)
  <2>1. Len(w) \in Nat
    BY <1>1
  <2>2. QED BY <2>1 DEF ParserInv, Parsed
<1>3. Chunk = SubSeq(w, Parsed + 1, Parsed + left)
  BY <1>2 DEF Chunk, Parsed
<1> HIDE DEF w
<1>4. QED BY <1>1, <1>2, <1>3, SubSeqAt DEF w

LEMMA MissingType ==
  ASSUME NEW q \in ReqType, Len(q.data) <= q.need
  PROVE  /\ q.data \in Seq(Char) /\ Len(q.data) \in Nat /\ q.need \in 0 .. 2
         /\ Missing(q) \in Nat /\ Len(q.data) + Missing(q) = q.need
PROOF
<1>1. q.data \in Seq(Char) /\ Len(q.data) \in Nat /\ q.need \in 0 .. 2
  BY DEF ReqType
<1>2. QED BY <1>1 DEF Missing

\* A piece of the body is added to it, as much as it lacks.
LEMMA TakeBodyIs ==
  ASSUME NEW q \in ReqType, Len(q.data) <= q.need, NEW c \in Seq(Char)
  PROVE  /\ TakeBody(q, c) \in ReqType
         /\ Len(TakeBody(q, c).data) <= q.need
         /\ TakeBody(q, c).need = q.need /\ TakeBody(q, c).head = q.head
         /\ Len(c) >= Missing(q) =>
              TakeBody(q, c) = WithData(q, q.data \o SubSeq(c, 1, Missing(q)))
         /\ Len(c) < Missing(q) => TakeBody(q, c) = WithData(q, q.data \o c)
PROOF
<1> DEFINE n == Missing(q)
           piece == IF Len(c) >= n THEN SubSeq(c, 1, n) ELSE c
           a == q.data
<1>1. a \in Seq(Char) /\ Len(a) \in Nat /\ n \in Nat /\ Len(a) + n = q.need
  BY MissingType
<1> HIDE DEF n, a
<1>2. piece \in Seq(Char) /\ Len(piece) \in 0 .. n
  <2>1. CASE Len(c) >= n
    BY <1>1, <2>1
  <2>2. CASE ~(Len(c) >= n)
    BY <1>1, <2>2
  <2>3. QED BY <2>1, <2>2
<1>3. TakeBody(q, c) = WithData(q, a \o piece)
  BY DEF TakeBody, WithData, n, a
<1> HIDE DEF piece
<1>4. a \o piece \in Seq(Char) /\ Len(a \o piece) = Len(a) + Len(piece)
  BY <1>1, <1>2, ConcatAt
<1>5. WithData(q, a \o piece) \in ReqType /\ WithData(q, a \o piece).data = a \o piece
      /\ WithData(q, a \o piece).need = q.need /\ WithData(q, a \o piece).head = q.head
  BY <1>4, WithDataIs
<1>6. Len(a \o piece) <= q.need /\ Len(c) \in Nat
  BY <1>1, <1>2, <1>4 DEF ReqType
<1>7. QED BY <1>1, <1>3, <1>5, <1>6 DEF piece, n, a

\* The head does not touch the body.
LEMMA TakeHeadData ==
  ASSUME NEW q \in ReqType, NEW ch \in Char
  PROVE  TakeHead(q, ch).data = q.data
  BY DEF TakeHead, ReqType

LEMMA ParserInvInit == Init => ParserInv
PROOF
<1> SUFFICES ASSUME Init PROVE ParserInv
  OBVIOUS
<1>1. Len(Wire(messages)) \in Nat
  BY MessagesType, WireType DEF Init
<1>2. NewRequest \in ReqType /\ NewRequest.data = <<>> /\ NewRequest.need = 0
  BY NewRequestType DEF NewRequest
<1>3. ReadMax \in Nat
  BY InputAssumption
<1>4. <<>> \in Seq(Handled) /\ DOMAIN <<>> = {} /\ Len(<<>>) = 0
  OBVIOUS
<1>5. handled = <<>> /\ req = NewRequest
  BY DEF Init
<1>6. /\ req \in ReqType /\ Len(req.data) <= req.need /\ (~req.head => req.data = <<>>)
      /\ handled \in Seq(Handled) /\ DOMAIN handled = {}
  BY <1>2, <1>4, <1>5
<1>7. /\ messages \in Messages /\ pos = 0 /\ left = 0 /\ at = "read"
      /\ state = "IDLE" /\ granted = <<>> /\ handled = <<>> /\ shut = FALSE
  BY DEF Init
<1>8. \A i \in DOMAIN handled : Len(handled[i].data) <= 2
  BY <1>6
<1>9. pos \in 0 .. Len(Wire(messages)) /\ left \in 0 .. pos /\ left <= ReadMax
  BY <1>1, <1>3, <1>7
<1>10. granted \in Seq(BOOLEAN) /\ Len(granted) = Len(handled)
  BY <1>4, <1>7
<1>11. QED BY <1>6, <1>7, <1>8, <1>9, <1>10 DEF ParserInv

LEMMA NewRequestData == NewRequest.data = <<>> /\ NewRequest.need = 0 /\ ~NewRequest.head
  BY DEF NewRequest

LEMMA AppendSmall ==
  ASSUME NEW s \in Seq(Handled), NEW h \in Handled, Len(h.data) <= 2,
         \A i \in DOMAIN s : Len(s[i].data) <= 2
  PROVE  \A i \in DOMAIN Append(s, h) : Len(Append(s, h)[i].data) <= 2
PROOF
<1> DEFINE x == Append(s, h)
<1>1. /\ x \in Seq(Handled) /\ Len(x) = Len(s) + 1 /\ x[Len(s) + 1] = h
      /\ \A i \in 1 .. Len(s) : x[i] = s[i]
  BY AppendProperties
<1>2. Len(s) \in Nat /\ DOMAIN s = 1 .. Len(s) /\ DOMAIN x = 1 .. Len(x)
  BY <1>1
<1> HIDE DEF x
<1>3. ASSUME NEW i \in DOMAIN x PROVE Len(x[i].data) <= 2
  <2>1. CASE i = Len(s) + 1
    BY <1>1, <2>1
  <2>2. CASE i \in 1 .. Len(s)
    BY <1>1, <1>2, <2>2
  <2>3. QED BY <1>1, <1>2, <1>3, <2>1, <2>2
<1>4. QED BY <1>3 DEF x

\* What a granted request makes of the handler's state
LEMMA GrantIs ==
  ASSUME NEW method, Grant(method)
  PROVE  /\ state' \in {"IDLE", "DESCRIBED", "SETUPED", "PLAYING", state}
         /\ method = Verb["PLAY"] => state' = "PLAYING"
         /\ \/ state' = state
            \/ method = Verb["DESCRIBE"]
            \/ method = Verb["SETUP"] /\ state # "PLAYING"
            \/ method = Verb["PLAY"]
            \/ method = Verb["TEARDOWN"]
PROOF
<1>1. Verb["PLAY"] # Verb["DESCRIBE"] /\ Verb["PLAY"] # Verb["SETUP"]
  BY InputAssumption DEF Verbs
<1>2. CASE method = Verb["DESCRIBE"]
  BY <1>1, <1>2 DEF Grant
<1>3. CASE method # Verb["DESCRIBE"] /\ method = Verb["SETUP"]
  BY <1>1, <1>3 DEF Grant
<1>4. CASE method # Verb["DESCRIBE"] /\ method # Verb["SETUP"] /\ method = Verb["PLAY"]
  BY <1>4 DEF Grant
<1>5. CASE method \notin {Verb["DESCRIBE"], Verb["SETUP"], Verb["PLAY"]}
  BY <1>5 DEF Grant
<1>6. QED BY <1>2, <1>3, <1>4, <1>5

\* One step of the parser
LEMMA ParserInvNext == ParserInv /\ [Next]_vars => ParserInv'
PROOF
<1> SUFFICES ASSUME ParserInv, [Next]_vars PROVE ParserInv'
  OBVIOUS
<1>0. /\ Len(Wire(messages)) \in Nat /\ ReadMax \in Nat /\ pos \in Nat /\ left \in Nat
      /\ pos <= Len(Wire(messages)) /\ left <= pos /\ left <= ReadMax
  <2>1. Len(Wire(messages)) \in Nat
    BY MessagesType, WireType DEF ParserInv
  <2>2. QED BY <2>1, InputAssumption DEF ParserInv
<1>1. CASE Read
  <2>1. PICK n \in 1 .. ReadMax : pos + n <= Len(Wire(messages)) /\ pos' = pos + n /\ left' = n
    BY <1>1 DEF Read
  <2>2. /\ at' = "parse" /\ messages' = messages /\ req' = req /\ state' = state
        /\ handled' = handled /\ granted' = granted /\ shut' = shut
    BY <1>1 DEF Read
  <2>3. pos' \in 0 .. Len(Wire(messages)) /\ left' \in 0 .. pos' /\ left' <= ReadMax
    BY <1>0, <2>1
  <2>4. QED BY <2>2, <2>3 DEF ParserInv
<1>2. CASE ParseHead
  <2>1. /\ messages' = messages /\ pos' = pos /\ state' = state /\ handled' = handled
        /\ granted' = granted /\ at = "parse" /\ left > 0 /\ ~req.head /\ req.data = <<>>
    BY <1>2 DEF ParseHead, ParserInv
  <2>2. Chunk[1] \in Char
    <3>1. Chunk \in Seq(Char) /\ Len(Chunk) = left
      BY ChunkIs
    <3>2. QED BY <1>0, <2>1, <3>1
  <2>3. CASE Takes(req, Chunk[1]) /\ req' = TakeHead(req, Chunk[1]) /\ left' = left - 1
             /\ UNCHANGED <<at, shut>>
    <3>1. req' \in ReqType /\ req'.data = <<>>
      BY <2>1, <2>2, <2>3, TakeHeadType, TakeHeadData DEF ParserInv
    <3>2. Len(req'.data) = 0 /\ req'.need \in 0 .. 2
      BY <3>1 DEF ReqType
    <3>3. left' \in 0 .. pos /\ left' <= ReadMax
      BY <1>0, <2>1, <2>3
    <3>4. QED BY <2>1, <2>3, <3>1, <3>2, <3>3 DEF ParserInv
  <2>4. CASE Refused /\ left' = 0 /\ at' = "read"
    <3>1. req' = req \/ req' = NewRequest
      BY <2>4 DEF Refused, ResetRequest
    <3>2. shut' \in BOOLEAN
      BY <2>4 DEF Refused, ParserInv
    <3>3. req' \in ReqType /\ Len(req'.data) <= req'.need /\ (~req'.head => req'.data = <<>>)
      BY <3>1, NewRequestType, NewRequestData DEF ParserInv
    <3>4. left' \in 0 .. pos /\ left' <= ReadMax
      BY <1>0, <2>4
    <3>5. QED BY <2>1, <2>4, <3>2, <3>3, <3>4 DEF ParserInv
  <2>5. QED BY <1>2, <2>3, <2>4 DEF ParseHead
<1>3. CASE ParseBody
  <2> DEFINE q == TakeBody(req, Chunk)
  <2>1. messages' = messages /\ pos' = pos /\ at = "parse" /\ req.head
    BY <1>3 DEF ParseBody
  <2>2. req \in ReqType /\ Len(req.data) <= req.need
    BY DEF ParserInv
  <2>3. q \in ReqType /\ Len(q.data) <= q.need /\ q.head
    BY <2>1, <2>2, ChunkIs, TakeBodyIs
  <2>4. Missing(req) \in Nat
    BY <2>2, MissingType
  <2>5. CASE left >= Missing(req) /\ Process(q) /\ req' = NewRequest
             /\ left' = left - Missing(req) /\ at' = at
    <3> HIDE DEF q
    <3> DEFINE h == [method |-> q.method, data |-> q.data]
    <3>1. h \in Handled /\ Len(h.data) <= 2
      BY <2>3 DEF ReqType, Handled
    <3>2. handled' = Append(handled, h)
      BY <2>5 DEF Process
    <3> HIDE DEF h
    <3>7. /\ state' \in {"IDLE", "DESCRIBED", "SETUPED", "PLAYING"} /\ shut' \in BOOLEAN
          /\ granted' \in Seq(BOOLEAN) /\ Len(granted') = Len(granted) + 1
      <4>1. state \in {"IDLE", "DESCRIBED", "SETUPED", "PLAYING"} /\ granted \in Seq(BOOLEAN)
        BY DEF ParserInv
      <4>2. /\ Append(granted, TRUE) \in Seq(BOOLEAN) /\ Append(granted, FALSE) \in Seq(BOOLEAN)
            /\ Len(Append(granted, TRUE)) = Len(granted) + 1
            /\ Len(Append(granted, FALSE)) = Len(granted) + 1
        BY <4>1
      <4>3. CASE Grant(q.method) /\ granted' = Append(granted, TRUE)
        <5>1. state' \in {"IDLE", "DESCRIBED", "SETUPED", "PLAYING"}
          BY <4>1, <4>3, GrantIs
        <5>2. shut' \in BOOLEAN
          BY <4>3 DEF Grant
        <5>3. QED BY <4>2, <4>3, <5>1, <5>2
      <4>4. CASE UNCHANGED <<state, shut>> /\ granted' = Append(granted, FALSE)
        <5>1. shut' \in BOOLEAN
          BY <4>4 DEF ParserInv
        <5>2. QED BY <4>1, <4>2, <4>4, <5>1
      <4>5. QED BY <2>5, <4>3, <4>4 DEF Process
    <3>3. handled' \in Seq(Handled) /\ \A i \in DOMAIN handled' : Len(handled'[i].data) <= 2
      <4>1. handled \in Seq(Handled) /\ \A i \in DOMAIN handled : Len(handled[i].data) <= 2
        BY DEF ParserInv
      <4>2. Append(handled, h) \in Seq(Handled)
        BY <3>1, <4>1
      <4>3. QED BY <3>1, <3>2, <4>1, <4>2, AppendSmall
    <3>4. left' \in 0 .. pos /\ left' <= ReadMax
      BY <1>0, <2>4, <2>5
    <3>5. req' \in ReqType /\ Len(req'.data) <= req'.need /\ (~req'.head => req'.data = <<>>)
      BY <2>5, NewRequestType, NewRequestData
    <3>8. Len(granted') = Len(handled')
      BY <3>1, <3>2, <3>7 DEF ParserInv
    <3>6. QED BY <2>1, <2>5, <3>3, <3>4, <3>5, <3>7, <3>8 DEF ParserInv
  <2>6. CASE left < Missing(req) /\ req' = q /\ left' = 0 /\ at' = "read"
             /\ UNCHANGED <<state, handled, granted, shut>>
    <3> HIDE DEF q
    <3>1. left' \in 0 .. pos /\ left' <= ReadMax
      BY <1>0, <2>6
    <3>2. QED BY <2>1, <2>3, <2>6, <3>1 DEF ParserInv
  <2>7. QED BY <1>3, <2>5, <2>6 DEF ParseBody, ResetRequest
<1>4. CASE ParseEnd
  BY <1>4 DEF ParseEnd, ParserInv
<1>5. CASE UNCHANGED vars
  BY <1>5 DEF vars, ParserInv
<1>6. QED BY <1>1, <1>2, <1>3, <1>4, <1>5 DEF Next

\* The parser's state has its type; a body that is handled is not longer than
\* its Content-Length.
THEOREM InputTypes == Spec => []TypeOK
PROOF
<1>1. ParserInv => TypeOK
  BY DEF ParserInv, TypeOK, ReqType
<1>2. QED BY <1>1, ParserInvInit, ParserInvNext, PTL DEF Spec

-----------------------------------------------------------------------------
(* A packet of RTCP stays alone in its chunk.                               *)

LEMMA RtcpApartInit == Init => RtcpApart
  BY DEF Init, RtcpApart

\* The parser goes on in its chunk.
LEMMA ParsingGoesOn ==
  ASSUME ParserInv, ParseHead \/ ParseBody \/ ParseEnd \/ UNCHANGED vars
  PROVE  /\ messages' = messages /\ pos' = pos
         /\ left' \in Nat /\ left' <= left /\ Parsed' >= Parsed
         /\ at' = "parse" => at = "parse"
PROOF
<1>1. pos \in Nat /\ left \in Nat
  BY MessagesType, WireType DEF ParserInv
<1>2. Missing(req) \in Nat
  BY MissingType DEF ParserInv
<1>3. /\ messages' = messages /\ pos' = pos /\ left' \in Nat /\ left' <= left
      /\ at' = "parse" => at = "parse"
  <2>1. CASE ParseHead
    BY <1>1, <2>1 DEF ParseHead
  <2>2. CASE ParseBody
    BY <1>1, <1>2, <2>2 DEF ParseBody
  <2>3. CASE ParseEnd
    BY <1>1, <2>3 DEF ParseEnd
  <2>4. CASE UNCHANGED vars
    BY <1>1, <2>4 DEF vars
  <2>5. QED BY <2>1, <2>2, <2>3, <2>4
<1>4. Parsed = pos - left /\ Parsed' = pos' - left'
  BY DEF Parsed
<1>5. Parsed' >= Parsed
  <2>1. \A a, b, c \in Nat : b <= c => a - b >= a - c
    OBVIOUS
  <2>2. pos - left' >= pos - left
    BY <1>1, <1>3, <2>1
  <2>3. QED BY <1>3, <1>4, <2>2
<1>6. QED BY <1>3, <1>5

LEMMA RtcpApartNext == ParserInv /\ RtcpApart /\ [Next]_vars => RtcpApart'
PROOF
<1> SUFFICES ASSUME ParserInv, RtcpApart, [Next]_vars, at' = "parse",
                    NEW i \in 1 .. Len(messages'), messages'[i] \in Rtcp
             PROVE  Apart(i)'
  BY DEF RtcpApart
<1>1. messages' = messages /\ messages \in Seq(Kind) /\ pos \in Nat /\ left \in Nat
  <2>1. messages' = messages
    BY DEF Next, Read, ParseHead, ParseBody, ParseEnd, vars
  <2>2. QED BY <2>1, MessagesType, WireType DEF ParserInv
<1>2. i \in 1 .. Len(messages) /\ messages[i] \in Rtcp
  BY <1>1
<1> DEFINE from == EndOf(messages, i - 1)
           to == EndOf(messages, i)
<1>3. from \in Nat /\ to \in Nat
  <2>1. i \in 0 .. Len(messages) /\ i - 1 \in 0 .. Len(messages)
    BY <1>1, <1>2
  <2>2. QED BY <1>1, <2>1, EndOfDef
<1>4. pos' <= from \/ Parsed' >= to \/ (pos' = to /\ Parsed' >= from) => Apart(i)'
  BY <1>1 DEF Apart
<1>5. CASE Read
  <2>1. PICK n \in 1 .. ReadMax : pos' = pos + n /\ left' = n /\ AloneRtcp(n)
    BY <1>5 DEF Read
  <2>2. pos + n <= from \/ pos >= to \/ (pos = from /\ pos + n = to)
    BY <1>2, <2>1 DEF AloneRtcp
  <2> HIDE DEF from, to
  <2>3. Parsed' = pos
    BY <1>1, <2>1, InputAssumption DEF Parsed
  <2>4. QED BY <1>1, <1>3, <1>4, <2>1, <2>2, <2>3
<1>6. CASE ParseHead \/ ParseBody \/ ParseEnd \/ UNCHANGED vars
  <2>1. pos' = pos /\ Parsed' >= Parsed /\ at = "parse" /\ left' \in Nat
    BY <1>6, ParsingGoesOn
  <2>2. Apart(i)
    BY <1>2, <2>1 DEF RtcpApart
  <2>3. pos <= from \/ Parsed >= to \/ (pos = to /\ Parsed >= from)
    BY <2>2 DEF Apart
  <2> HIDE DEF from, to
  <2>4. Parsed \in Int /\ Parsed' \in Int
    BY <1>1, <2>1 DEF Parsed
  <2>5. QED BY <1>3, <1>4, <2>1, <2>3, <2>4
<1>7. QED BY <1>5, <1>6 DEF Next

-----------------------------------------------------------------------------
(* The parser is where it would be if it had read the message alone.        *)

\* A packet of RTCP is refused before it ends, and has no head.
LEMMA RefusedInside ==
  ASSUME NEW m \in Kind, m \in Rtcp, NEW k \in 0 .. Len(Bytes[m]),
         \A t \in 0 .. k - 1 : Takes(Alone(m)[t], Bytes[m][t + 1])
  PROVE  k < Len(Bytes[m]) /\ ~Alone(m)[k].head
PROOF
<1>1. PICK n \in 0 .. Len(Bytes[m]) - 1 :
        /\ ~Takes(Alone(m)[n], Bytes[m][n + 1])
        /\ \A t \in 0 .. n : ~Alone(m)[t].head
  <2>1. IsRefused(m)
    BY InputAssumption DEF Kind
  <2>2. QED BY <2>1 DEF IsRefused
<1>2. Len(Bytes[m]) \in Nat
  BY MessageNotEmpty
<1>3. n >= k
  BY <1>1, <1>2
<1>4. QED BY <1>1, <1>2, <1>3

\* A character of the head, as in a message alone; what is no character of a
\* request's head is RTCP.
LEMMA HeadAlone ==
  ASSUME NEW m \in Kind, NEW k \in Nat, Amid(m, k), ~req.head
  PROVE  /\ k < Len(Bytes[m])
         /\ Takes(req, Bytes[m][k + 1]) =>
              /\ TakeHead(req, Bytes[m][k + 1]) = Alone(m)[k + 1]
              /\ k + 1 = Len(Bytes[m]) => Alone(m)[k + 1].head
              /\ m \in Rtcp => \A t \in 0 .. k : Takes(Alone(m)[t], Bytes[m][t + 1])
         /\ ~Takes(req, Bytes[m][k + 1]) => m \in Rtcp
PROOF
<1> DEFINE N == Len(Bytes[m])
<1>1. N \in Nat /\ k \in 0 .. N /\ k < N /\ req = Alone(m)[k]
  <2>1. N \in Nat
    BY MessageNotEmpty
  <2>2. QED BY <2>1 DEF Amid
<1>2. ASSUME ~Takes(req, Bytes[m][k + 1]) PROVE m \in Rtcp
  <2> SUFFICES ASSUME m \notin Rtcp PROVE FALSE
    OBVIOUS
  <2>1. IsRequest(m)
    BY InputAssumption DEF Kind
  <2>2. k \in 0 .. N - 1
    BY <1>1
  <2>3. QED BY <1>1, <1>2, <2>1, <2>2 DEF IsRequest
<1>3. ASSUME Takes(req, Bytes[m][k + 1])
      PROVE  /\ TakeHead(req, Bytes[m][k + 1]) = Alone(m)[k + 1]
             /\ m \in Rtcp => \A t \in 0 .. k : Takes(Alone(m)[t], Bytes[m][t + 1])
             /\ k + 1 = N => Alone(m)[k + 1].head
  <2>1. k + 1 \in 1 .. N /\ (k + 1) - 1 = k
    BY <1>1
  <2>2. Alone(m)[k + 1] = More(Alone(m)[k], Bytes[m][k + 1])
    BY <2>1, AloneDef
  <2>3. TakeHead(req, Bytes[m][k + 1]) = Alone(m)[k + 1]
    BY <1>1, <1>3, <2>2 DEF More
  <2>4. ASSUME m \in Rtcp, NEW t \in 0 .. k PROVE Takes(Alone(m)[t], Bytes[m][t + 1])
    <3>1. CASE t = k
      BY <1>1, <1>3, <3>1
    <3>2. CASE t \in 0 .. k - 1
      BY <2>4, <3>2 DEF Amid
    <3>3. QED BY <1>1, <3>1, <3>2
  <2>5. ASSUME k + 1 = N PROVE Alone(m)[k + 1].head
    <3>1. m \notin Rtcp
      <4> SUFFICES ASSUME m \in Rtcp PROVE FALSE
        OBVIOUS
      <4> DEFINE j == k + 1
      <4>1. j \in 0 .. Len(Bytes[m]) /\ j - 1 = k /\ j = N
        BY <1>1, <2>5
      <4> HIDE DEF j
      <4>2. \A t \in 0 .. j - 1 : Takes(Alone(m)[t], Bytes[m][t + 1])
        BY <2>4, <4>1
      <4>3. j < Len(Bytes[m])
        BY <4>1, <4>2, RefusedInside
      <4>4. QED BY <1>1, <4>1, <4>3
    <3>2. Whole(Alone(m)[N])
      BY <3>1, InputAssumption DEF Kind, IsRequest
    <3>3. QED BY <2>5, <3>2 DEF Whole
  <2>6. QED BY <2>3, <2>4, <2>5
<1>4. QED BY <1>1, <1>2, <1>3

\* There is a next message to be parsed while the chunk is not empty.
LEMMA NextMessage ==
  ASSUME ParserInv, NEW i \in 0 .. Len(messages), NEW k \in Nat, Progress(i, k),
         left > 0 \/ k # 0
  PROVE  /\ i \in 0 .. Len(messages) - 1 /\ messages[i + 1] \in Kind
         /\ Amid(messages[i + 1], k)
PROOF
<1>1. messages \in Seq(Kind) /\ pos \in Nat /\ left \in Nat /\ pos <= Len(Wire(messages))
  <2>1. messages \in Seq(Kind)
    BY MessagesType DEF ParserInv
  <2>2. QED BY <2>1, WireType DEF ParserInv
<1>2. i < Len(messages)
  <2>1. CASE k # 0
    BY <2>1 DEF Progress
  <2>2. CASE k = 0
    <3>1. Parsed = EndOf(messages, i) + 0
      BY <2>2 DEF Progress
    <3>2. EndOf(messages, i) \in Nat
      BY <1>1, EndOfDef
    <3>3. Parsed < pos
      BY <1>1, <2>2 DEF Parsed
    <3>4. QED BY <1>1, <3>1, <3>2, <3>3, WireType
  <2>3. QED BY <2>1, <2>2
<1>3. i \in 0 .. Len(messages) - 1 /\ messages[i + 1] \in Kind
  BY <1>1, <1>2
<1> DEFINE m == messages[i + 1]
<1>4. Amid(m, k)
  <2>1. CASE k # 0
    BY <2>1 DEF Progress
  <2>2. CASE k = 0
    <3>1. req = NewRequest /\ Alone(m)[0] = NewRequest
      BY <1>3, <2>2, AloneDef DEF Progress
    <3>2. Len(Bytes[m]) \in Nat \ {0}
      BY <1>3, MessageNotEmpty
    <3> HIDE DEF m
    <3>3. QED BY <2>2, <3>1, <3>2 DEF Amid
  <2>3. QED BY <2>1, <2>2
<1>5. QED BY <1>3, <1>4

\* A piece of the chunk is a piece of the message.
LEMMA ChunkInMessage ==
  ASSUME ParserInv, NEW i \in 0 .. Len(messages) - 1, NEW m \in Kind, m = messages[i + 1],
         NEW k \in 0 .. Len(Bytes[m]), Parsed = EndOf(messages, i) + k,
         NEW n \in Nat, n <= left, k + n <= Len(Bytes[m])
  PROVE  SubSeq(Chunk, 1, n) = SubSeq(Bytes[m], k + 1, k + n)
PROOF
<1> DEFINE s == Bytes[m]
           w == Wire(messages)
           from == EndOf(messages, i)
<1>1. s \in Seq(Char) /\ Len(s) \in Nat
  BY InputAssumption DEF Kind
<1>2. messages \in Seq(Kind) /\ left \in Nat
  BY MessagesType, WireType DEF ParserInv
<1>3. from \in Nat
  BY <1>2, EndOfDef
<1>4. \A x \in 1 .. Len(s) : w[from + x] = s[x]
  BY <1>2, WireAt
<1>5. /\ Chunk \in Seq(Char) /\ Len(Chunk) = left
      /\ \A x \in 1 .. left : Chunk[x] = w[Parsed + x]
  BY ChunkIs
<1> DEFINE a == SubSeq(Chunk, 1, n)
           b == SubSeq(s, k + 1, k + n)
<1> HIDE DEF s, w, from
<1>6. a \in Seq(Char) /\ Len(a) = n /\ \A x \in 1 .. n : a[x] = Chunk[x]
  BY <1>2, <1>5
<1>7. b \in Seq(Char) /\ Len(b) = n /\ \A x \in 1 .. n : b[x] = s[k + x]
  <2>1. k \in Nat /\ k + n <= Len(s)
    BY <1>1 DEF s
  <2>2. QED BY <1>1, <2>1, SubSeqAt
<1> HIDE DEF a, b
<1>8. ASSUME NEW x \in 1 .. n PROVE a[x] = b[x]
  <2>1. x \in 1 .. left /\ k + x \in 1 .. Len(s)
    BY <1>1, <1>2 DEF s
  <2>2. a[x] = w[Parsed + x]
    BY <1>5, <1>6, <2>1
  <2>3. b[x] = w[from + (k + x)]
    BY <1>4, <1>7, <2>1
  <2>4. Parsed + x = from + (k + x)
    BY <1>1, <1>3, <2>1 DEF from, s
  <2>5. QED BY <2>2, <2>3, <2>4
<1>9. a = b
  BY <1>6, <1>7, <1>8
<1>10. QED BY <1>9 DEF a, b, s

\* With a piece of the body the parser is further on in the message.
LEMMA BodyPiece ==
  ASSUME ParserInv, NEW i \in 0 .. Len(messages) - 1, NEW m \in Kind, m = messages[i + 1],
         NEW k \in 0 .. Len(Bytes[m]), Parsed = EndOf(messages, i) + k,
         NEW n \in Nat, n <= left, k + n <= Len(Bytes[m]),
         req = Alone(m)[k], req.head
  PROVE  WithData(req, req.data \o SubSeq(Chunk, 1, n)) = Alone(m)[k + n]
PROOF
<1>1. Len(Bytes[m]) \in Nat
  BY MessageNotEmpty
<1>2. req \in ReqType /\ req.data \in Seq(Char) /\ Chunk \in Seq(Char)
  BY ChunkIs, MissingType DEF ParserInv
<1>3. CASE k = Len(Bytes[m])
  <2>1. n = 0 /\ k + n = k
    BY <1>1, <1>3
  <2>2. req.data \o SubSeq(Chunk, 1, n) = req.data
    <3> DEFINE d == req.data
    <3>1. d \in Seq(Char)
      BY <1>2
    <3> HIDE DEF d
    <3>2. d \o SubSeq(Chunk, 1, 0) = d
      BY <1>2, <3>1
    <3>3. QED BY <2>1, <3>2 DEF d
  <2>3. WithData(req, req.data) = req
    BY <1>2, WithDataIs
  <2>4. Alone(m)[k + n] = req
    BY <2>1
  <2>5. QED BY <2>2, <2>3, <2>4
<1>4. CASE k # Len(Bytes[m])
  <2>1. SubSeq(Chunk, 1, n) = SubSeq(Bytes[m], k + 1, k + n)
    BY ChunkInMessage
  <2>2. k \in 0 .. Len(Bytes[m]) - 1 /\ k + n \in k .. Len(Bytes[m])
    BY <1>1, <1>4
  <2>3. QED BY <2>1, <2>2, BodyAlone
<1>5. QED BY <1>3, <1>4

\* What is handled of a client with its next message
LEMMA RequestsNext ==
  ASSUME NEW ms \in Seq(Kind), NEW i \in 0 .. Len(ms) - 1
  PROVE  Requests(ms)[i + 1] = IF ms[i + 1] \in Rtcp THEN Requests(ms)[i]
                               ELSE Append(Requests(ms)[i], Request(ms[i + 1]))
PROOF
<1>1. i + 1 \in 1 .. Len(ms) /\ (i + 1) - 1 = i
  OBVIOUS
<1>2. QED BY <1>1, RequestsDef

LEMMA CountType ==
  ASSUME NEW ms \in Seq(Kind), NEW i \in 0 .. Len(ms)
  PROVE  Requests(ms)[i] \in Seq(Handled) /\ Len(Requests(ms)[i]) \in Nat
PROOF
<1>1. Requests(ms)[i] \in Seq(Handled)
  BY RequestsDef
<1>2. QED BY <1>1

LEMMA CountNext ==
  ASSUME NEW ms \in Seq(Kind), NEW i \in 0 .. Len(ms) - 1
  PROVE  Len(Requests(ms)[i + 1]) = IF ms[i + 1] \in Rtcp THEN Len(Requests(ms)[i])
                                    ELSE Len(Requests(ms)[i]) + 1
PROOF
<1>1. i \in 0 .. Len(ms) /\ ms[i + 1] \in Kind
  OBVIOUS
<1>2. CASE ms[i + 1] \in Rtcp
  BY <1>2, RequestsNext
<1>3. CASE ms[i + 1] \notin Rtcp
  <2>1. Requests(ms)[i] \in Seq(Handled) /\ Request(ms[i + 1]) \in Handled
    BY <1>1, <1>3, CountType, RequestType
  <2>2. Requests(ms)[i + 1] = Append(Requests(ms)[i], Request(ms[i + 1]))
    BY <1>3, RequestsNext
  <2> HIDE DEF Requests, Request
  <2>3. QED BY <1>3, <2>1, <2>2
<1>4. QED BY <1>2, <1>3

\* No message takes a request back.
LEMMA CountGrows ==
  ASSUME NEW ms \in Seq(Kind), NEW j \in 0 .. Len(ms), NEW i \in 0 .. j
  PROVE  Len(Requests(ms)[i]) <= Len(Requests(ms)[j])
PROOF
<1> DEFINE N == Len(ms)
           c == [h \in 0 .. N |-> Len(Requests(ms)[h])]
           S == {k \in 0 .. N : \A h \in 0 .. k : c[h] <= c[k]}
<1>1. N \in Nat /\ \A k \in 0 .. N : c[k] \in Nat
  BY CountType
<1>2. ASSUME NEW n \in 0 .. N - 1 PROVE c[n] <= c[n + 1]
  <2>1. n \in 0 .. N /\ n + 1 \in 0 .. N
    OBVIOUS
  <2>2. Len(Requests(ms)[n]) <= Len(Requests(ms)[n + 1])
    BY <2>1, CountType, CountNext
  <2>3. QED BY <2>1, <2>2
<1> HIDE DEF N, c
<1>3. 0 \in S
  BY <1>1
<1>4. ASSUME NEW n \in 0 .. N - 1, n \in S PROVE n + 1 \in S
  <2>1. n \in 0 .. N /\ n + 1 \in 0 .. N
    BY <1>1
  <2>2. ASSUME NEW h \in 0 .. n + 1 PROVE c[h] <= c[n + 1]
    <3>1. CASE h = n + 1
      BY <1>1, <2>1, <3>1
    <3>2. CASE h <= n
      <4>1. c[h] <= c[n] /\ h \in 0 .. N
        BY <1>1, <1>4, <3>2
      <4>2. QED BY <1>1, <1>2, <2>1, <4>1
    <3>3. QED BY <3>1, <3>2
  <2>3. QED BY <2>1, <2>2
<1>5. \A n \in 0 .. N - 1 : n \in S => n + 1 \in S
  BY <1>4
<1> HIDE DEF S
<1>6. \A n \in 0 .. N : n \in S
  BY <1>1, <1>3, <1>5, BoundedInduction
<1>7. j \in S
  BY <1>6 DEF N
<1>8. c[i] <= c[j]
  BY <1>7 DEF S
<1>9. i \in 0 .. Len(ms)
  OBVIOUS
<1>10. QED BY <1>8, <1>9 DEF c, N

\* What was granted of the messages that were handled stays so.
LEMMA GrantedStays ==
  ASSUME messages \in Seq(Kind), messages' = messages,
         granted \in Seq(BOOLEAN), NEW b \in BOOLEAN,
         granted' \in {granted, Append(granted, b)},
         NEW i \in 1 .. Len(messages), Len(Requests(messages)[i]) <= Len(granted), NEW verb
  PROVE  Granted(i, verb)' <=> Granted(i, verb)
PROOF
<1>1. CASE messages[i] \in Rtcp
  BY <1>1 DEF Granted
<1>2. CASE messages[i] \notin Rtcp
  <2> DEFINE n == Len(Requests(messages)[i])
  <2>1. n \in 1 .. Len(granted)
    <3>1. i - 1 \in 0 .. Len(messages) - 1 /\ i - 1 \in 0 .. Len(messages) /\ (i - 1) + 1 = i
          /\ Len(granted) \in Nat
      OBVIOUS
    <3>2. n = Len(Requests(messages)[i - 1]) + 1 /\ Len(Requests(messages)[i - 1]) \in Nat
      BY <1>2, <3>1, CountNext, CountType
    <3>3. QED BY <3>1, <3>2
  <2> HIDE DEF n
  <2>2. n <= Len(granted') /\ granted'[n] = granted[n] /\ n <= Len(granted)
    <3>1. CASE granted' = granted
      BY <2>1, <3>1
    <3>2. CASE granted' = Append(granted, b)
      <4>1. Len(Append(granted, b)) = Len(granted) + 1 /\ Append(granted, b)[n] = granted[n]
        BY <2>1, AppendProperties
      <4>2. QED BY <2>1, <3>2, <4>1
    <3>3. QED BY <3>1, <3>2
  <2>3. QED BY <2>2 DEF Granted, n
<1>3. QED BY <1>1, <1>2

\* and so does whether they made the client play.
LEMMA PlaysStays ==
  ASSUME messages \in Seq(Kind), messages' = messages,
         granted \in Seq(BOOLEAN), NEW b \in BOOLEAN,
         granted' \in {granted, Append(granted, b)},
         NEW i \in 0 .. Len(messages), Len(Requests(messages)[i]) <= Len(granted)
  PROVE  PlaysAfter(i)' <=> PlaysAfter(i)
PROOF
<1>1. ASSUME NEW j \in 1 .. i, NEW verb PROVE Granted(j, verb)' <=> Granted(j, verb)
  <2>1. j \in 1 .. Len(messages) /\ j \in 0 .. i
    OBVIOUS
  <2>2. Len(Requests(messages)[j]) <= Len(granted)
    <3>1. Len(Requests(messages)[j]) <= Len(Requests(messages)[i])
      BY <2>1, CountGrows
    <3>2. j \in 0 .. Len(messages)
      BY <2>1
    <3>3. Len(Requests(messages)[j]) \in Nat /\ Len(Requests(messages)[i]) \in Nat
      BY <3>2, CountType
    <3>4. Len(granted) \in Nat
      OBVIOUS
    <3>5. QED BY <3>1, <3>3, <3>4
  <2>3. QED BY <2>1, <2>2, GrantedStays
<1>2. \A j \in 1 .. i : \A k \in j + 1 .. i : k \in 1 .. i
  OBVIOUS
<1>3. QED BY <1>1, <1>2 DEF PlaysAfter

\* A packet of RTCP does not make a client play.
LEMMA PlaysRtcp ==
  ASSUME NEW i \in Nat, messages[i + 1] \in Rtcp, PlaysAfter(i + 1)
  PROVE  PlaysAfter(i)
PROOF
<1>1. PICK j \in 1 .. i + 1 : /\ Granted(j, "PLAY")
                             /\ \A k \in j + 1 .. i + 1 : ~Granted(k, "DESCRIBE") /\ ~Granted(k, "TEARDOWN")
  BY DEF PlaysAfter
<1>2. j # i + 1
  BY <1>1 DEF Granted
<1>3. j \in 1 .. i /\ \A k \in j + 1 .. i : k \in j + 1 .. i + 1
  BY <1>2
<1>4. QED BY <1>1, <1>3 DEF PlaysAfter

LEMMA InStepInit == Init => InStep /\ Ended
PROOF
<1> SUFFICES ASSUME Init PROVE InStep /\ Ended
  OBVIOUS
<1>1. messages \in Seq(Kind)
  BY MessagesType DEF Init
<1>2. EndOf(messages, 0) = 0 /\ Requests(messages)[0] = <<>> /\ ~PlaysAfter(0)
  BY <1>1, EndOfDef, RequestsDef DEF PlaysAfter
<1>3. Parsed = 0 /\ req = NewRequest /\ handled = <<>>
  BY DEF Init, Parsed
<1>4. Progress(0, 0)
  BY <1>2, <1>3 DEF Progress
<1>5. 0 \in 0 .. Len(messages) /\ 0 \in Nat
  BY <1>1
<1>6. InStep
  BY <1>4, <1>5 DEF InStep
<1>7. QED BY <1>6 DEF Init, Ended

-----------------------------------------------------------------------------
(* Each step of the parser takes it on in the message, or to the next one.  *)

\* What Progress says, in the state and in the next
LEMMA ProgressIs ==
  ASSUME NEW i \in Nat, NEW k \in Nat, messages' = messages,
         Parsed' = EndOf(messages, i) + k,
         k = 0 => req' = NewRequest,
         k # 0 => i < Len(messages) /\ Amid(messages[i + 1], k)',
         handled' = Requests(messages)[i],
         PlaysAfter(i)' => state' = "PLAYING"
  PROVE  Progress(i, k)'
  BY DEF Progress

LEMMA AmidNext ==
  ASSUME NEW m, NEW k \in 0 .. Len(Bytes[m]), messages' = messages,
         req' = Alone(m)[k],
         k = Len(Bytes[m]) => at' = "parse" /\ req'.head,
         m \in Rtcp => \A t \in 0 .. k - 1 : Takes(Alone(m)[t], Bytes[m][t + 1])
  PROVE  Amid(m, k)'
  BY DEF Amid

LEMMA InStepParseHead ==
  ASSUME ParserInv, RtcpApart, InStep, ParseHead, ~shut
  PROVE  InStep' /\ (shut' => Ended')
PROOF
<1>1. PICK i \in 0 .. Len(messages), k \in Nat : Progress(i, k)
  BY DEF InStep
<1> DEFINE m == messages[i + 1]
           N == Len(Bytes[m])
           ch == Bytes[m][k + 1]
<1>2. /\ messages' = messages /\ pos' = pos /\ state' = state /\ handled' = handled
      /\ granted' = granted /\ at = "parse" /\ left > 0 /\ ~req.head
  BY DEF ParseHead
<1>3. /\ i \in 0 .. Len(messages) - 1 /\ m \in Kind /\ Amid(m, k)
      /\ messages \in Seq(Kind) /\ left \in Nat /\ pos \in Nat /\ N \in Nat
  <2>1. i \in 0 .. Len(messages) - 1 /\ m \in Kind /\ Amid(m, k)
    BY <1>1, <1>2, NextMessage
  <2>2. messages \in Seq(Kind) /\ left \in Nat /\ pos \in Nat
    BY MessagesType, WireType DEF ParserInv
  <2>3. QED BY <2>1, <2>2, MessageNotEmpty
<1>4. /\ Parsed = EndOf(messages, i) + k
      /\ handled = Requests(messages)[i] /\ (PlaysAfter(i) => state = "PLAYING")
  BY <1>1 DEF Progress
<1>5. /\ k < N /\ (~Takes(req, ch) => m \in Rtcp)
      /\ Takes(req, ch) =>
           /\ TakeHead(req, ch) = Alone(m)[k + 1]
           /\ k + 1 = N => Alone(m)[k + 1].head
           /\ m \in Rtcp => \A t \in 0 .. k : Takes(Alone(m)[t], Bytes[m][t + 1])
  BY <1>2, <1>3, HeadAlone
<1>6. /\ EndOf(messages, i) \in Nat
      /\ EndOf(messages, i + 1) = EndOf(messages, i) + N
  BY <1>3, EndOfDef
<1>7. Chunk[1] = ch
  <2>1. Chunk[1] = Wire(messages)[Parsed + 1]
    BY <1>2, <1>3, ChunkIs
  <2>2. k + 1 \in 1 .. N
    BY <1>3, <1>5
  <2>3. Wire(messages)[EndOf(messages, i) + (k + 1)] = ch
    BY <1>3, <2>2, WireAt
  <2>4. Parsed + 1 = EndOf(messages, i) + (k + 1)
    BY <1>4, <1>6
  <2>5. QED BY <2>1, <2>3, <2>4
<1>8. Parsed = pos - left /\ Parsed' = pos' - left'
  BY DEF Parsed
<1>12. \A n \in 0 .. Len(messages) : PlaysAfter(n)' <=> PlaysAfter(n)
  BY <1>2 DEF PlaysAfter, Granted
<1>9. CASE Takes(req, ch) /\ req' = TakeHead(req, ch) /\ left' = left - 1 /\ UNCHANGED <<at, shut>>
  <2> DEFINE j == k + 1
  <2>1. j \in Nat /\ j # 0 /\ j - 1 = k /\ j \in 0 .. N
    BY <1>3, <1>5
  <2>2. Parsed' = EndOf(messages, i) + j
    <3>1. \A p, l \in Nat : p - (l - 1) = (p - l) + 1
      OBVIOUS
    <3>2. Parsed' = Parsed + 1
      BY <1>2, <1>3, <1>8, <1>9, <3>1
    <3>3. QED BY <1>4, <1>6, <3>2
  <2>3. /\ req' = Alone(m)[j] /\ (j = N => at' = "parse" /\ req'.head)
        /\ m \in Rtcp => \A t \in 0 .. j - 1 : Takes(Alone(m)[t], Bytes[m][t + 1])
    BY <1>2, <1>5, <1>9, <2>1
  <2> HIDE DEF j
  <2>4. Amid(m, j)'
    BY <1>2, <2>1, <2>3, AmidNext
  <2>5. Progress(i, j)'
    <3>1. i \in 0 .. Len(messages) /\ i < Len(messages)
      BY <1>3
    <3>2. QED BY <1>2, <1>4, <1>12, <2>1, <2>2, <2>4, <3>1, ProgressIs
  <2>6. QED BY <1>2, <1>9, <2>1, <2>5 DEF InStep
<1>10. CASE ~Takes(req, ch) /\ Refused /\ left' = 0 /\ at' = "read"
  <2>1. m \in Rtcp
    BY <1>5, <1>10
  <2>2. pos = EndOf(messages, i + 1)
    <3>1. i + 1 \in 1 .. Len(messages) /\ (i + 1) - 1 = i
      BY <1>3
    <3>2. Apart(i + 1)
      BY <1>2, <2>1, <3>1 DEF RtcpApart
    <3>3. \/ pos <= EndOf(messages, i)
          \/ Parsed >= EndOf(messages, i + 1)
          \/ pos = EndOf(messages, i + 1)
      BY <3>1, <3>2 DEF Apart
    <3>4. QED BY <1>2, <1>3, <1>4, <1>5, <1>6, <1>8, <3>3
  <2>3. CASE state = "PLAYING" /\ req' = NewRequest /\ shut' = shut
    <3> DEFINE j == i + 1
    <3>1. /\ j \in Nat /\ j \in 0 .. Len(messages)
          /\ Parsed' = EndOf(messages, j) + 0
      <4>1. j \in Nat /\ j \in 0 .. Len(messages)
        BY <1>3
      <4>2. EndOf(messages, j) \in Nat /\ Parsed' = pos
        BY <1>2, <1>3, <1>8, <1>10, <4>1, EndOfDef
      <4>3. QED BY <2>2, <4>1, <4>2
    <3>2. handled' = Requests(messages)[j]
      BY <1>2, <1>3, <1>4, <2>1, RequestsNext
    <3>3. PlaysAfter(j)' => state' = "PLAYING"
      BY <1>2, <2>3
    <3> HIDE DEF j
    <3>4. Progress(j, 0)'
      BY <1>2, <2>3, <3>1, <3>2, <3>3, ProgressIs
    <3>5. QED BY <1>2, <2>3, <3>1, <3>4 DEF InStep
  <2>4. CASE state # "PLAYING" /\ shut' = TRUE
    <3>1. InStep'
      BY <2>4 DEF InStep
    <3>2. ~PlaysAfter(i)'
      <4>1. i \in 0 .. Len(messages)
        BY <1>3
      <4>2. QED BY <1>4, <1>12, <2>4, <4>1
    <3> DEFINE j == i + 1
    <3>3. j \in 1 .. Len(messages) /\ messages[j] \in Rtcp /\ j - 1 = i
          /\ EndOf(messages, j) <= pos /\ Len(Requests(messages)[j]) = Len(granted)
      <4>1. j \in 1 .. Len(messages) /\ messages[j] \in Rtcp /\ j - 1 = i
        BY <1>3, <2>1
      <4>2. Len(Requests(messages)[j]) = Len(granted)
        BY <1>3, <1>4, <2>1, RequestsNext DEF ParserInv
      <4>3. QED BY <1>3, <2>2, <4>1, <4>2
    <3> HIDE DEF j
    <3>4. Len(Requests(messages)[j]) <= Len(granted)
      BY <3>3 DEF ParserInv
    <3>5. Ender(j)'
      BY <1>2, <3>2, <3>3, <3>4 DEF Ender
    <3>6. Ended'
      BY <1>2, <3>3, <3>5 DEF Ended
    <3>7. QED BY <3>1, <3>6
  <2>5. QED BY <1>10, <2>3, <2>4 DEF Refused, ResetRequest
<1>11. QED BY <1>7, <1>9, <1>10 DEF ParseHead

\* The request that is handled is the last one of its messages.
LEMMA GrantedNow ==
  ASSUME ParserInv, messages' = messages, NEW j \in 1 .. Len(messages),
         handled = Requests(messages)[j - 1], messages[j] \notin Rtcp,
         NEW b \in BOOLEAN, granted' = Append(granted, b), NEW verb
  PROVE  /\ Len(Requests(messages)[j]) <= Len(granted')
         /\ Granted(j, verb)' <=> b /\ Request(messages[j]).method = Verb[verb]
PROOF
<1>1. messages \in Seq(Kind) /\ granted \in Seq(BOOLEAN) /\ Len(granted) = Len(handled)
  BY MessagesType DEF ParserInv
<1>2. j - 1 \in 0 .. Len(messages) - 1 /\ (j - 1) + 1 = j
  BY <1>1
<1>3. Len(Requests(messages)[j]) = Len(granted) + 1
  BY <1>1, <1>2, CountNext
<1>4. /\ Len(granted') = Len(granted) + 1 /\ granted'[Len(granted) + 1] = b
      /\ Len(granted) \in Nat
  BY <1>1, AppendProperties
<1>5. QED BY <1>3, <1>4 DEF Granted

\* A client plays after a request only if it did before, and it was not DESCRIBE
\* or TEARDOWN, or if it was PLAY.
LEMMA PlaysRequest ==
  ASSUME ParserInv, messages' = messages, NEW j \in 0 .. Len(messages), j - 1 \in 0 .. Len(messages),
         handled = Requests(messages)[j - 1], PlaysAfter(j - 1) => state = "PLAYING",
         messages[j] \notin Rtcp, NEW q, q.method = Request(messages[j]).method,
         Process(q), ~shut', PlaysAfter(j)'
  PROVE  state' = "PLAYING"
PROOF
<1>1. messages \in Seq(Kind) /\ granted \in Seq(BOOLEAN) /\ Len(granted) = Len(handled)
  BY MessagesType DEF ParserInv
<1>2. j \in 1 .. Len(messages)
  BY <1>1
<1>3. PICK b \in BOOLEAN : /\ granted' = Append(granted, b)
                           /\ \/ b /\ Grant(q.method)
                              \/ ~b /\ state' = state
  <2>1. CASE Grant(q.method) /\ granted' = Append(granted, TRUE)
    BY <2>1
  <2>2. CASE UNCHANGED <<state, shut>> /\ granted' = Append(granted, FALSE)
    BY <2>2
  <2>3. QED BY <2>1, <2>2 DEF Process
<1>4. \A verb : Granted(j, verb)' <=> b /\ q.method = Verb[verb]
  BY <1>2, <1>3, GrantedNow
<1>5. PICK h \in 1 .. j : /\ Granted(h, "PLAY")'
                          /\ \A k \in h + 1 .. j : ~Granted(k, "DESCRIBE")' /\ ~Granted(k, "TEARDOWN")'
  BY DEF PlaysAfter
<1>6. CASE h = j
  BY <1>3, <1>4, <1>5, <1>6, GrantIs
<1>7. CASE h # j
  <2>1. PlaysAfter(j - 1)'
    <3>1. h \in 1 .. j - 1 /\ \A k \in h + 1 .. j - 1 : k \in h + 1 .. j
      BY <1>2, <1>7
    <3>2. QED BY <1>5, <3>1 DEF PlaysAfter
  <2>2. PlaysAfter(j - 1)
    <3>1. Len(Requests(messages)[j - 1]) <= Len(granted)
      BY <1>1
    <3>2. QED BY <1>1, <1>3, <2>1, <3>1, PlaysStays
  <2>3. state = "PLAYING" /\ j \in h + 1 .. j
    BY <1>2, <1>7, <2>2
  <2>4. b => q.method # Verb["DESCRIBE"] /\ q.method # Verb["TEARDOWN"]
    BY <1>4, <1>5, <2>3
  <2>5. QED BY <1>3, <2>3, <2>4, GrantIs
<1>8. QED BY <1>6, <1>7

LEMMA InStepParseBody ==
  ASSUME ParserInv, InStep, ParseBody, ~shut
  PROVE  InStep' /\ (shut' => Ended')
PROOF
<1>1. PICK i \in 0 .. Len(messages), k \in Nat : Progress(i, k)
  BY DEF InStep
<1> DEFINE m == messages[i + 1]
           N == Len(Bytes[m])
<1>2. messages' = messages /\ pos' = pos /\ at = "parse" /\ req.head
  BY DEF ParseBody
<1>3. k # 0
  BY <1>1, <1>2, NewRequestData DEF Progress
<1>4. /\ i \in 0 .. Len(messages) - 1 /\ m \in Kind /\ Amid(m, k)
      /\ messages \in Seq(Kind) /\ left \in Nat /\ pos \in Nat /\ N \in Nat
  <2>1. i \in 0 .. Len(messages) - 1 /\ m \in Kind /\ Amid(m, k)
    BY <1>1, <1>3, NextMessage
  <2>2. messages \in Seq(Kind) /\ left \in Nat /\ pos \in Nat
    BY MessagesType, WireType DEF ParserInv
  <2>3. QED BY <2>1, <2>2, MessageNotEmpty
<1>5. /\ Parsed = EndOf(messages, i) + k
      /\ handled = Requests(messages)[i] /\ (PlaysAfter(i) => state = "PLAYING")
  BY <1>1 DEF Progress
<1>6. k \in 0 .. N /\ req = Alone(m)[k] /\ m \notin Rtcp
  <2>1. k \in 0 .. N /\ req = Alone(m)[k]
    BY <1>4 DEF Amid
  <2>2. m \in Rtcp => \A t \in 0 .. k - 1 : Takes(Alone(m)[t], Bytes[m][t + 1])
    BY <1>4 DEF Amid
  <2>3. QED BY <1>2, <1>4, <2>1, <2>2, RefusedInside
<1>7. Missing(req) = N - k
  BY <1>2, <1>4, <1>6, MissingAlone
<1>8. /\ EndOf(messages, i) \in Nat
      /\ EndOf(messages, i + 1) = EndOf(messages, i) + N
  BY <1>4, EndOfDef
<1>9. Parsed = pos - left /\ Parsed' = pos' - left'
  BY DEF Parsed
<1>10. /\ req \in ReqType /\ Len(req.data) <= req.need
       /\ Chunk \in Seq(Char) /\ Len(Chunk) = left
  BY ChunkIs DEF ParserInv
<1>11. ASSUME NEW n \in Nat, n <= left, k + n <= N
       PROVE  WithData(req, req.data \o SubSeq(Chunk, 1, n)) = Alone(m)[k + n]
  BY <1>2, <1>4, <1>5, <1>6, <1>11, BodyPiece
<1>12. CASE left >= Missing(req) /\ Process(TakeBody(req, Chunk)) /\ req' = NewRequest
            /\ left' = left - Missing(req)
  <2> DEFINE j == i + 1
             n == N - k
             q == TakeBody(req, Chunk)
  <2>1. n \in Nat /\ n <= left /\ k + n = N /\ Missing(req) = n
    BY <1>4, <1>6, <1>7, <1>12
  <2>2. q = Alone(m)[N]
    <3>1. q = WithData(req, req.data \o SubSeq(Chunk, 1, Missing(req)))
      BY <1>10, <1>12, TakeBodyIs
    <3>2. WithData(req, req.data \o SubSeq(Chunk, 1, n)) = Alone(m)[k + n]
      <4> HIDE DEF n
      <4>1. QED BY <1>4, <1>11, <2>1
    <3>3. QED BY <2>1, <3>1, <3>2
  <2>3. Request(m) = [method |-> q.method, data |-> q.data]
    BY <2>2 DEF Request
  <2>4. handled' = Requests(messages)[j]
    <3>1. handled' = Append(handled, Request(m))
      BY <1>12, <2>3 DEF Process
    <3>2. QED BY <1>4, <1>5, <1>6, <3>1, RequestsNext
  <2>6. /\ j \in Nat /\ j \in 0 .. Len(messages)
        /\ Parsed' = EndOf(messages, j) + 0
    <3>1. \A p, l, x \in Nat : p - (l - x) = (p - l) + x
      OBVIOUS
    <3>2. Parsed' = Parsed + n
      BY <1>2, <1>4, <1>9, <1>12, <2>1, <3>1
    <3>3. QED BY <1>4, <1>5, <1>6, <1>8, <2>1, <3>2
  <2>7. /\ messages[j] \notin Rtcp /\ Request(messages[j]) = Request(m) /\ j - 1 = i
        /\ q.method = Request(m).method
    BY <1>4, <1>6, <2>3
  <2> HIDE DEF j
  <2>8. CASE ~shut'
    <3>1. PlaysAfter(j)' => state' = "PLAYING"
      BY <1>2, <1>4, <1>5, <1>12, <2>6, <2>7, <2>8, PlaysRequest
    <3>2. Progress(j, 0)'
      BY <1>2, <1>12, <2>4, <2>6, <3>1, ProgressIs
    <3>3. QED BY <1>2, <2>6, <2>8, <3>2 DEF InStep
  <2>9. CASE shut'
    <3>1. Grant(q.method) /\ granted' = Append(granted, TRUE) /\ q.method = Verb["TEARDOWN"]
      BY <1>12, <2>9 DEF Process, Grant
    <3>2. j \in 1 .. Len(messages)
      BY <1>4, <2>6, <2>7
    <3>3. Granted(j, "TEARDOWN")' /\ Len(Requests(messages)[j]) <= Len(granted')
      BY <1>2, <1>5, <2>6, <2>7, <3>1, <3>2, GrantedNow
    <3>4. EndOf(messages, j) <= pos'
      <4>1. EndOf(messages, j) \in Nat /\ left' \in Nat
        BY <1>4, <1>10, <1>12, <2>1, <2>6, EndOfDef
      <4>2. pos' - left' = EndOf(messages, j) + 0 /\ pos' \in Nat
        BY <1>2, <1>4, <1>9, <2>6
      <4>3. \A a, b, c \in Nat : a - b = c + 0 => c <= a
        OBVIOUS
      <4>4. QED BY <4>1, <4>2, <4>3
    <3>5. Ender(j)'
      BY <1>2, <3>3, <3>4 DEF Ender
    <3>6. InStep' /\ Ended'
      BY <1>2, <2>9, <3>2, <3>5 DEF InStep, Ended
    <3>7. QED BY <3>6
  <2>10. QED BY <2>8, <2>9
<1>13. CASE left < Missing(req) /\ req' = TakeBody(req, Chunk) /\ left' = 0 /\ at' = "read"
            /\ UNCHANGED <<state, handled, granted, shut>>
  <2>0. PICK j \in Nat : j = k + left
    BY <1>4
  <2>1. j \in Nat /\ j # 0 /\ j \in 0 .. N /\ j < N
    BY <1>3, <1>4, <1>6, <1>7, <1>13, <2>0
  <2>2. req' = Alone(m)[j]
    <3>1. req' = WithData(req, req.data \o Chunk)
      BY <1>10, <1>13, TakeBodyIs
    <3>2. SubSeq(Chunk, 1, left) = Chunk
      BY <1>10
    <3>3. WithData(req, req.data \o SubSeq(Chunk, 1, left)) = Alone(m)[k + left]
      BY <1>4, <1>11, <2>0, <2>1
    <3>4. QED BY <2>0, <3>1, <3>2, <3>3
  <2>3. Parsed' = EndOf(messages, i) + j
    BY <1>2, <1>4, <1>5, <1>6, <1>8, <1>9, <1>13, <2>0
  <2>4. /\ i \in Nat /\ i \in 0 .. Len(messages) /\ i < Len(messages)
        /\ handled' = handled /\ state' = state /\ shut' = shut
        /\ PlaysAfter(i)' <=> PlaysAfter(i)
    BY <1>2, <1>4, <1>13 DEF PlaysAfter, Granted
  <2>5. Amid(m, j)'
    <3>1. j # N /\ j \in 0 .. Len(Bytes[m])
      BY <2>1
    <3>2. QED BY <1>2, <1>6, <2>2, <3>1, AmidNext
  <2>6. Progress(i, j)'
    BY <1>2, <1>5, <2>1, <2>3, <2>4, <2>5, ProgressIs
  <2>7. QED BY <1>2, <2>1, <2>4, <2>6 DEF InStep
<1>14. QED BY <1>12, <1>13 DEF ParseBody, ResetRequest

\* A read and the end of a chunk leave the parser where it is.
LEMMA InStepElse ==
  ASSUME ParserInv, InStep, Read \/ ParseEnd \/ UNCHANGED vars, ~shut
  PROVE  InStep'
PROOF
<1>1. PICK i \in 0 .. Len(messages), k \in Nat : Progress(i, k)
  BY DEF InStep
<1> DEFINE m == messages[i + 1]
<1>2. /\ messages' = messages /\ req' = req /\ handled' = handled /\ state' = state
      /\ granted' = granted /\ shut' = shut
  BY DEF Read, ParseEnd, vars
<1>3. at' = "parse" \/ (at' = "read" /\ ~req.head) \/ at' = at
  BY DEF Read, ParseEnd, vars
<1>4. Parsed' = Parsed
  <2>1. CASE Read
    <3>1. PICK n \in 1 .. ReadMax : pos' = pos + n /\ left' = n
      BY <2>1 DEF Read
    <3>2. left = 0 /\ pos \in Nat /\ n \in Nat
      BY <2>1, MessagesType, WireType, InputAssumption DEF Read, ParserInv
    <3>3. QED BY <3>1, <3>2 DEF Parsed
  <2>2. CASE ParseEnd \/ UNCHANGED vars
    BY <2>2 DEF ParseEnd, vars, Parsed
  <2>3. QED BY <2>1, <2>2
<1>5. ASSUME k # 0 PROVE Amid(m, k)'
  <2>1. k \in 0 .. Len(Bytes[m]) /\ req = Alone(m)[k] /\ m \in Kind
        /\ (m \in Rtcp => \A t \in 0 .. k - 1 : Takes(Alone(m)[t], Bytes[m][t + 1]))
        /\ (k = Len(Bytes[m]) => at = "parse" /\ req.head)
    <3>1. Amid(m, k) /\ m \in Kind
      BY <1>1, <1>5, NextMessage
    <3>2. QED BY <3>1 DEF Amid
  <2>2. k = Len(Bytes[m]) => at' = "parse" /\ req'.head
    BY <1>2, <1>3, <2>1
  <2>3. req' = Alone(m)[k]
    BY <1>2, <2>1
  <2>4. QED BY <1>2, <2>1, <2>2, <2>3, AmidNext
<1>6. /\ Parsed = EndOf(messages, i) + k /\ (k = 0 => req = NewRequest)
      /\ (k # 0 => i < Len(messages))
      /\ handled = Requests(messages)[i] /\ (PlaysAfter(i) => state = "PLAYING")
  BY <1>1 DEF Progress
<1>9. PlaysAfter(i)' <=> PlaysAfter(i)
  BY <1>2 DEF PlaysAfter, Granted
<1>7. Progress(i, k)'
  BY <1>2, <1>4, <1>5, <1>6, <1>9, ProgressIs
<1>8. QED BY <1>2, <1>7 DEF InStep

-----------------------------------------------------------------------------
(* The theorems.                                                            *)

LEMMA EndedStays ==
  ASSUME ParserInv, Ended, [Next]_vars, shut
  PROVE  Ended'
PROOF
<1>1. messages' = messages /\ messages \in Seq(Kind) /\ pos \in Nat /\ pos' \in Nat /\ pos' >= pos
  <2>1. messages' = messages
    BY DEF Next, Read, ParseHead, ParseBody, ParseEnd, vars
  <2>2. messages \in Seq(Kind) /\ pos \in Nat
    BY MessagesType, WireType DEF ParserInv
  <2>3. pos' \in Nat /\ pos' >= pos
    <3>1. CASE Read
      <4>1. PICK n \in 1 .. ReadMax : pos' = pos + n
        BY <3>1 DEF Read
      <4>2. QED BY <2>2, <4>1, InputAssumption
    <3>2. CASE ~Read
      BY <2>2, <3>2, ParsingGoesOn DEF Next
    <3>3. QED BY <3>1, <3>2
  <2>4. QED BY <2>1, <2>2, <2>3
<1>2. PICK b \in BOOLEAN : granted' \in {granted, Append(granted, b)}
  BY DEF Next, Read, ParseHead, ParseBody, Process, ParseEnd, vars
<1>3. PICK i \in 1 .. Len(messages) : Ender(i)
  BY DEF Ended
<1>4. /\ EndOf(messages, i) <= pos /\ Len(Requests(messages)[i]) <= Len(granted)
      /\ granted \in Seq(BOOLEAN) /\ Len(granted) \in Nat
      /\ i \in 0 .. Len(messages) /\ i - 1 \in 0 .. i /\ i - 1 \in 0 .. Len(messages)
  BY <1>1, <1>3 DEF Ender, ParserInv
<1>5. EndOf(messages, i) <= pos'
  <2>1. EndOf(messages, i) \in Nat
    BY <1>1, EndOfDef
  <2>2. QED BY <1>1, <1>4, <2>1
<1>6. Len(Requests(messages)[i]) \in Nat /\ Len(Requests(messages)[i - 1]) \in Nat
      /\ Len(Requests(messages)[i - 1]) <= Len(Requests(messages)[i])
  BY <1>1, <1>4, CountType, CountGrows
<1>7. Len(Requests(messages)[i]) <= Len(granted')
  <2>1. Len(Append(granted, b)) = Len(granted) + 1
    BY <1>4
  <2>2. Len(granted') \in Nat /\ Len(granted') >= Len(granted)
    BY <1>2, <1>4, <2>1
  <2>3. QED BY <1>4, <1>6, <2>2
<1>8. Granted(i, "TEARDOWN")' <=> Granted(i, "TEARDOWN")
  BY <1>1, <1>2, <1>4, GrantedStays
<1>9. PlaysAfter(i - 1)' <=> PlaysAfter(i - 1)
  <2>1. Len(Requests(messages)[i - 1]) <= Len(granted)
    BY <1>4, <1>6
  <2>2. QED BY <1>1, <1>2, <1>4, <2>1, PlaysStays
<1>10. Ender(i)'
  BY <1>1, <1>3, <1>5, <1>7, <1>8, <1>9 DEF Ender
<1>11. QED BY <1>1, <1>10 DEF Ended

LEMMA InputInvInit == Init => InputInv
  BY ParserInvInit, RtcpApartInit, InStepInit DEF InputInv

LEMMA InputInvNext == InputInv /\ [Next]_vars => InputInv'
PROOF
<1> SUFFICES ASSUME InputInv, [Next]_vars PROVE InputInv'
  OBVIOUS
<1>1. ParserInv /\ RtcpApart /\ InStep /\ Ended
  BY DEF InputInv
<1>2. ParserInv' /\ RtcpApart'
  BY <1>1, ParserInvNext, RtcpApartNext
<1>3. CASE shut
  <2>1. shut'
    BY <1>3 DEF Next, Read, ParseHead, Refused, ParseBody, Process, Grant, ParseEnd, vars
  <2>2. InStep'
    BY <2>1 DEF InStep
  <2>3. QED BY <1>1, <1>2, <1>3, <2>2, EndedStays DEF InputInv
<1>4. CASE ~shut
  <2>1. ~shut' => Ended'
    BY DEF Ended
  <2>2. CASE ParseHead
    BY <1>1, <1>2, <1>4, <2>1, <2>2, InStepParseHead DEF InputInv
  <2>3. CASE ParseBody
    BY <1>1, <1>2, <1>4, <2>1, <2>3, InStepParseBody DEF InputInv
  <2>4. CASE Read \/ ParseEnd \/ UNCHANGED vars
    <3>1. InStep'
      BY <1>1, <1>4, <2>4, InStepElse
    <3>2. ~shut'
      BY <1>4, <2>4 DEF Read, ParseEnd, vars
    <3>3. QED BY <1>2, <2>1, <3>1, <3>2 DEF InputInv
  <2>5. QED BY <2>2, <2>3, <2>4 DEF Next
<1>5. QED BY <1>3, <1>4

\* Between two reads the parser has handled the requests that are complete, and
\* no other one: those of the messages that were read to their end.
LEMMA InStepIsHandled == InputInv => CutsDoNotMatter
PROOF
<1> SUFFICES ASSUME InputInv, at = "read", ~shut,
                    NEW i \in 0 .. Len(messages),
                    EndOf(messages, i) <= pos,
                    i < Len(messages) => pos < EndOf(messages, i + 1)
             PROVE  handled = Requests(messages)[i]
  BY DEF CutsDoNotMatter
<1>1. ParserInv /\ InStep
  BY DEF InputInv
<1>2. messages \in Seq(Kind) /\ pos \in Nat /\ left = 0 /\ Parsed = pos
      /\ pos <= EndOf(messages, Len(messages))
  <2>1. messages \in Seq(Kind)
    BY <1>1, MessagesType DEF ParserInv
  <2>2. QED BY <1>1, <2>1, WireType DEF ParserInv, Parsed
<1>3. PICK h \in 0 .. Len(messages), k \in Nat : Progress(h, k)
  BY <1>1 DEF InStep
<1>4. handled = Requests(messages)[h] /\ pos = EndOf(messages, h) + k
  BY <1>2, <1>3 DEF Progress
<1>5. h < Len(messages) => pos < EndOf(messages, h + 1)
  <2> SUFFICES ASSUME h < Len(messages) PROVE pos < EndOf(messages, h + 1)
    OBVIOUS
  <2>1. h \in 0 .. Len(messages) - 1 /\ messages[h + 1] \in Kind
    BY <1>2
  <2>2. /\ EndOf(messages, h) \in Nat
        /\ EndOf(messages, h + 1) = EndOf(messages, h) + Len(Bytes[messages[h + 1]])
        /\ Len(Bytes[messages[h + 1]]) \in Nat \ {0}
    BY <1>2, <2>1, EndOfDef, MessageNotEmpty
  <2>3. k < Len(Bytes[messages[h + 1]])
    <3>1. CASE k = 0
      BY <2>2, <3>1
    <3>2. CASE k # 0
      <4>1. Amid(messages[h + 1], k)
        BY <1>3, <3>2 DEF Progress
      <4>2. QED BY <2>2, <4>1 DEF Amid
    <3>3. QED BY <3>1, <3>2
  <2>4. QED BY <1>4, <2>2, <2>3
<1>6. EndOf(messages, h) <= pos /\ EndOf(messages, h) \in Nat /\ EndOf(messages, i) \in Nat
  BY <1>2, <1>4, EndOfDef
<1>7. ~(h < i)
  <2> SUFFICES ASSUME h < i PROVE FALSE
    OBVIOUS
  <2>1. h + 1 \in 0 .. i /\ h < Len(messages) /\ h + 1 \in 0 .. Len(messages)
    BY <1>2
  <2>2. EndOf(messages, h + 1) <= EndOf(messages, i) /\ EndOf(messages, h + 1) \in Nat
    BY <1>2, <2>1, EndsGrow, EndOfDef
  <2>3. QED BY <1>2, <1>5, <1>6, <2>1, <2>2
<1>8. ~(i < h)
  <2> SUFFICES ASSUME i < h PROVE FALSE
    OBVIOUS
  <2>1. i + 1 \in 0 .. h /\ i < Len(messages) /\ i + 1 \in 0 .. Len(messages)
    BY <1>2
  <2>2. EndOf(messages, i + 1) <= EndOf(messages, h) /\ EndOf(messages, i + 1) \in Nat
    BY <1>2, <2>1, EndsGrow, EndOfDef
  <2>3. QED BY <1>2, <1>6, <2>1, <2>2
<1>9. h = i
  BY <1>2, <1>7, <1>8
<1>10. QED BY <1>4, <1>9

\* However TCP cuts what a client sends into reads, every request is handled
\* once it is complete, in its order, once, with its own method and body.
THEOREM InputCutsDoNotMatter == Spec => []CutsDoNotMatter
  BY InputInvInit, InputInvNext, InStepIsHandled, PTL DEF Spec

\* However its bytes are cut, a client loses its connection only by TEARDOWN or by
\* RTCP that it sends while, by the requests it was granted, it does not play.
THEOREM InputOnlyIdleRtcpRefused == Spec => []OnlyIdleRtcpRefused
PROOF
<1>1. InputInv => OnlyIdleRtcpRefused
  BY DEF InputInv, Ended, Ender, OnlyIdleRtcpRefused
<1>2. QED BY <1>1, InputInvInit, InputInvNext, PTL DEF Spec
=============================================================================
