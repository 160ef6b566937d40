------------------------- MODULE RtspStreamsProofs -------------------------
(***************************************************************************)
(* What TLAPS proves of RtspStreams, for every number of keys, streams,    *)
(* connections and handlers.  In any order of the requests: types, one     *)
(* stream per key, a connection that was set up has its stream, a watched  *)
(* stream leaves the list only when it is dead, and a handler stays        *)
(* registered while its connection keeps it and the stream.  With clients  *)
(* that keep the order: nothing is left registered behind a connection,    *)
(* and the capture thread never calls a handler whose connection is gone.  *)
(***************************************************************************)
EXTENDS RtspStreams, SequenceTheorems, TLAPS

StockType == [key : Key \cup {NoKey}, on : BOOLEAN, age : 0 .. DeadAfter + 1,
              obs : SUBSET Handler]
HdlType == [owner : Sess \cup {NoSess}, on : BOOLEAN, err : BOOLEAN]
ConnType == [open : BOOLEAN, state : {"IDLE", "DESCRIBED", "SETUPED", "PLAYING"},
             stream : Obj \cup {NoObj},
             handler : [Track -> Handler \cup {NoHandler}],
             codec : SUBSET Track, shut : BOOLEAN]

-----------------------------------------------------------------------------
(* The inductive invariant.                                                 *)

\* Where the server thread is, what it works on is there.
ServerKnows ==
  /\ srv.pc # "select" => srv.sess \in Sess
  /\ srv.pc \in {"register", "unregister"} => srv.track \in Track
  /\ srv.pc \in {"register", "stop_play", "unregister", "del_stream"}
       => conn[srv.sess].stream # NoObj
  /\ srv.pc = "unregister" => conn[srv.sess].handler[srv.track] # NoHandler
  /\ srv.pc = "del_stream" => Mine(srv.sess) = {}
  /\ srv.pc = "gone" => conn[srv.sess].stream = NoObj
  /\ srv.pc \in {"stop_play", "unregister", "del_stream"} /\ ~srv.close
       => conn[srv.sess].state = "IDLE"

\* A connection without a stream has no handlers, and is idle unless its
\* destructor has just dropped the stream.
WithoutStream ==
  \A s \in Sess : conn[s].stream = NoObj =>
    /\ \A t \in Track : conn[s].handler[t] = NoHandler
    /\ conn[s].state = "IDLE" \/ (srv.pc = "gone" /\ srv.sess = s)

\* A connection's handlers refer to it.
HandlersOwned ==
  \A s \in Sess : \A t \in Track :
    conn[s].handler[t] # NoHandler => hdl[conn[s].handler[t]].owner = s

\* The stream that is posted to stays in the list with the observers the post
\* still calls.
PostKeepsStream ==
  IF cap.obj = NoObj THEN cap.todo = {} /\ cap.call = NoHandler
  ELSE /\ Listed(cap.obj)
       /\ cap.todo \subseteq stock[cap.obj].obs
       /\ cap.call # NoHandler => cap.call \in stock[cap.obj].obs

\* An ordered client sets a track up once.
RegistersFresh ==
  srv.pc = "register" => conn[srv.sess].handler[srv.track] = NoHandler

StreamInv ==
  /\ TypeOK /\ ServerKnows /\ WithoutStream /\ OneStreamPerKey
  /\ HandlersOwned /\ PostKeepsStream
OrderedInv == RegistersFresh /\ NothingLeftBehind

-----------------------------------------------------------------------------
(* The operators the model is built from.                                   *)

LEMMA Types ==
  TypeOK <=> /\ list \in Seq(Obj)
             /\ stock \in [Obj -> StockType]
             /\ hdl \in [Handler -> HdlType]
             /\ conn \in [Sess -> ConnType]
             /\ srv \in [pc : {"select", "register", "stop_play", "unregister",
                              "del_stream", "gone"},
                        sess : Sess \cup {NoSess}, track : {"video", "audio"},
                        close : BOOLEAN]
             /\ cap \in [obj : Obj \cup {NoObj}, todo : SUBSET Handler,
                        call : Handler \cup {NoHandler}]
BY DEF TypeOK, StockType, HdlType, ConnType

LEMMA TypesNext ==
  ASSUME list' \in Seq(Obj), stock' \in [Obj -> StockType], hdl' \in [Handler -> HdlType],
         conn' \in [Sess -> ConnType],
         srv' \in [pc : {"select", "register", "stop_play", "unregister", "del_stream",
                        "gone"},
                  sess : Sess \cup {NoSess}, track : {"video", "audio"}, close : BOOLEAN],
         cap' \in [obj : Obj \cup {NoObj}, todo : SUBSET Handler,
                  call : Handler \cup {NoHandler}]
  PROVE  TypeOK'
BY DEF TypeOK, StockType, HdlType, ConnType

\* RemoveAt keeps every other element, and adds none.
LEMMA RemoveAtFacts ==
  ASSUME NEW S, NEW L \in Seq(S), NEW i \in DOMAIN L
  PROVE  LET R == RemoveAt(L, i) IN
         /\ R \in Seq(S)
         /\ Len(R) = Len(L) - 1
         /\ \A j \in DOMAIN R : R[j] = IF j < i THEN L[j] ELSE L[j + 1]
         /\ \A m \in DOMAIN L : m # i => \E j \in DOMAIN R : R[j] = L[m]
<1> DEFINE A == SubSeq(L, 1, i - 1)
           B == SubSeq(L, i + 1, Len(L))
           R == RemoveAt(L, i)
<1>0. Len(L) \in Nat /\ i \in 1 .. Len(L) /\ DOMAIN L = 1 .. Len(L)
  BY LenProperties
<1>1. A \in Seq(S) /\ Len(A) = i - 1 /\ \A j \in 1 .. i - 1 : A[j] = L[j]
  BY <1>0, SubSeqProperties
<1>2. B \in Seq(S) /\ Len(B) = Len(L) - i
      /\ \A j \in 1 .. Len(L) - i : B[j] = L[i + j]
  BY <1>0, SubSeqProperties
<1>3. R = A \o B
  BY DEF RemoveAt
<1>4. R \in Seq(S) /\ Len(R) = Len(L) - 1
  BY <1>0, <1>1, <1>2, <1>3, ConcatProperties
<1>5. DOMAIN R = 1 .. Len(L) - 1
  BY <1>4, LenProperties
<1>6. ASSUME NEW j \in DOMAIN R PROVE R[j] = IF j < i THEN L[j] ELSE L[j + 1]
  <2>1. j \in 1 .. Len(L) - 1
    BY <1>5
  <2>2. CASE j < i
    <3>1. j \in 1 .. Len(A)
      BY <2>1, <2>2, <1>0, <1>1
    <3>2. (A \o B)[j] = A[j]
      BY <3>1, <1>1, <1>2, ConcatProperties
    <3>. QED  BY <3>1, <3>2, <2>2, <1>1, <1>3
  <2>3. CASE ~(j < i)
    <3>1. /\ j \in 1 .. Len(A) + Len(B) /\ ~(j <= Len(A))
          /\ j - Len(A) \in 1 .. Len(L) - i /\ i + (j - Len(A)) = j + 1
      <4>1. /\ Len(A) = i - 1 /\ Len(B) = Len(L) - i /\ Len(L) \in Nat
            /\ i \in 1 .. Len(L)
        BY <1>0, <1>1, <1>2
      <4>. HIDE DEF A, B, R
      <4>. QED  BY <2>1, <2>3, <4>1
    <3>2. (A \o B)[j] = B[j - Len(A)]
      BY <3>1, <1>1, <1>2, ConcatProperties
    <3>3. B[j - Len(A)] = L[j + 1]
      BY <3>1, <1>2
    <3>. QED  BY <3>2, <3>3, <2>3, <1>3
  <2>. QED  BY <2>2, <2>3
<1>7. ASSUME NEW m \in DOMAIN L, m # i PROVE \E j \in DOMAIN R : R[j] = L[m]
  <2>1. CASE m < i
    BY <2>1, <1>0, <1>5, <1>6
  <2>2. CASE m > i
    <3>1. m - 1 \in DOMAIN R /\ ~(m - 1 < i) /\ m - 1 + 1 = m
      BY <2>2, <1>0, <1>5
    <3>. QED  BY <3>1, <1>6
  <2>. QED  BY <1>7, <1>0, <2>1, <2>2
<1>. QED  BY <1>4, <1>6, <1>7

LEMMA NothingYet ==
  /\ NoStock \in StockType /\ NoHdl \in HdlType /\ Closed \in ConnType
  /\ \A k \in Key : Started(k) \in StockType /\ Started(k).obs = {} /\ Started(k).key = k
BY RtspAssumption DEF NoStock, NoHdl, Closed, Started, StockType, HdlType, ConnType

\* A stream of the list keeps its state, no stream gets an observer.
LEMMA LivingStockFacts ==
  ASSUME NEW st \in [Obj -> StockType], NEW L \in Seq(Obj), NEW C
  PROVE  /\ LivingStock(st, L, C) \in [Obj -> StockType]
         /\ \A i \in DOMAIN L : LivingStock(st, L, C)[L[i]] = st[L[i]]
         /\ \A o \in Obj : LivingStock(st, L, C)[o].obs \subseteq st[o].obs
<1>1. \A o \in Obj : LivingStock(st, L, C)[o] \in {st[o], NoStock}
  BY DEF LivingStock
<1>2. NoStock \in StockType /\ NoStock.obs = {}
  BY NothingYet DEF NoStock
<1>3. LivingStock(st, L, C) \in [Obj -> StockType]
  BY <1>2 DEF LivingStock
<1>4. ASSUME NEW i \in DOMAIN L PROVE LivingStock(st, L, C)[L[i]] = st[L[i]]
  <2>1. L[i] \in Obj /\ L[i] \in Range(L)
    BY ElementOfSeq, LenProperties DEF Range
  <2>. QED  BY <2>1 DEF LivingStock
<1>5. ASSUME NEW o \in Obj PROVE LivingStock(st, L, C)[o].obs \subseteq st[o].obs
  <2>1. CASE LivingStock(st, L, C)[o] = st[o]
    BY <2>1
  <2>2. CASE LivingStock(st, L, C)[o] = NoStock
    BY <2>2, <1>2
  <2>. QED  BY <1>1, <2>1, <2>2
<1>. QED  BY <1>3, <1>4, <1>5

\* A handler that is registered or that a connection has keeps its state.
LEMMA LivingHdlFacts ==
  ASSUME NEW hd \in [Handler -> HdlType], NEW st, NEW C
  PROVE  /\ LivingHdl(hd, st, C) \in [Handler -> HdlType]
         /\ \A o \in Obj : \A h \in Handler :
              h \in st[o].obs => LivingHdl(hd, st, C)[h] = hd[h]
         /\ \A s \in Sess : \A t \in Track : C[s].handler[t] \in Handler
              => LivingHdl(hd, st, C)[C[s].handler[t]] = hd[C[s].handler[t]]
<1>1. NoHdl \in HdlType
  BY NothingYet
<1>. QED  BY <1>1 DEF LivingHdl

-----------------------------------------------------------------------------
(* The operations of stream_manager.                                        *)

\* A handler that is registered anywhere, or that a connection has, keeps its
\* state.
HandlersKept ==
  /\ \A p \in Obj : \A h \in Handler : h \in stock'[p].obs => hdl'[h] = hdl[h]
  /\ \A s \in Sess : \A t \in Track : conn'[s].handler[t] \in Handler
       => hdl'[conn'[s].handler[t]] = hdl[conn'[s].handler[t]]

LEMMA AfterCleanup ==
  ASSUME TypeOK, hdl' = LivingHdl(hdl, stock', conn')
  PROVE  hdl' \in [Handler -> HdlType] /\ HandlersKept
BY Types, LivingHdlFacts DEF HandlersKept

LEMMA ListElement ==
  ASSUME TypeOK, NEW i \in DOMAIN list
  PROVE  list[i] \in Obj /\ Listed(list[i])
BY Types, ElementOfSeq, LenProperties DEF Listed

\* The stream at i leaves the list, the others stay as they are.
Leaves(i) ==
  /\ list' = RemoveAt(list, i)
  /\ stock' \in [Obj -> StockType]
  /\ \A j \in DOMAIN list' : list'[j] # list[i] => stock'[list'[j]] = stock[list'[j]]

LEMMA ListShrinks ==
  ASSUME TypeOK, OneStreamPerKey, NEW i \in DOMAIN list, Leaves(i)
  PROVE  /\ list' \in Seq(Obj) /\ stock' \in [Obj -> StockType]
         /\ OneStreamPerKey'
         /\ \A p \in Obj : Listed(p)' => Listed(p) /\ p # list[i] /\ stock'[p] = stock[p]
         /\ \A p \in Obj : Listed(p) => Listed(p)' \/ p = list[i]
<1>0. list \in Seq(Obj) /\ DOMAIN list = 1 .. Len(list) /\ Len(list) \in Nat
  BY Types, LenProperties
<1>1. /\ list' \in Seq(Obj) /\ Len(list') = Len(list) - 1
      /\ \A j \in DOMAIN list' : list'[j] = IF j < i THEN list[j] ELSE list[j + 1]
      /\ \A m \in DOMAIN list : m # i => \E j \in DOMAIN list' : list'[j] = list[m]
  BY <1>0, RemoveAtFacts DEF Leaves
<1>2. DOMAIN list' = 1 .. Len(list) - 1
  BY <1>1, LenProperties
<1>3. /\ stock' \in [Obj -> StockType]
      /\ \A j \in DOMAIN list' : list'[j] # list[i] => stock'[list'[j]] = stock[list'[j]]
  BY DEF Leaves
<1> DEFINE Old(j) == IF j < i THEN j ELSE j + 1
<1>4. \A j \in DOMAIN list' : Old(j) \in DOMAIN list /\ Old(j) # i /\ list'[j] = list[Old(j)]
  BY <1>0, <1>1, <1>2
<1>5. \A j, m \in DOMAIN list' : Old(j) = Old(m) => j = m
  BY <1>0, <1>2
<1>6. \A m \in DOMAIN list : m # i => list[m] # list[i]
  BY DEF OneStreamPerKey
<1> HIDE DEF Old
<1>7. \A j \in DOMAIN list' : /\ list'[j] = list[Old(j)] /\ list'[j] # list[i]
                              /\ list'[j] \in Obj /\ stock'[list'[j]] = stock[list'[j]]
  BY <1>3, <1>4, <1>6, ListElement
<1>8. OneStreamPerKey'
  <2> SUFFICES ASSUME NEW j \in DOMAIN list', NEW m \in DOMAIN list',
                      stock'[list'[j]].key = stock'[list'[m]].key
               PROVE  j = m
    BY DEF OneStreamPerKey
  <2>1. stock[list[Old(j)]].key = stock[list[Old(m)]].key
    BY <1>7
  <2>2. Old(j) = Old(m)
    BY <2>1, <1>4 DEF OneStreamPerKey
  <2>. QED  BY <2>2, <1>5
<1>9. ASSUME NEW p \in Obj, Listed(p)'
      PROVE  Listed(p) /\ p # list[i] /\ stock'[p] = stock[p]
  <2>1. PICK j \in DOMAIN list' : list'[j] = p
    BY <1>9 DEF Listed
  <2>. QED  BY <2>1, <1>4, <1>7 DEF Listed
<1>10. ASSUME NEW p \in Obj, Listed(p), p # list[i] PROVE Listed(p)'
  BY <1>1, <1>10 DEF Listed
<1>. QED  BY <1>1, <1>3, <1>8, <1>9, <1>10

\* del_stream takes a stream from the list only if it has no observers.
LEMMA DelStreamFacts ==
  ASSUME TypeOK, OneStreamPerKey, NEW k, DelStream(k)
  PROVE  /\ list' \in Seq(Obj) /\ stock' \in [Obj -> StockType]
         /\ OneStreamPerKey'
         /\ \A p \in Obj : Listed(p)' => Listed(p) /\ stock'[p] = stock[p]
         /\ \A p \in Obj : Listed(p) => Listed(p)' \/ stock[p].obs = {}
<1>1. CASE \E i \in DOMAIN list :
              /\ Deletable(list[i]) /\ list' = RemoveAt(list, i)
              /\ stock' = LivingStock([stock EXCEPT ![list[i]].on = FALSE], list', conn')
  <2>1. PICK i \in DOMAIN list :
              /\ Deletable(list[i]) /\ list' = RemoveAt(list, i)
              /\ stock' = LivingStock([stock EXCEPT ![list[i]].on = FALSE], list', conn')
    BY <1>1
  <2> DEFINE st == [stock EXCEPT ![list[i]].on = FALSE]
  <2>2. stock \in [Obj -> StockType] /\ list[i] \in Obj
    BY Types, ListElement
  <2>3. st \in [Obj -> StockType] /\ \A p \in Obj : p # list[i] => st[p] = stock[p]
    BY <2>2 DEF StockType
  <2>4. Leaves(i)
    <3>1. stock' = LivingStock(st, list', conn') /\ list' = RemoveAt(list, i)
      BY <2>1
    <3> HIDE DEF st
    <3>2. list' \in Seq(Obj)
      BY <3>1, RemoveAtFacts, Types
    <3>3. /\ stock' \in [Obj -> StockType]
          /\ \A j \in DOMAIN list' : stock'[list'[j]] = st[list'[j]]
      BY <3>1, <3>2, <2>3, LivingStockFacts
    <3>4. \A j \in DOMAIN list' : list'[j] \in Obj
      BY <3>2, ElementOfSeq, LenProperties
    <3>. QED  BY <3>1, <3>3, <3>4, <2>3 DEF Leaves
  <2>5. /\ list' \in Seq(Obj) /\ stock' \in [Obj -> StockType]
        /\ OneStreamPerKey'
        /\ \A p \in Obj : Listed(p)' => Listed(p) /\ p # list[i] /\ stock'[p] = stock[p]
        /\ \A p \in Obj : Listed(p) => Listed(p)' \/ p = list[i]
    BY <2>4, ListShrinks
  <2>6. stock[list[i]].obs = {}
    BY <2>1 DEF Deletable
  <2>. QED  BY <2>5, <2>6
<1>2. CASE list' = list /\ stock' = LivingStock(stock, list', conn')
  <2>1. list \in Seq(Obj) /\ stock \in [Obj -> StockType]
    BY Types
  <2>2. /\ stock' \in [Obj -> StockType]
        /\ \A i \in DOMAIN list : stock'[list[i]] = stock[list[i]]
    BY <1>2, <2>1, LivingStockFacts
  <2>. QED  BY <1>2, <2>1, <2>2 DEF OneStreamPerKey, Listed
<1>. QED  BY <1>1, <1>2 DEF DelStream

\* get_stream finds the stream of the key or makes it: no other stream of the
\* list has the key, and every stream of the list stays as it is.
LEMMA GetStreamFacts ==
  ASSUME TypeOK, OneStreamPerKey, NEW s \in Sess, NEW k \in Key, NEW o \in Obj,
         GetStream(s, k, o)
  PROVE  /\ list' \in Seq(Obj) /\ stock' \in [Obj -> StockType]
         /\ OneStreamPerKey'
         /\ \A p \in Obj : Listed(p) => Listed(p)' /\ stock'[p] = stock[p]
         /\ \A p \in Obj : Listed(p)' => Listed(p) \/ (p = o /\ stock'[p].obs = {})
         /\ \A p \in Obj : Found(k, p) => p = o
<1>0. /\ list \in Seq(Obj) /\ DOMAIN list = 1 .. Len(list) /\ Len(list) \in Nat
      /\ stock \in [Obj -> StockType]
  BY Types, LenProperties
<1>1. CASE Found(k, o) /\ list' = list
  <2>1. Listed(o) /\ stock' = LivingStock(stock, list, [conn EXCEPT ![s].stream = o])
    BY <1>1 DEF GetStream, Found
  <2>2. /\ stock' \in [Obj -> StockType]
        /\ \A i \in DOMAIN list : stock'[list[i]] = stock[list[i]]
    BY <2>1, <1>0, LivingStockFacts
  <2>3. \A p \in Obj : Found(k, p) => p = o
    BY <1>1 DEF Found, Listed, OneStreamPerKey
  <2>. QED  BY <1>0, <1>1, <2>2, <2>3 DEF OneStreamPerKey, Listed
<1>2. CASE (\A p \in Obj : ~Found(k, p)) /\ ~Held(o) /\ list' = Append(list, o)
  <2> DEFINE st == [stock EXCEPT ![o] = Started(k)]
             n == Len(list) + 1
  <2>1. ~Listed(o) /\ stock' = LivingStock(st, list', [conn EXCEPT ![s].stream = o])
    BY <1>2 DEF GetStream, Held
  <2>2. /\ st \in [Obj -> StockType] /\ st[o].obs = {} /\ st[o].key = k
        /\ \A p \in Obj : p # o => st[p] = stock[p]
    BY <1>0, NothingYet
  <2>3. /\ list' \in Seq(Obj) /\ Len(list') = n /\ list'[n] = o
        /\ \A i \in 1 .. Len(list) : list'[i] = list[i]
    BY <1>0, <1>2, AppendProperties
  <2>4. /\ n \in DOMAIN list'
        /\ \A i \in DOMAIN list' : i # n => i \in DOMAIN list
    BY <1>0, <2>3, LenProperties
  <2>12. ASSUME NEW i \in DOMAIN list PROVE i \in DOMAIN list' /\ i # n
    BY <1>0, <2>3, LenProperties
  <2> HIDE DEF st, n
  <2>5. /\ stock' \in [Obj -> StockType]
        /\ \A i \in DOMAIN list' : stock'[list'[i]] = st[list'[i]]
    BY <2>1, <2>2, <2>3, LivingStockFacts
  <2>6. \A i \in DOMAIN list : /\ list'[i] = list[i] /\ list[i] \in Obj /\ list[i] # o
                              /\ stock'[list[i]] = stock[list[i]]
    <3> SUFFICES ASSUME NEW i \in DOMAIN list
                 PROVE  /\ list'[i] = list[i] /\ list[i] \in Obj /\ list[i] # o
                        /\ stock'[list[i]] = stock[list[i]]
      OBVIOUS
    <3>1. list'[i] = list[i] /\ i \in DOMAIN list'
      <4>1. i \in 1 .. Len(list)
        BY <1>0
      <4>2. list'[i] = list[i]
        BY <4>1, <2>3
      <4>3. i \in DOMAIN list'
        BY <2>12
      <4>. QED  BY <4>2, <4>3
    <3>2. list[i] \in Obj /\ list[i] # o
      BY <2>1, ListElement
    <3>. QED  BY <3>1, <3>2, <2>2, <2>5
  <2>7. stock'[o].key = k /\ stock'[o].obs = {}
    BY <2>2, <2>3, <2>4, <2>5
  <2>8. \A i \in DOMAIN list : stock[list[i]].key # k
    BY <1>2, ListElement DEF Found
  <2>9. OneStreamPerKey'
    BY <2>3, <2>4, <2>6, <2>7, <2>8 DEF OneStreamPerKey
  <2>10. ASSUME NEW p \in Obj, Listed(p) PROVE Listed(p)' /\ stock'[p] = stock[p]
    <3>1. PICK i \in DOMAIN list : list[i] = p
      BY <2>10 DEF Listed
    <3>2. i \in DOMAIN list' /\ list'[i] = p /\ stock'[p] = stock[p]
      <4>1. i \in DOMAIN list'
        BY <2>12
      <4>2. list'[i] = p /\ stock'[p] = stock[p]
        BY <3>1, <2>6
      <4>. QED  BY <4>1, <4>2
    <3>. QED  BY <3>2 DEF Listed
  <2>11. ASSUME NEW p \in Obj, Listed(p)' PROVE Listed(p) \/ p = o
    BY <2>11, <2>3, <2>4, <2>6 DEF Listed
  <2>. QED  BY <1>2, <2>3, <2>5, <2>7, <2>9, <2>10, <2>11
<1>. QED  BY <1>1, <1>2 DEF GetStream

-----------------------------------------------------------------------------
(* What the steps leave alone.                                              *)

\* No connection's stream, handlers or state changes.
ConnsSettled ==
  \A s \in Sess : /\ conn'[s].stream = conn[s].stream
                 /\ conn'[s].handler = conn[s].handler
                 /\ conn'[s].state = conn[s].state

LEMMA ServerUntouched ==
  ASSUME StreamInv, srv' = srv, ConnsSettled
  PROVE  ServerKnows' /\ WithoutStream'
<1>1. ServerKnows'
  BY DEF StreamInv, ServerKnows, ConnsSettled, Mine
<1>2. WithoutStream'
  BY DEF StreamInv, WithoutStream, ConnsSettled
<1>. QED  BY <1>1, <1>2

\* The handlers' sessions stay: each connection's handlers are still its own.
LEMMA OwnersUntouched ==
  ASSUME StreamInv, \A s \in Sess : conn'[s].handler = conn[s].handler,
         \A s \in Sess : \A t \in Track : conn[s].handler[t] \in Handler
           => hdl'[conn[s].handler[t]].owner = hdl[conn[s].handler[t]].owner
  PROVE  HandlersOwned'
<1>1. \A s \in Sess : \A t \in Track : conn[s].handler[t] \in Handler \cup {NoHandler}
  BY Types DEF StreamInv, ConnType
<1>. QED  BY <1>1 DEF StreamInv, HandlersOwned

LEMMA Parts ==
  ASSUME StreamInv
  PROVE  /\ list \in Seq(Obj)
         /\ stock \in [Obj -> StockType]
         /\ hdl \in [Handler -> HdlType]
         /\ conn \in [Sess -> ConnType]
         /\ srv \in [pc : {"select", "register", "stop_play", "unregister",
                          "del_stream", "gone"},
                    sess : Sess \cup {NoSess}, track : {"video", "audio"},
                    close : BOOLEAN]
         /\ cap \in [obj : Obj \cup {NoObj}, todo : SUBSET Handler,
                    call : Handler \cup {NoHandler}]
BY Types DEF StreamInv

LEMMA InitStreamInv == Init => StreamInv
<1> SUFFICES ASSUME Init PROVE StreamInv
  OBVIOUS
<1>1. TypeOK
  <2>1. list \in Seq(Obj) /\ stock \in [Obj -> StockType] /\ hdl \in [Handler -> HdlType]
        /\ conn \in [Sess -> ConnType]
    BY NothingYet DEF Init
  <2>. QED  BY <2>1, Types DEF Init, IdleSrv, IdleCap
<1>2. ServerKnows /\ WithoutStream /\ OneStreamPerKey /\ HandlersOwned /\ PostKeepsStream
  BY DEF Init, ServerKnows, WithoutStream, OneStreamPerKey, HandlersOwned, PostKeepsStream,
         Closed, IdleSrv, IdleCap
<1>. QED  BY <1>1, <1>2 DEF StreamInv

-----------------------------------------------------------------------------
(* The capture thread and the checker thread.                               *)

LEMMA FrameStep ==
  ASSUME StreamInv, NEW k \in Key, Frame(k)
  PROVE  StreamInv'
<1>1. PICK o \in Obj : /\ Listed(o)
                      /\ stock' = [stock EXCEPT ![o].age = 0]
                      /\ cap' = IF stock[o].on
                                THEN [obj |-> o, todo |-> stock[o].obs, call |-> NoHandler]
                                ELSE cap
  BY DEF Frame, Found
<1>2. cap.obj = NoObj /\ UNCHANGED <<list, hdl, conn, srv>>
  BY DEF Frame, StreamMuFree
<1>3. /\ stock' \in [Obj -> StockType]
      /\ \A p \in Obj : stock'[p].obs = stock[p].obs /\ stock'[p].key = stock[p].key
  BY <1>1, Parts, RtspAssumption DEF StockType
<1>4. TypeOK'
  <2>1. cap' \in [obj : Obj \cup {NoObj}, todo : SUBSET Handler,
                 call : Handler \cup {NoHandler}]
    BY <1>1, Parts DEF StockType
  <2>. QED  BY <2>1, <1>2, <1>3, Parts, TypesNext
<1>5. ServerKnows' /\ WithoutStream'
  BY <1>2, ServerUntouched DEF ConnsSettled
<1>6. OneStreamPerKey'
  BY <1>2, <1>3, ListElement DEF StreamInv, OneStreamPerKey
<1>7. HandlersOwned'
  BY <1>2, OwnersUntouched
<1>8. PostKeepsStream'
  <2>1. Listed(o)' /\ o # NoObj
    BY <1>1, <1>2, RtspAssumption DEF Listed
  <2>. QED  BY <2>1, <1>1, <1>2, <1>3 DEF StreamInv, PostKeepsStream
<1>. QED  BY <1>4, <1>5, <1>6, <1>7, <1>8 DEF StreamInv

LEMMA DeliverStep ==
  ASSUME StreamInv, NEW h \in Handler, Deliver(h)
  PROVE  StreamInv'
<1>1. /\ h \in cap.todo /\ UNCHANGED <<list, stock, hdl, conn, srv>>
      /\ cap' = [cap EXCEPT !.todo = @ \ {h}, !.call = IF hdl[h].on THEN h ELSE NoHandler]
  BY DEF Deliver
<1>2. /\ cap'.obj = cap.obj /\ cap'.todo = cap.todo \ {h}
      /\ cap'.call \in {h, NoHandler}
      /\ cap' \in [obj : Obj \cup {NoObj}, todo : SUBSET Handler,
                  call : Handler \cup {NoHandler}]
  BY <1>1, Parts
<1>3. TypeOK'
  BY <1>1, <1>2, Parts, TypesNext
<1>4. ServerKnows' /\ WithoutStream'
  BY <1>1, ServerUntouched DEF ConnsSettled
<1>5. OneStreamPerKey'
  BY <1>1 DEF StreamInv, OneStreamPerKey
<1>6. HandlersOwned'
  BY <1>1, OwnersUntouched
<1>7. PostKeepsStream'
  BY <1>1, <1>2 DEF StreamInv, PostKeepsStream, Listed
<1>. QED  BY <1>3, <1>4, <1>5, <1>6, <1>7 DEF StreamInv

LEMMA SendFrame ==
  ASSUME StreamInv, Send
  PROVE  /\ UNCHANGED <<list, stock, srv>>
         /\ cap' = [cap EXCEPT !.call = NoHandler]
         /\ hdl' \in [Handler -> HdlType] /\ conn' \in [Sess -> ConnType]
         /\ \A h \in Handler : hdl'[h].owner = hdl[h].owner
         /\ ConnsSettled
<1>1. UNCHANGED <<list, stock, srv>> /\ cap' = [cap EXCEPT !.call = NoHandler]
  BY DEF Send
<1>2. CASE UNCHANGED <<hdl, conn>>
  BY <1>1, <1>2, Parts DEF ConnsSettled
<1>3. CASE /\ hdl' = [hdl EXCEPT ![cap.call].err = TRUE]
           /\ conn' = [s \in Sess |-> IF s = hdl[cap.call].owner
                                     THEN [conn[s] EXCEPT !.shut = TRUE] ELSE conn[s]]
  <2>1. /\ hdl' \in [Handler -> HdlType]
        /\ \A h \in Handler : hdl'[h].owner = hdl[h].owner
    BY <1>3, Parts DEF HdlType
  <2>2. conn' \in [Sess -> ConnType] /\ ConnsSettled
    <3>1. \A s \in Sess : conn[s] \in ConnType
      BY Parts
    <3>2. ASSUME NEW c \in ConnType
          PROVE  LET d == [c EXCEPT !.shut = TRUE] IN
                 /\ d \in ConnType /\ d.stream = c.stream /\ d.handler = c.handler
                 /\ d.state = c.state
      BY DEF ConnType
    <3>3. \A s \in Sess : conn'[s] \in {conn[s], [conn[s] EXCEPT !.shut = TRUE]}
      BY <1>3
    <3>4. conn' = [s \in Sess |-> conn'[s]]
      BY <1>3
    <3>. QED  BY <3>1, <3>2, <3>3, <3>4 DEF ConnsSettled
  <2>. QED  BY <1>1, <2>1, <2>2
<1>. QED  BY <1>2, <1>3 DEF Send

LEMMA SendStep == ASSUME StreamInv, Send PROVE StreamInv'
<1>1. /\ UNCHANGED <<list, stock, srv>>
      /\ cap' = [cap EXCEPT !.call = NoHandler]
      /\ hdl' \in [Handler -> HdlType] /\ conn' \in [Sess -> ConnType]
      /\ \A h \in Handler : hdl'[h].owner = hdl[h].owner
      /\ ConnsSettled
  BY SendFrame
<1>2. /\ cap'.obj = cap.obj /\ cap'.todo = cap.todo /\ cap'.call = NoHandler
      /\ cap' \in [obj : Obj \cup {NoObj}, todo : SUBSET Handler,
                  call : Handler \cup {NoHandler}]
  BY <1>1, Parts
<1>3. TypeOK'
  BY <1>1, <1>2, Parts, TypesNext
<1>4. ServerKnows' /\ WithoutStream'
  BY <1>1, ServerUntouched
<1>5. OneStreamPerKey'
  BY <1>1 DEF StreamInv, OneStreamPerKey
<1>6. HandlersOwned'
  BY <1>1, OwnersUntouched DEF ConnsSettled
<1>7. PostKeepsStream'
  BY <1>1, <1>2 DEF StreamInv, PostKeepsStream, Listed
<1>. QED  BY <1>3, <1>4, <1>5, <1>6, <1>7 DEF StreamInv

LEMMA EndPostStep == ASSUME StreamInv, EndPost PROVE StreamInv'
<1>1. cap' = IdleCap /\ UNCHANGED <<list, stock, hdl, conn, srv>>
  BY DEF EndPost
<1>2. TypeOK'
  BY <1>1, Parts, TypesNext DEF IdleCap
<1>3. ServerKnows' /\ WithoutStream'
  BY <1>1, ServerUntouched DEF ConnsSettled
<1>4. OneStreamPerKey'
  BY <1>1 DEF StreamInv, OneStreamPerKey
<1>5. HandlersOwned'
  BY <1>1, OwnersUntouched
<1>6. PostKeepsStream'
  BY <1>1 DEF PostKeepsStream, IdleCap
<1>. QED  BY <1>2, <1>3, <1>4, <1>5, <1>6 DEF StreamInv

LEMMA TickStep == ASSUME StreamInv, Tick PROVE StreamInv'
<1>1. /\ UNCHANGED <<list, hdl, conn, srv, cap>>
      /\ stock' = [o \in Obj |-> IF Listed(o) /\ stock[o].age <= DeadAfter
                                THEN [stock[o] EXCEPT !.age = @ + 1] ELSE stock[o]]
  BY DEF Tick
<1>2. /\ stock' \in [Obj -> StockType]
      /\ \A p \in Obj : stock'[p].obs = stock[p].obs /\ stock'[p].key = stock[p].key
  <2>1. ASSUME NEW r \in StockType, r.age <= DeadAfter
        PROVE  LET q == [r EXCEPT !.age = @ + 1] IN
               q \in StockType /\ q.obs = r.obs /\ q.key = r.key
    <3>1. r.age + 1 \in 0 .. DeadAfter + 1
      BY <2>1, RtspAssumption DEF StockType
    <3>. QED  BY <3>1 DEF StockType
  <2>2. \A p \in Obj : /\ stock[p] \in StockType
                      /\ \/ stock'[p] = stock[p]
                         \/ /\ stock[p].age <= DeadAfter
                            /\ stock'[p] = [stock[p] EXCEPT !.age = @ + 1]
    BY <1>1, Parts
  <2>3. stock' = [p \in Obj |-> stock'[p]]
    BY <1>1
  <2>. QED  BY <2>1, <2>2, <2>3
<1>3. TypeOK'
  BY <1>1, <1>2, Parts, TypesNext
<1>4. ServerKnows' /\ WithoutStream'
  BY <1>1, ServerUntouched DEF ConnsSettled
<1>5. OneStreamPerKey'
  BY <1>1, <1>2, ListElement DEF StreamInv, OneStreamPerKey
<1>6. HandlersOwned'
  BY <1>1, OwnersUntouched
<1>7. PostKeepsStream'
  BY <1>1, <1>2, Parts DEF StreamInv, PostKeepsStream, Listed
<1>. QED  BY <1>3, <1>4, <1>5, <1>6, <1>7 DEF StreamInv

\* The checker takes a stream from the list only if it is dead.
LEMMA CheckFacts ==
  ASSUME StreamInv, Check
  PROVE  /\ list' \in Seq(Obj) /\ stock' \in [Obj -> StockType]
         /\ OneStreamPerKey'
         /\ \A p \in Obj : Listed(p)' => Listed(p) /\ stock'[p] = stock[p]
         /\ \A p \in Obj : Listed(p) => Listed(p)' \/ Dead(p)
<1>1. PICK i \in DOMAIN list : Dead(list[i]) /\ list' = RemoveAt(list, i)
  BY DEF Check
<1>2. stock' = LivingStock(stock, list', conn)
  BY DEF Check
<1>3. list' \in Seq(Obj)
  BY <1>1, RemoveAtFacts, Parts
<1>4. Leaves(i)
  <2>1. /\ stock' \in [Obj -> StockType]
        /\ \A j \in DOMAIN list' : stock'[list'[j]] = stock[list'[j]]
    BY <1>2, <1>3, Parts, LivingStockFacts
  <2>. QED  BY <1>1, <2>1 DEF Leaves
<1>5. TypeOK /\ OneStreamPerKey
  BY DEF StreamInv
<1>6. /\ list' \in Seq(Obj) /\ stock' \in [Obj -> StockType]
      /\ OneStreamPerKey'
      /\ \A p \in Obj : Listed(p)' => Listed(p) /\ p # list[i] /\ stock'[p] = stock[p]
      /\ \A p \in Obj : Listed(p) => Listed(p)' \/ p = list[i]
  BY <1>4, <1>5, ListShrinks
<1>. QED  BY <1>1, <1>6

LEMMA CheckStep == ASSUME StreamInv, Check PROVE StreamInv'
<1>1. /\ UNCHANGED <<conn, srv, cap>> /\ cap.obj = NoObj
      /\ hdl' = LivingHdl(hdl, stock', conn')
  BY DEF Check, StreamMuFree
<1>2. list' \in Seq(Obj) /\ stock' \in [Obj -> StockType] /\ OneStreamPerKey'
  BY CheckFacts
<1>3. hdl' \in [Handler -> HdlType] /\ HandlersKept
  BY <1>1, AfterCleanup DEF StreamInv
<1>4. TypeOK'
  BY <1>1, <1>2, <1>3, Parts, TypesNext
<1>5. ServerKnows' /\ WithoutStream'
  BY <1>1, ServerUntouched DEF ConnsSettled
<1>6. HandlersOwned'
  BY <1>1, <1>3, OwnersUntouched DEF HandlersKept
<1>7. PostKeepsStream'
  BY <1>1 DEF StreamInv, PostKeepsStream
<1>. QED  BY <1>2, <1>4, <1>5, <1>6, <1>7 DEF StreamInv

-----------------------------------------------------------------------------
(* The server thread: requests.                                             *)

CapType == [obj : Obj \cup {NoObj}, todo : SUBSET Handler, call : Handler \cup {NoHandler}]
SrvType == [pc : {"select", "register", "stop_play", "unregister", "del_stream", "gone"},
            sess : Sess \cup {NoSess}, track : {"video", "audio"}, close : BOOLEAN]

LEMMA ConnFields ==
  ASSUME StreamInv, NEW s \in Sess
  PROVE  /\ conn[s] \in ConnType
         /\ conn[s].stream \in Obj \cup {NoObj}
         /\ conn[s].handler \in [Track -> Handler \cup {NoHandler}]
         /\ \A t \in Track : conn[s].handler[t] \in Handler \cup {NoHandler}
         /\ conn[s].shut \in BOOLEAN
BY Parts DEF ConnType

LEMMA OneConnChanges ==
  ASSUME StreamInv, NEW s \in Sess, NEW d \in ConnType, conn' = [conn EXCEPT ![s] = d]
  PROVE  /\ conn' \in [Sess -> ConnType] /\ conn'[s] = d
         /\ \A r \in Sess : r # s => conn'[r] = conn[r]
BY Parts

LEMMA AcceptStep ==
  ASSUME StreamInv, NEW s \in Sess, Accept(s)
  PROVE  StreamInv'
<1>1. /\ conn' = [conn EXCEPT ![s].open = TRUE]
      /\ UNCHANGED <<list, stock, hdl, srv, cap>>
  BY DEF Accept
<1>2. conn' \in [Sess -> ConnType] /\ ConnsSettled
  BY <1>1, Parts DEF ConnType, ConnsSettled
<1>3. TypeOK'
  BY <1>1, <1>2, Parts, TypesNext
<1>4. ServerKnows' /\ WithoutStream'
  BY <1>1, <1>2, ServerUntouched
<1>5. OneStreamPerKey'
  BY <1>1 DEF StreamInv, OneStreamPerKey
<1>6. HandlersOwned'
  BY <1>1, <1>2, OwnersUntouched DEF ConnsSettled
<1>7. PostKeepsStream'
  BY <1>1 DEF StreamInv, PostKeepsStream, Listed
<1>. QED  BY <1>3, <1>4, <1>5, <1>6, <1>7 DEF StreamInv

\* DESCRIBE and SETUP replace m_stream and leave the handlers alone.
LEMMA StreamFound ==
  ASSUME StreamInv, NEW s \in Sess, NEW k \in Key, NEW o \in Obj, GetStream(s, k, o),
         StreamMuFree, UNCHANGED cap, conn' \in [Sess -> ConnType], srv' \in SrvType,
         \A r \in Sess : conn'[r].handler = conn[r].handler
  PROVE  TypeOK' /\ OneStreamPerKey' /\ HandlersOwned' /\ PostKeepsStream'
         /\ \A p \in Obj : \A h \in Handler : h \in stock'[p].obs => hdl'[h] = hdl[h]
<1>1. TypeOK /\ OneStreamPerKey
  BY DEF StreamInv
<1>2. list' \in Seq(Obj) /\ stock' \in [Obj -> StockType] /\ OneStreamPerKey'
  BY <1>1, GetStreamFacts
<1>3. hdl' = LivingHdl(hdl, stock', conn)
  BY DEF GetStream
<1>4. /\ hdl' \in [Handler -> HdlType]
      /\ \A p \in Obj : \A h \in Handler : h \in stock'[p].obs => hdl'[h] = hdl[h]
      /\ \A r \in Sess : \A t \in Track : conn[r].handler[t] \in Handler
           => hdl'[conn[r].handler[t]] = hdl[conn[r].handler[t]]
  BY <1>3, Parts, LivingHdlFacts
<1>5. TypeOK'
  BY <1>2, <1>4, Parts, TypesNext DEF SrvType
<1>6. HandlersOwned'
  BY <1>4, OwnersUntouched
<1>7. PostKeepsStream'
  BY DEF StreamInv, PostKeepsStream, StreamMuFree
<1>. QED  BY <1>2, <1>4, <1>5, <1>6, <1>7

DescribesConn(s, o) ==
  \/ conn' = [conn EXCEPT ![s].stream = o]
  \/ \E c \in SUBSET Track :
       conn' = [conn EXCEPT ![s].stream = o, ![s].codec = c,
                  ![s].state = IF "video" \in c THEN "DESCRIBED" ELSE @]

LEMMA DescribeConn ==
  ASSUME StreamInv, NEW s \in Sess, NEW o \in Obj, DescribesConn(s, o)
  PROVE  /\ conn' \in [Sess -> ConnType]
         /\ \A r \in Sess : conn'[r].handler = conn[r].handler
         /\ \A r \in Sess : r # s => conn'[r] = conn[r]
         /\ conn'[s].stream = o
<1>1. PICK d \in ConnType : /\ conn' = [conn EXCEPT ![s] = d]
                           /\ d.handler = conn[s].handler /\ d.stream = o
  <2>1. CASE conn' = [conn EXCEPT ![s].stream = o]
    <3> DEFINE d == [conn[s] EXCEPT !.stream = o]
    <3>1. d \in ConnType /\ d.handler = conn[s].handler /\ d.stream = o
      BY ConnFields DEF ConnType
    <3>2. conn' = [conn EXCEPT ![s] = d]
      BY <2>1
    <3>. QED  BY <3>1, <3>2
  <2>2. CASE \E c \in SUBSET Track :
               conn' = [conn EXCEPT ![s].stream = o, ![s].codec = c,
                          ![s].state = IF "video" \in c THEN "DESCRIBED" ELSE @]
    <3> PICK c \in SUBSET Track :
               conn' = [conn EXCEPT ![s].stream = o, ![s].codec = c,
                          ![s].state = IF "video" \in c THEN "DESCRIBED" ELSE @]
      BY <2>2
    <3> DEFINE d == [conn[s] EXCEPT !.stream = o, !.codec = c,
                                    !.state = IF "video" \in c THEN "DESCRIBED" ELSE @]
    <3>1. d \in ConnType /\ d.handler = conn[s].handler /\ d.stream = o
      BY ConnFields DEF ConnType
    <3>2. conn' = [conn EXCEPT ![s] = d]
      BY Parts
    <3>. QED  BY <3>1, <3>2
  <2>. QED  BY <2>1, <2>2 DEF DescribesConn
<1>. QED  BY <1>1, OneConnChanges

LEMMA DescribeStep ==
  ASSUME StreamInv, NEW s \in Sess, NEW k \in Key, Describe(s, k)
  PROVE  StreamInv'
<1>1. PICK o \in Obj : GetStream(s, k, o) /\ DescribesConn(s, o)
  BY DEF Describe, DescribesConn
<1>2. AtSelect /\ StreamMuFree /\ UNCHANGED <<srv, cap>>
  BY DEF Describe
<1>3. /\ conn' \in [Sess -> ConnType]
      /\ \A r \in Sess : conn'[r].handler = conn[r].handler
      /\ \A r \in Sess : r # s => conn'[r] = conn[r]
      /\ conn'[s].stream = o
  BY <1>1, DescribeConn
<1>4. TypeOK' /\ OneStreamPerKey' /\ HandlersOwned' /\ PostKeepsStream'
  <2>1. srv' \in SrvType
    BY <1>2, Parts DEF SrvType
  <2>. QED  BY <2>1, <1>1, <1>2, <1>3, StreamFound
<1>5. ServerKnows'
  BY <1>2 DEF AtSelect, ServerKnows
<1>6. WithoutStream'
  <2>1. o # NoObj
    BY RtspAssumption
  <2>2. UNCHANGED srv /\ \A r \in Sess : r # s => conn'[r] = conn[r]
    BY <1>2, <1>3
  <2>. QED  BY <2>1, <2>2, <1>3 DEF StreamInv, WithoutStream
<1>. QED  BY <1>4, <1>5, <1>6 DEF StreamInv

LEMMA SetupFrame ==
  ASSUME StreamInv, NEW s \in Sess, NEW k \in Key, NEW t \in Track, Setup(s, k, t)
  PROVE  /\ AtSelect /\ StreamMuFree /\ MaySetup(s, k, t) /\ UNCHANGED cap
         /\ conn[s].state # "PLAYING"
         /\ srv'.pc = "register" /\ srv'.sess = s /\ srv'.track = t /\ ~srv'.close
         /\ srv' \in SrvType
         /\ \E o \in Obj : GetStream(s, k, o) /\ conn' = [conn EXCEPT ![s].stream = o]
BY RtspAssumption DEF Setup, IdleSrv, SrvType

LEMMA SetupStep ==
  ASSUME StreamInv, NEW s \in Sess, NEW k \in Key, NEW t \in Track, Setup(s, k, t)
  PROVE  StreamInv'
<1>1. PICK o \in Obj : GetStream(s, k, o) /\ conn' = [conn EXCEPT ![s].stream = o]
  BY SetupFrame
<1>2. /\ AtSelect /\ StreamMuFree /\ UNCHANGED cap /\ srv' \in SrvType
      /\ srv'.pc = "register" /\ srv'.sess = s /\ srv'.track = t
  BY SetupFrame
<1>3. /\ conn' \in [Sess -> ConnType]
      /\ \A r \in Sess : conn'[r].handler = conn[r].handler
      /\ \A r \in Sess : r # s => conn'[r] = conn[r]
      /\ conn'[s].stream = o
  BY <1>1, Parts DEF ConnType
<1>4. TypeOK' /\ OneStreamPerKey' /\ HandlersOwned' /\ PostKeepsStream'
  BY <1>1, <1>2, <1>3, StreamFound
<1>5. o # NoObj
  BY RtspAssumption
<1>6. ServerKnows'
  BY <1>2, <1>3, <1>5 DEF ServerKnows
<1>7. WithoutStream'
  BY <1>2, <1>3, <1>5 DEF StreamInv, WithoutStream, AtSelect
<1>. QED  BY <1>4, <1>6, <1>7 DEF StreamInv

LEMMA PlayStep ==
  ASSUME StreamInv, NEW s \in Sess, Play(s)
  PROVE  StreamInv'
<1>1. /\ AtSelect /\ conn[s].state = "SETUPED"
      /\ conn' = [conn EXCEPT ![s].state = "PLAYING"]
      /\ UNCHANGED <<list, stock, srv, cap>>
      /\ hdl' = [h \in Handler |-> IF h \in Mine(s) THEN [hdl[h] EXCEPT !.on = TRUE]
                                  ELSE hdl[h]]
  BY DEF Play
<1>2. /\ conn' \in [Sess -> ConnType]
      /\ \A r \in Sess : conn'[r].handler = conn[r].handler /\ conn'[r].stream = conn[r].stream
      /\ \A r \in Sess : r # s => conn'[r] = conn[r]
  BY <1>1, Parts DEF ConnType
<1>3. hdl' \in [Handler -> HdlType] /\ \A h \in Handler : hdl'[h].owner = hdl[h].owner
  BY <1>1, Parts DEF HdlType
<1>4. TypeOK'
  BY <1>1, <1>2, <1>3, Parts, TypesNext
<1>5. ServerKnows'
  BY <1>1 DEF AtSelect, ServerKnows
<1>6. WithoutStream'
  BY <1>1, <1>2 DEF StreamInv, WithoutStream, AtSelect
<1>7. OneStreamPerKey'
  BY <1>1 DEF StreamInv, OneStreamPerKey
<1>8. HandlersOwned'
  BY <1>2, <1>3, OwnersUntouched
<1>9. PostKeepsStream'
  BY <1>1 DEF StreamInv, PostKeepsStream, Listed
<1>. QED  BY <1>4, <1>5, <1>6, <1>7, <1>8, <1>9 DEF StreamInv

LEMMA TeardownConn ==
  ASSUME StreamInv, NEW s \in Sess, Teardown(s)
  PROVE  /\ conn' \in [Sess -> ConnType]
         /\ \A r \in Sess : /\ conn'[r].handler = conn[r].handler
                            /\ conn'[r].stream = conn[r].stream
                            /\ conn'[r].state \in {conn[r].state, "IDLE"}
<1>1. PICK d \in ConnType : /\ conn' = [conn EXCEPT ![s] = d]
                           /\ d.handler = conn[s].handler /\ d.stream = conn[s].stream
                           /\ d.state \in {conn[s].state, "IDLE"}
  <2> DEFINE d1 == [conn[s] EXCEPT !.shut = TRUE]
             d2 == [conn[s] EXCEPT !.state = "IDLE", !.shut = TRUE]
  <2>1. /\ d1 \in ConnType /\ d1.handler = conn[s].handler /\ d1.stream = conn[s].stream
        /\ d1.state = conn[s].state
    BY ConnFields DEF ConnType
  <2>2. /\ d2 \in ConnType /\ d2.handler = conn[s].handler /\ d2.stream = conn[s].stream
        /\ d2.state = "IDLE"
    BY ConnFields DEF ConnType
  <2>3. conn' = [conn EXCEPT ![s] = d1] \/ conn' = [conn EXCEPT ![s] = d2]
    BY Parts DEF Teardown
  <2> HIDE DEF d1, d2
  <2>. QED  BY <2>1, <2>2, <2>3
<1>2. conn' \in [Sess -> ConnType] /\ conn'[s] = d /\ \A r \in Sess : r # s => conn'[r] = conn[r]
  BY <1>1, OneConnChanges
<1>. QED  BY <1>1, <1>2

LEMMA TeardownStep ==
  ASSUME StreamInv, NEW s \in Sess, Teardown(s)
  PROVE  StreamInv'
<1>1. /\ AtSelect /\ UNCHANGED <<list, stock, hdl, cap>>
      /\ \/ /\ conn[s].state = "PLAYING"
            /\ conn' = [conn EXCEPT ![s].state = "IDLE", ![s].shut = TRUE]
            /\ srv' = [IdleSrv EXCEPT !.pc = "stop_play", !.sess = s]
         \/ conn' = [conn EXCEPT ![s].shut = TRUE] /\ UNCHANGED srv
  BY DEF Teardown
<1>2. /\ conn' \in [Sess -> ConnType]
      /\ \A r \in Sess : /\ conn'[r].handler = conn[r].handler
                         /\ conn'[r].stream = conn[r].stream
                         /\ conn'[r].state \in {conn[r].state, "IDLE"}
  BY TeardownConn
<1>3. srv' \in SrvType
  BY <1>1, Parts DEF SrvType, IdleSrv
<1>4. TypeOK'
  BY <1>1, <1>2, <1>3, Parts, TypesNext DEF SrvType
<1>5. ServerKnows'
  <2>1. CASE UNCHANGED srv
    BY <2>1, <1>1 DEF AtSelect, ServerKnows
  <2>2. CASE /\ conn[s].state = "PLAYING"
             /\ conn' = [conn EXCEPT ![s].state = "IDLE", ![s].shut = TRUE]
             /\ srv' = [IdleSrv EXCEPT !.pc = "stop_play", !.sess = s]
    <3>1. srv'.pc = "stop_play" /\ srv'.sess = s
      BY <2>2 DEF IdleSrv
    <3>2. conn'[s].state = "IDLE"
      BY <2>2, Parts DEF ConnType
    <3>3. conn[s].stream # NoObj
      BY <2>2, <1>1 DEF StreamInv, WithoutStream, AtSelect
    <3>. QED  BY <3>1, <3>2, <3>3, <1>2 DEF ServerKnows
  <2>. QED  BY <1>1, <2>1, <2>2
<1>6. WithoutStream'
  BY <1>1, <1>2 DEF StreamInv, WithoutStream, AtSelect
<1>7. OneStreamPerKey'
  BY <1>1 DEF StreamInv, OneStreamPerKey
<1>8. HandlersOwned'
  BY <1>1, <1>2, OwnersUntouched
<1>9. PostKeepsStream'
  BY <1>1 DEF StreamInv, PostKeepsStream, Listed
<1>. QED  BY <1>4, <1>5, <1>6, <1>7, <1>8, <1>9 DEF StreamInv

-----------------------------------------------------------------------------
(* The server thread: the second half of SETUP, stop_play, the destructor.  *)

LEMMA SrvFields ==
  ASSUME StreamInv
  PROVE  /\ srv.pc \in {"select", "register", "stop_play", "unregister", "del_stream", "gone"}
         /\ srv.sess \in Sess \cup {NoSess} /\ srv.track \in {"video", "audio"}
         /\ srv.close \in BOOLEAN
         /\ srv.pc # "select" => srv.sess \in Sess /\ conn[srv.sess] \in ConnType
BY Parts DEF StreamInv, ServerKnows

LEMMA CloseSessionStep ==
  ASSUME StreamInv, NEW s \in Sess, CloseSession(s)
  PROVE  StreamInv'
<1>1. /\ AtSelect /\ UNCHANGED <<list, stock, hdl, conn, cap>>
      /\ srv' = [IdleSrv EXCEPT !.pc = IF conn[s].stream # NoObj THEN "stop_play" ELSE "gone",
                               !.sess = s, !.close = TRUE]
  BY DEF CloseSession
<1>2. /\ srv' \in SrvType /\ srv'.sess = s /\ srv'.close
      /\ srv'.pc = IF conn[s].stream # NoObj THEN "stop_play" ELSE "gone"
  BY <1>1 DEF SrvType, IdleSrv
<1>3. TypeOK'
  BY <1>1, <1>2, Parts, TypesNext DEF SrvType
<1>4. ServerKnows'
  BY <1>1, <1>2 DEF ServerKnows
<1>5. WithoutStream'
  BY <1>1 DEF StreamInv, WithoutStream, AtSelect
<1>6. OneStreamPerKey'
  BY <1>1 DEF StreamInv, OneStreamPerKey
<1>7. HandlersOwned'
  BY <1>1, OwnersUntouched
<1>8. PostKeepsStream'
  BY <1>1 DEF StreamInv, PostKeepsStream, Listed
<1>. QED  BY <1>3, <1>4, <1>5, <1>6, <1>7, <1>8 DEF StreamInv

LEMMA StopHandlerFrame ==
  ASSUME StreamInv, StopHandler
  PROVE  /\ srv.pc = "stop_play" /\ UNCHANGED <<list, stock, conn, cap>>
         /\ srv' \in SrvType /\ srv'.sess = srv.sess /\ srv'.close = srv.close
         /\ \/ /\ srv'.pc = "unregister" /\ srv'.track \in Track
               /\ conn[srv.sess].handler[srv'.track] # NoHandler
            \/ srv'.pc = "del_stream" /\ Mine(srv.sess) = {}
         /\ hdl' \in [Handler -> HdlType]
         /\ \A h \in Handler : hdl'[h].owner = hdl[h].owner
<1>1. srv.pc = "stop_play" /\ UNCHANGED <<list, stock, conn, cap>>
  BY DEF StopHandler
<1>2. CASE \E t \in Track :
             /\ conn[srv.sess].handler[t] # NoHandler
             /\ hdl' = [hdl EXCEPT ![conn[srv.sess].handler[t]].on = FALSE]
             /\ srv' = [srv EXCEPT !.pc = "unregister", !.track = t]
  <2>1. PICK t \in Track :
             /\ conn[srv.sess].handler[t] # NoHandler
             /\ hdl' = [hdl EXCEPT ![conn[srv.sess].handler[t]].on = FALSE]
             /\ srv' = [srv EXCEPT !.pc = "unregister", !.track = t]
    BY <1>2
  <2>2. /\ srv' \in SrvType /\ srv'.sess = srv.sess /\ srv'.close = srv.close
        /\ srv'.pc = "unregister" /\ srv'.track = t
    BY <2>1, Parts, RtspAssumption DEF SrvType
  <2>3. hdl' \in [Handler -> HdlType] /\ \A h \in Handler : hdl'[h].owner = hdl[h].owner
    BY <2>1, Parts DEF HdlType
  <2>. QED  BY <1>1, <2>1, <2>2, <2>3
<1>3. CASE Mine(srv.sess) = {} /\ srv' = [srv EXCEPT !.pc = "del_stream"] /\ UNCHANGED hdl
  <2>1. /\ srv' \in SrvType /\ srv'.sess = srv.sess /\ srv'.close = srv.close
        /\ srv'.pc = "del_stream"
    BY <1>3, Parts DEF SrvType
  <2>. QED  BY <1>1, <1>3, <2>1, Parts
<1>. QED  BY <1>2, <1>3 DEF StopHandler

LEMMA StopHandlerStep == ASSUME StreamInv, StopHandler PROVE StreamInv'
<1>1. /\ srv.pc = "stop_play" /\ UNCHANGED <<list, stock, conn, cap>>
      /\ srv' \in SrvType /\ srv'.sess = srv.sess /\ srv'.close = srv.close
      /\ \/ /\ srv'.pc = "unregister" /\ srv'.track \in Track
            /\ conn[srv.sess].handler[srv'.track] # NoHandler
         \/ srv'.pc = "del_stream" /\ Mine(srv.sess) = {}
      /\ hdl' \in [Handler -> HdlType]
      /\ \A h \in Handler : hdl'[h].owner = hdl[h].owner
  BY StopHandlerFrame
<1>2. TypeOK'
  BY <1>1, Parts, TypesNext DEF SrvType
<1>3. ServerKnows'
  <2>1. conn' = conn /\ Mine(srv.sess)' = Mine(srv.sess)
    BY <1>1 DEF Mine
  <2>. QED  BY <1>1, <2>1 DEF StreamInv, ServerKnows, Mine
<1>4. WithoutStream'
  BY <1>1 DEF StreamInv, WithoutStream
<1>5. OneStreamPerKey'
  BY <1>1 DEF StreamInv, OneStreamPerKey
<1>6. HandlersOwned'
  BY <1>1, OwnersUntouched
<1>7. PostKeepsStream'
  BY <1>1 DEF StreamInv, PostKeepsStream, Listed
<1>. QED  BY <1>2, <1>3, <1>4, <1>5, <1>6, <1>7 DEF StreamInv

\* Register with the new handler h.
RegistersHandler(h) ==
  /\ stock' = [stock EXCEPT ![conn[srv.sess].stream].obs = @ \cup {h}]
  /\ conn' = [conn EXCEPT ![srv.sess].handler[srv.track] = h,
                          ![srv.sess].state = "SETUPED"]
  /\ hdl' = LivingHdl([hdl EXCEPT ![h] = [NoHdl EXCEPT !.owner = srv.sess]], stock', conn')

\* A track without a codec changes nothing; otherwise a handler that nothing
\* uses becomes the connection's and an observer of its stream.
LEMMA RegisterFrame ==
  ASSUME StreamInv, Register
  PROVE  LET s == srv.sess
             o == conn[s].stream
         IN
         /\ srv.pc = "register" /\ srv' \in SrvType /\ srv'.pc = "select"
         /\ UNCHANGED <<list, cap>>
         /\ s \in Sess /\ o \in Obj /\ srv.track \in Track
         /\ \/ UNCHANGED <<stock, hdl, conn>>
            \/ \E h \in Handler :
                 Unused(h) /\ ObserversFree(o) /\ RegistersHandler(h)
<1>1. /\ srv.pc = "register" /\ srv' = IdleSrv /\ UNCHANGED <<list, cap>>
  BY DEF Register
<1>2. srv.sess \in Sess /\ srv.track \in Track /\ conn[srv.sess].stream # NoObj
  BY <1>1 DEF StreamInv, ServerKnows
<1>3. conn[srv.sess].stream \in Obj
  BY <1>2, ConnFields
<1>4. srv' \in SrvType /\ srv'.pc = "select"
  BY <1>1 DEF SrvType, IdleSrv
<1>. QED  BY <1>1, <1>2, <1>3, <1>4 DEF Register, RegistersHandler

\* What the registration of h does to each part of the state.
Registers(h) ==
  LET s == srv.sess
      o == conn[s].stream
  IN
  /\ Unused(h)
  /\ stock' \in [Obj -> StockType]
  /\ stock'[o].obs = stock[o].obs \cup {h}
  /\ \A p \in Obj : stock'[p].key = stock[p].key
  /\ \A p \in Obj : p # o => stock'[p] = stock[p]
  /\ conn' \in [Sess -> ConnType]
  /\ \A r \in Sess : r # s => conn'[r] = conn[r]
  /\ conn'[s].stream = o
  /\ conn'[s].handler = [conn[s].handler EXCEPT ![srv.track] = h]
  /\ hdl' \in [Handler -> HdlType]
  /\ hdl'[h].owner = s
  /\ \A g \in Handler :
       /\ g # h
       /\ \/ \E p \in Obj : g \in stock'[p].obs
          \/ \E r \in Sess : \E t \in Track : conn'[r].handler[t] = g
       => hdl'[g] = hdl[g]

LEMMA RegisterFacts ==
  ASSUME StreamInv, srv.sess \in Sess, srv.track \in Track, conn[srv.sess].stream \in Obj,
         NEW h \in Handler, Unused(h), RegistersHandler(h)
  PROVE  Registers(h)
<1>1. PICK s \in Sess : s = srv.sess
  OBVIOUS
<1>2. PICK o \in Obj : o = conn[s].stream
  BY <1>1
<1>3. /\ stock' \in [Obj -> StockType]
      /\ stock'[o].obs = stock[o].obs \cup {h}
      /\ \A p \in Obj : stock'[p].key = stock[p].key
      /\ \A p \in Obj : p # o => stock'[p] = stock[p]
  <2>1. stock' = [stock EXCEPT ![o].obs = @ \cup {h}]
    BY <1>1, <1>2 DEF RegistersHandler
  <2> DEFINE q == [stock[o] EXCEPT !.obs = @ \cup {h}]
  <2>2. q \in StockType /\ q.obs = stock[o].obs \cup {h} /\ q.key = stock[o].key
    BY Parts DEF StockType
  <2>3. stock' = [stock EXCEPT ![o] = q]
    BY <2>1, Parts
  <2> HIDE DEF q
  <2>4. stock' \in [Obj -> StockType] /\ stock'[o] = q /\ \A p \in Obj : p # o => stock'[p] = stock[p]
    BY <2>3, <2>2, Parts
  <2>. QED  BY <2>2, <2>4
<1>4. /\ conn' \in [Sess -> ConnType]
      /\ \A r \in Sess : r # s => conn'[r] = conn[r]
      /\ conn'[s].stream = o
      /\ conn'[s].handler = [conn[s].handler EXCEPT ![srv.track] = h]
  <2> DEFINE f == [conn[s].handler EXCEPT ![srv.track] = h]
             d == [conn[s] EXCEPT !.handler = f, !.state = "SETUPED"]
  <2>1. f \in [Track -> Handler \cup {NoHandler}]
    BY ConnFields
  <2> HIDE DEF f
  <2>2. d \in ConnType /\ d.handler = f /\ d.stream = o
    BY <1>2, <2>1, ConnFields DEF ConnType
  <2>3. conn' = [conn EXCEPT ![s] = d]
    BY <1>1, Parts DEF ConnType, f, RegistersHandler
  <2> HIDE DEF d
  <2>. QED  BY <2>2, <2>3, OneConnChanges DEF f
<1>5. /\ hdl' \in [Handler -> HdlType]
      /\ hdl'[h].owner = s
      /\ \A g \in Handler :
           /\ g # h
           /\ \/ \E p \in Obj : g \in stock'[p].obs
              \/ \E r \in Sess : \E t \in Track : conn'[r].handler[t] = g
           => hdl'[g] = hdl[g]
  <2> DEFINE n == [NoHdl EXCEPT !.owner = s]
             hd == [hdl EXCEPT ![h] = n]
  <2>1. n \in HdlType /\ n.owner = s
    BY DEF NoHdl, HdlType
  <2> HIDE DEF n
  <2>2. hd \in [Handler -> HdlType] /\ hd[h] = n /\ \A g \in Handler : g # h => hd[g] = hdl[g]
    BY <2>1, Parts
  <2>3. hdl' = LivingHdl(hd, stock', conn')
    BY <1>1 DEF n, RegistersHandler
  <2> HIDE DEF hd
  <2>4. /\ hdl' \in [Handler -> HdlType]
        /\ \A p \in Obj : \A g \in Handler : g \in stock'[p].obs => hdl'[g] = hd[g]
        /\ \A r \in Sess : \A t \in Track : conn'[r].handler[t] \in Handler
             => hdl'[conn'[r].handler[t]] = hd[conn'[r].handler[t]]
    <3>1. hd \in [Handler -> HdlType]
      BY <2>2
    <3>. QED  BY <3>1, <2>3, LivingHdlFacts
  <2>5. h \in stock'[o].obs
    BY <1>3
  <2>6. hdl'[h].owner = s
    BY <2>1, <2>2, <2>4, <2>5
  <2>7. ASSUME NEW g \in Handler, g # h,
               \/ \E p \in Obj : g \in stock'[p].obs
               \/ \E r \in Sess : \E t \in Track : conn'[r].handler[t] = g
        PROVE  hdl'[g] = hdl[g]
    <3>1. hdl'[g] = hd[g]
      <4>1. CASE \E p \in Obj : g \in stock'[p].obs
        BY <4>1, <2>4
      <4>2. CASE \E r \in Sess : \E t \in Track : conn'[r].handler[t] = g
        BY <4>2, <2>4
      <4>. QED  BY <2>7, <4>1, <4>2
    <3>. QED  BY <3>1, <2>2, <2>7
  <2>. QED  BY <2>4, <2>6, <2>7
<1>. QED  BY <1>1, <1>2, <1>3, <1>4, <1>5 DEF Registers

LEMMA RegisterStep == ASSUME StreamInv, Register PROVE StreamInv'
<1>1. /\ srv.pc = "register" /\ srv' \in SrvType /\ srv'.pc = "select"
      /\ UNCHANGED <<list, cap>>
      /\ srv.sess \in Sess /\ conn[srv.sess].stream \in Obj /\ srv.track \in Track
  BY RegisterFrame
<1>2. ServerKnows'
  BY <1>1 DEF ServerKnows
<1>3. CASE UNCHANGED <<stock, hdl, conn>>
  <2>1. TypeOK'
    BY <1>1, <1>3, Parts, TypesNext DEF SrvType
  <2>2. WithoutStream'
    BY <1>1, <1>3 DEF StreamInv, WithoutStream
  <2>3. OneStreamPerKey'
    BY <1>1, <1>3 DEF StreamInv, OneStreamPerKey
  <2>4. HandlersOwned'
    BY <1>3, OwnersUntouched
  <2>5. PostKeepsStream'
    BY <1>1, <1>3 DEF StreamInv, PostKeepsStream, Listed
  <2>. QED  BY <1>2, <2>1, <2>2, <2>3, <2>4, <2>5 DEF StreamInv
<1>4. ASSUME NEW h \in Handler, Unused(h), RegistersHandler(h)
      PROVE  StreamInv'
  <2>1. Registers(h)
    BY <1>1, <1>4, RegisterFacts
  <2>2. PICK s \in Sess : s = srv.sess
    BY <1>1
  <2>3. PICK o \in Obj : o = conn[s].stream /\ o # NoObj
    BY <1>1, <2>2, RtspAssumption
  <2>4. TypeOK'
    BY <1>1, <2>1, Parts, TypesNext DEF SrvType, Registers
  <2>5. /\ \A r \in Sess : r # s => conn'[r] = conn[r]
        /\ conn'[s].stream = o
        /\ conn'[s].handler = [conn[s].handler EXCEPT ![srv.track] = h]
    BY <2>1, <2>2, <2>3 DEF Registers
  <2>6. WithoutStream'
    BY <1>1, <2>3, <2>5 DEF StreamInv, WithoutStream
  <2>7. OneStreamPerKey'
    <3>1. list' = list /\ \A p \in Obj : stock'[p].key = stock[p].key
      BY <1>1, <2>1 DEF Registers
    <3>. QED  BY <3>1, ListElement DEF StreamInv, OneStreamPerKey
  <2>8. HandlersOwned'
    <3> SUFFICES ASSUME NEW r \in Sess, NEW t \in Track, conn'[r].handler[t] # NoHandler
                 PROVE  hdl'[conn'[r].handler[t]].owner = r
      BY DEF HandlersOwned
    <3>1. CASE conn'[r].handler[t] = conn[r].handler[t]
      <4>1. PICK g \in Handler : g = conn[r].handler[t]
        BY <3>1, ConnFields
      <4>2. g # h
        BY <1>4, <4>1 DEF Unused
      <4>3. hdl'[g] = hdl[g]
        BY <2>1, <3>1, <4>1, <4>2 DEF Registers
      <4>4. hdl[g].owner = r
        BY <3>1, <4>1 DEF StreamInv, HandlersOwned
      <4>. QED  BY <3>1, <4>1, <4>3, <4>4
    <3>2. CASE conn'[r].handler[t] # conn[r].handler[t]
      <4>1. r = s /\ conn'[r].handler[t] = h
        BY <3>2, <2>5, ConnFields
      <4>2. hdl'[h].owner = s
        BY <2>1, <2>2 DEF Registers
      <4>. QED  BY <4>1, <4>2
    <3>. QED  BY <3>1, <3>2
  <2>9. PostKeepsStream'
    <3>1. UNCHANGED <<list, cap>>
      BY <1>1
    <3>2. \A p \in Obj : stock[p].obs \subseteq stock'[p].obs
      BY <2>1 DEF Registers
    <3>3. cap.obj \in Obj \cup {NoObj}
      BY Parts
    <3>. QED  BY <3>1, <3>2, <3>3 DEF StreamInv, PostKeepsStream, Listed
  <2>. QED  BY <1>2, <2>4, <2>6, <2>7, <2>8, <2>9 DEF StreamInv
<1>. QED  BY <1>3, <1>4, RegisterFrame

\* What unregistering the handler h of track t of connection s does.
LEMMA UnregisterFacts ==
  ASSUME StreamInv, Unregister
  PROVE  LET s == srv.sess
             o == conn[s].stream
             h == conn[s].handler[srv.track]
         IN
         /\ srv.pc = "unregister" /\ UNCHANGED <<list, cap>>
         /\ srv' \in SrvType /\ srv'.pc = "stop_play" /\ srv'.sess = s /\ srv'.close = srv.close
         /\ s \in Sess /\ o \in Obj /\ srv.track \in Track /\ h \in Handler
         /\ cap.obj # o
         /\ stock' \in [Obj -> StockType]
         /\ stock'[o].obs = stock[o].obs \ {h}
         /\ \A p \in Obj : stock'[p].key = stock[p].key
         /\ \A p \in Obj : p # o => stock'[p] = stock[p]
         /\ conn' \in [Sess -> ConnType]
         /\ \A r \in Sess : r # s => conn'[r] = conn[r]
         /\ conn'[s].stream = o /\ conn'[s].state = conn[s].state
         /\ conn'[s].handler = [conn[s].handler EXCEPT ![srv.track] = NoHandler]
         /\ hdl' \in [Handler -> HdlType] /\ HandlersKept
<1>1. /\ srv.pc = "unregister" /\ UNCHANGED <<list, cap>>
      /\ srv' = [srv EXCEPT !.pc = "stop_play"]
      /\ hdl' = LivingHdl(hdl, stock', conn')
  BY DEF Unregister
<1>2. PICK s \in Sess : s = srv.sess
  BY <1>1, SrvFields
<1>3. PICK o \in Obj : o = conn[s].stream
  BY <1>1, <1>2, ConnFields DEF StreamInv, ServerKnows
<1>4. PICK t \in Track : t = srv.track
  BY <1>1 DEF StreamInv, ServerKnows
<1>5. PICK h \in Handler : h = conn[s].handler[t]
  BY <1>1, <1>2, <1>4, ConnFields DEF StreamInv, ServerKnows
<1>6. srv' \in SrvType /\ srv'.pc = "stop_play" /\ srv'.sess = s /\ srv'.close = srv.close
  BY <1>1, <1>2, Parts DEF SrvType
<1>7. cap.obj # o
  BY <1>2, <1>3 DEF Unregister, ObserversFree
<1>8. /\ stock' \in [Obj -> StockType]
      /\ stock'[o].obs = stock[o].obs \ {h}
      /\ \A p \in Obj : stock'[p].key = stock[p].key
      /\ \A p \in Obj : p # o => stock'[p] = stock[p]
  <2>1. stock' = [stock EXCEPT ![o].obs = @ \ {h}]
    BY <1>2, <1>3, <1>4, <1>5 DEF Unregister, RemoveObserver
  <2> DEFINE q == [stock[o] EXCEPT !.obs = @ \ {h}]
  <2>2. q \in StockType /\ q.obs = stock[o].obs \ {h} /\ q.key = stock[o].key
    BY Parts DEF StockType
  <2>3. stock' = [stock EXCEPT ![o] = q]
    BY <2>1, Parts
  <2> HIDE DEF q
  <2>4. stock' \in [Obj -> StockType] /\ stock'[o] = q /\ \A p \in Obj : p # o => stock'[p] = stock[p]
    BY <2>3, <2>2, Parts
  <2>. QED  BY <2>2, <2>4
<1>9. /\ conn' \in [Sess -> ConnType]
      /\ \A r \in Sess : r # s => conn'[r] = conn[r]
      /\ conn'[s].stream = o /\ conn'[s].state = conn[s].state
      /\ conn'[s].handler = [conn[s].handler EXCEPT ![t] = NoHandler]
  <2> DEFINE f == [conn[s].handler EXCEPT ![t] = NoHandler]
             d == [conn[s] EXCEPT !.handler = f]
  <2>1. f \in [Track -> Handler \cup {NoHandler}]
    BY ConnFields
  <2> HIDE DEF f
  <2>2. d \in ConnType /\ d.handler = f /\ d.stream = o /\ d.state = conn[s].state
    BY <1>3, <2>1, ConnFields DEF ConnType
  <2>3. conn' = [conn EXCEPT ![s] = d]
    BY <1>2, <1>4, Parts DEF ConnType, f, Unregister
  <2> HIDE DEF d
  <2>. QED  BY <2>2, <2>3, OneConnChanges DEF f
<1>10. hdl' \in [Handler -> HdlType] /\ HandlersKept
  BY <1>1, AfterCleanup DEF StreamInv
<1>. QED  BY <1>1, <1>2, <1>3, <1>4, <1>5, <1>6, <1>7, <1>8, <1>9, <1>10

LEMMA UnregisterStep == ASSUME StreamInv, Unregister PROVE StreamInv'
<1>1. PICK s \in Sess : s = srv.sess
  BY UnregisterFacts
<1>2. PICK o \in Obj : o = conn[s].stream
  BY UnregisterFacts, <1>1
<1>3. PICK t \in Track : t = srv.track
  BY UnregisterFacts
<1>4. /\ srv.pc = "unregister" /\ UNCHANGED <<list, cap>> /\ cap.obj # o
      /\ srv' \in SrvType /\ srv'.pc = "stop_play" /\ srv'.sess = s /\ srv'.close = srv.close
  BY UnregisterFacts, <1>1, <1>2
<1>5. /\ stock' \in [Obj -> StockType]
      /\ \A p \in Obj : stock'[p].key = stock[p].key
      /\ \A p \in Obj : p # o => stock'[p] = stock[p]
  BY UnregisterFacts, <1>1, <1>2
<1>6. /\ conn' \in [Sess -> ConnType]
      /\ \A r \in Sess : r # s => conn'[r] = conn[r]
      /\ conn'[s].stream = o /\ conn'[s].state = conn[s].state
      /\ conn'[s].handler = [conn[s].handler EXCEPT ![t] = NoHandler]
  BY UnregisterFacts, <1>1, <1>2, <1>3
<1>7. hdl' \in [Handler -> HdlType] /\ HandlersKept
  BY UnregisterFacts
<1>8. TypeOK'
  BY <1>4, <1>5, <1>6, <1>7, Parts, TypesNext DEF SrvType
<1>9. o # NoObj
  BY RtspAssumption
<1>10. ServerKnows'
  BY <1>1, <1>4, <1>6, <1>9 DEF StreamInv, ServerKnows
<1>11. WithoutStream'
  BY <1>4, <1>6, <1>9 DEF StreamInv, WithoutStream
<1>12. OneStreamPerKey'
  BY <1>4, <1>5, ListElement DEF StreamInv, OneStreamPerKey
<1>13. HandlersOwned'
  <2> SUFFICES ASSUME NEW r \in Sess, NEW u \in Track, conn'[r].handler[u] # NoHandler
               PROVE  hdl'[conn'[r].handler[u]].owner = r
    BY DEF HandlersOwned
  <2>1. conn'[r].handler[u] = conn[r].handler[u]
    BY <1>6, ConnFields
  <2>2. PICK g \in Handler : g = conn[r].handler[u]
    BY <2>1, ConnFields
  <2>3. hdl'[g] = hdl[g]
    BY <1>7, <2>1, <2>2 DEF HandlersKept
  <2>4. hdl[g].owner = r
    BY <2>1, <2>2 DEF StreamInv, HandlersOwned
  <2>. QED  BY <2>1, <2>2, <2>3, <2>4
<1>14. PostKeepsStream'
  <2>1. cap.obj \in Obj \cup {NoObj}
    BY Parts
  <2>. QED  BY <1>4, <1>5, <2>1 DEF StreamInv, PostKeepsStream, Listed
<1>. QED  BY <1>8, <1>10, <1>11, <1>12, <1>13, <1>14 DEF StreamInv

LEMMA StopPlayFacts ==
  ASSUME StreamInv, StopPlayDelStream
  PROVE  LET s == srv.sess IN
         /\ srv.pc = "del_stream" /\ s \in Sess /\ Mine(s) = {} /\ cap.obj = NoObj
         /\ UNCHANGED cap /\ srv' \in SrvType
         /\ IF srv.close THEN srv'.pc = "gone" /\ srv'.sess = s ELSE srv'.pc = "select"
         /\ conn' \in [Sess -> ConnType]
         /\ \A r \in Sess : r # s => conn'[r] = conn[r]
         /\ conn'[s].stream = NoObj /\ conn'[s].state = conn[s].state
         /\ conn'[s].handler = conn[s].handler
         /\ DelStream(stock[conn[s].stream].key)
         /\ hdl' \in [Handler -> HdlType] /\ HandlersKept
<1>1. /\ srv.pc = "del_stream" /\ cap.obj = NoObj /\ UNCHANGED cap
      /\ conn' = [conn EXCEPT ![srv.sess].stream = NoObj]
      /\ DelStream(stock[conn[srv.sess].stream].key)
      /\ hdl' = LivingHdl(hdl, stock', conn')
      /\ srv' = IF srv.close THEN [srv EXCEPT !.pc = "gone"] ELSE IdleSrv
  BY DEF StopPlayDelStream, StreamMuFree
<1>2. PICK s \in Sess : s = srv.sess
  BY <1>1, SrvFields
<1>3. Mine(s) = {}
  BY <1>1, <1>2 DEF StreamInv, ServerKnows
<1>4. /\ srv' \in SrvType
      /\ IF srv.close THEN srv'.pc = "gone" /\ srv'.sess = s ELSE srv'.pc = "select"
  BY <1>1, <1>2, Parts DEF SrvType, IdleSrv
<1>5. /\ conn' \in [Sess -> ConnType]
      /\ \A r \in Sess : r # s => conn'[r] = conn[r]
      /\ conn'[s].stream = NoObj /\ conn'[s].state = conn[s].state
      /\ conn'[s].handler = conn[s].handler
  <2> DEFINE d == [conn[s] EXCEPT !.stream = NoObj]
  <2>1. /\ d \in ConnType /\ d.handler = conn[s].handler /\ d.stream = NoObj
        /\ d.state = conn[s].state
    BY ConnFields DEF ConnType
  <2>2. conn' = [conn EXCEPT ![s] = d]
    BY <1>1, <1>2, Parts
  <2> HIDE DEF d
  <2>. QED  BY <2>1, <2>2, OneConnChanges
<1>6. hdl' \in [Handler -> HdlType] /\ HandlersKept
  BY <1>1, AfterCleanup DEF StreamInv
<1>. QED  BY <1>1, <1>2, <1>3, <1>4, <1>5, <1>6

LEMMA StopPlayDelStreamStep == ASSUME StreamInv, StopPlayDelStream PROVE StreamInv'
<1>1. PICK s \in Sess : s = srv.sess
  BY StopPlayFacts
<1>2. /\ srv.pc = "del_stream" /\ Mine(s) = {} /\ cap.obj = NoObj
      /\ UNCHANGED cap /\ srv' \in SrvType
      /\ IF srv.close THEN srv'.pc = "gone" /\ srv'.sess = s ELSE srv'.pc = "select"
  BY StopPlayFacts, <1>1
<1>3. /\ conn' \in [Sess -> ConnType]
      /\ \A r \in Sess : r # s => conn'[r] = conn[r]
      /\ conn'[s].stream = NoObj /\ conn'[s].state = conn[s].state
      /\ conn'[s].handler = conn[s].handler
  BY StopPlayFacts, <1>1
<1>4. hdl' \in [Handler -> HdlType] /\ HandlersKept
  BY StopPlayFacts
<1>5. list' \in Seq(Obj) /\ stock' \in [Obj -> StockType] /\ OneStreamPerKey'
  <2>1. DelStream(stock[conn[s].stream].key)
    BY StopPlayFacts, <1>1
  <2>. QED  BY <2>1, DelStreamFacts DEF StreamInv
<1>6. TypeOK'
  BY <1>2, <1>3, <1>4, <1>5, Parts, TypesNext DEF SrvType
<1>7. ServerKnows'
  BY <1>2, <1>3 DEF ServerKnows
<1>8. WithoutStream'
  <2> SUFFICES ASSUME NEW r \in Sess, conn'[r].stream = NoObj
               PROVE  /\ \A t \in Track : conn'[r].handler[t] = NoHandler
                      /\ conn'[r].state = "IDLE" \/ (srv'.pc = "gone" /\ srv'.sess = r)
    BY DEF WithoutStream
  <2>1. CASE r = s
    <3>1. \A t \in Track : conn[s].handler[t] = NoHandler
      BY <1>2 DEF Mine
    <3>2. ~srv.close => conn[s].state = "IDLE"
      BY <1>1, <1>2 DEF StreamInv, ServerKnows
    <3>. QED  BY <2>1, <3>1, <3>2, <1>2, <1>3
  <2>2. CASE r # s
    BY <2>2, <1>1, <1>2, <1>3 DEF StreamInv, WithoutStream
  <2>. QED  BY <2>1, <2>2
<1>9. HandlersOwned'
  <2>1. \A r \in Sess : conn'[r].handler = conn[r].handler
    BY <1>3
  <2>. QED  BY <2>1, <1>4, OwnersUntouched DEF HandlersKept
<1>10. PostKeepsStream'
  BY <1>2 DEF StreamInv, PostKeepsStream
<1>. QED  BY <1>5, <1>6, <1>7, <1>8, <1>9, <1>10 DEF StreamInv

LEMMA GoneFacts ==
  ASSUME StreamInv, Gone
  PROVE  LET s == srv.sess IN
         /\ srv.pc = "gone" /\ s \in Sess /\ UNCHANGED <<list, stock, cap>>
         /\ srv' \in SrvType /\ srv'.pc = "select"
         /\ \A t \in Track : conn[s].handler[t] = NoHandler
         /\ conn' \in [Sess -> ConnType] /\ conn'[s] = Closed
         /\ \A r \in Sess : r # s => conn'[r] = conn[r]
         /\ hdl' \in [Handler -> HdlType]
         /\ \A h \in Handler : hdl[h].owner # s => hdl'[h] = hdl[h]
<1>1. /\ srv.pc = "gone" /\ UNCHANGED <<list, stock, cap>> /\ srv' = IdleSrv
      /\ conn' = [conn EXCEPT ![srv.sess] = Closed]
      /\ hdl' = [h \in Handler |-> IF hdl[h].owner = srv.sess
                                  THEN [hdl[h] EXCEPT !.owner = NoSess] ELSE hdl[h]]
  BY DEF Gone
<1>2. PICK s \in Sess : s = srv.sess
  BY <1>1, SrvFields
<1>3. \A t \in Track : conn[s].handler[t] = NoHandler
  BY <1>1, <1>2 DEF StreamInv, ServerKnows, WithoutStream
<1>4. srv' \in SrvType /\ srv'.pc = "select"
  BY <1>1 DEF SrvType, IdleSrv
<1>5. /\ conn' \in [Sess -> ConnType] /\ conn'[s] = Closed
      /\ \A r \in Sess : r # s => conn'[r] = conn[r]
  BY <1>1, <1>2, NothingYet, OneConnChanges
<1>6. /\ hdl' \in [Handler -> HdlType]
      /\ \A h \in Handler : hdl[h].owner # s => hdl'[h] = hdl[h]
  BY <1>1, <1>2, Parts DEF HdlType
<1>. QED  BY <1>1, <1>2, <1>3, <1>4, <1>5, <1>6

LEMMA GoneStep == ASSUME StreamInv, Gone PROVE StreamInv'
<1>1. PICK s \in Sess : s = srv.sess
  BY GoneFacts
<1>2. /\ srv.pc = "gone" /\ UNCHANGED <<list, stock, cap>>
      /\ srv' \in SrvType /\ srv'.pc = "select"
  BY GoneFacts
<1>3. /\ conn' \in [Sess -> ConnType] /\ conn'[s] = Closed
      /\ \A r \in Sess : r # s => conn'[r] = conn[r]
  BY GoneFacts, <1>1
<1>4. /\ hdl' \in [Handler -> HdlType]
      /\ \A h \in Handler : hdl[h].owner # s => hdl'[h] = hdl[h]
  BY GoneFacts, <1>1
<1>5. Closed.state = "IDLE" /\ Closed.stream = NoObj /\ \A t \in Track : Closed.handler[t] = NoHandler
  BY DEF Closed
<1>6. TypeOK'
  BY <1>2, <1>3, <1>4, Parts, TypesNext DEF SrvType
<1>7. ServerKnows'
  BY <1>2 DEF ServerKnows
<1>8. WithoutStream'
  BY <1>1, <1>2, <1>3, <1>5 DEF StreamInv, WithoutStream
<1>9. OneStreamPerKey'
  BY <1>2 DEF StreamInv, OneStreamPerKey
<1>10. HandlersOwned'
  <2> SUFFICES ASSUME NEW r \in Sess, NEW t \in Track, conn'[r].handler[t] # NoHandler
               PROVE  hdl'[conn'[r].handler[t]].owner = r
    BY DEF HandlersOwned
  <2>1. r # s /\ conn'[r] = conn[r]
    BY <1>3, <1>5
  <2>2. PICK g \in Handler : g = conn[r].handler[t]
    BY <2>1, ConnFields
  <2>3. hdl[g].owner = r
    BY <2>1, <2>2 DEF StreamInv, HandlersOwned
  <2>. QED  BY <2>1, <2>2, <2>3, <1>4
<1>11. PostKeepsStream'
  BY <1>2 DEF StreamInv, PostKeepsStream, Listed
<1>. QED  BY <1>6, <1>7, <1>8, <1>9, <1>10, <1>11 DEF StreamInv

-----------------------------------------------------------------------------
(* In any order of the requests.                                            *)

LEMMA StreamInvStep == StreamInv /\ [Next]_vars => StreamInv'
<1> SUFFICES ASSUME StreamInv, [Next]_vars PROVE StreamInv'
  OBVIOUS
<1>1. ASSUME NEW s \in Sess, Accept(s) PROVE StreamInv'
  BY <1>1, AcceptStep
<1>2. ASSUME NEW s \in Sess, NEW k \in Key, Describe(s, k) PROVE StreamInv'
  BY <1>2, DescribeStep
<1>3. ASSUME NEW s \in Sess, NEW k \in Key, NEW t \in Track, Setup(s, k, t) PROVE StreamInv'
  BY <1>3, SetupStep
<1>4. ASSUME NEW s \in Sess, Play(s) PROVE StreamInv'
  BY <1>4, PlayStep
<1>5. ASSUME NEW s \in Sess, Teardown(s) PROVE StreamInv'
  BY <1>5, TeardownStep
<1>6. ASSUME NEW s \in Sess, CloseSession(s) PROVE StreamInv'
  BY <1>6, CloseSessionStep
<1>7. CASE InServer
  BY <1>7, RegisterStep, StopHandlerStep, UnregisterStep, StopPlayDelStreamStep, GoneStep
     DEF InServer
<1>8. CASE InCapture
  BY <1>8, SendStep, EndPostStep, DeliverStep DEF InCapture
<1>9. ASSUME NEW k \in Key, Frame(k) PROVE StreamInv'
  BY <1>9, FrameStep
<1>10. CASE Tick
  BY <1>10, TickStep
<1>11. CASE Check
  BY <1>11, CheckStep
<1>12. CASE UNCHANGED vars
  <2>1. UNCHANGED <<list, stock, hdl, conn, srv, cap>>
    BY <1>12 DEF vars
  <2>2. TypeOK'
    BY <2>1, Parts, TypesNext
  <2>3. ServerKnows' /\ WithoutStream'
    BY <2>1, ServerUntouched DEF ConnsSettled
  <2>4. OneStreamPerKey'
    BY <2>1 DEF StreamInv, OneStreamPerKey
  <2>5. HandlersOwned'
    BY <2>1, OwnersUntouched
  <2>6. PostKeepsStream'
    BY <2>1 DEF StreamInv, PostKeepsStream, Listed
  <2>. QED  BY <2>2, <2>3, <2>4, <2>5, <2>6 DEF StreamInv
<1>. QED  BY <1>1, <1>2, <1>3, <1>4, <1>5, <1>6, <1>7, <1>8, <1>9, <1>10, <1>11, <1>12
          DEF Next, Request

LEMMA AlwaysStreamInv == Spec => []StreamInv
<1>. QED  BY InitStreamInv, StreamInvStep, PTL DEF Spec

\* Every variable keeps its type, whatever the order of the requests.
THEOREM StreamTypes == Spec => []TypeOK
<1>1. StreamInv => TypeOK
  BY DEF StreamInv
<1>. QED  BY <1>1, AlwaysStreamInv, PTL

\* get_stream and del_stream look a stream up by its key: the list never has
\* two streams of one key, whatever the checker drops meanwhile.
THEOREM KeysAreUnique == Spec => []OneStreamPerKey
<1>1. StreamInv => OneStreamPerKey
  BY DEF StreamInv
<1>. QED  BY <1>1, AlwaysStreamInv, PTL

\* process_method_play uses m_stream without looking: a connection that was
\* set up has one, for any order of the requests.
THEOREM PlayFindsStream == Spec => []SetUpHasStream
<1>1. StreamInv => SetUpHasStream
  BY DEF StreamInv, SetUpHasStream, WithoutStream, AtSelect
<1>. QED  BY <1>1, AlwaysStreamInv, PTL

\* Only get_stream, del_stream and the checker change the list.
LEMMA ListChanges ==
  ASSUME StreamInv, [Next]_vars
  PROVE  \/ list' = list
         \/ \E s \in Sess, k \in Key, o \in Obj : GetStream(s, k, o)
         \/ \E k : DelStream(k)
         \/ Check
<1>1. ASSUME NEW s \in Sess, Request(s), list' # list
      PROVE  \E k \in Key, o \in Obj : GetStream(s, k, o)
  BY <1>1 DEF Request, Describe, Setup, Play, Teardown
<1>2. ASSUME InServer, list' # list PROVE \E k : DelStream(k)
  <2>1. StopPlayDelStream
    BY <1>2 DEF InServer, Register, StopHandler, Unregister, Gone
  <2>. QED  BY <2>1 DEF StopPlayDelStream
<1>3. ASSUME InCapture PROVE list' = list
  BY <1>3 DEF InCapture, Send, EndPost, Deliver
<1>4. CASE UNCHANGED vars
  BY <1>4 DEF vars
<1>. QED  BY <1>1, <1>2, <1>3, <1>4 DEF Next, Accept, CloseSession, Frame, Tick

\* del_stream of one client never takes the stream of another: a stream with
\* observers leaves the list only through the checker, when it is dead.
THEOREM WatchedStays == Spec => WatchedStreamStays
<1>1. ASSUME StreamInv, [Next]_vars, NEW o \in Obj, Listed(o), ~Listed(o)'
      PROVE  Dead(o) \/ stock[o].obs = {}
  <2>0. TypeOK /\ OneStreamPerKey
    BY <1>1 DEF StreamInv
  <2>1. CASE list' = list
    BY <2>1, <1>1 DEF Listed
  <2>2. ASSUME NEW s \in Sess, NEW k \in Key, NEW p \in Obj, GetStream(s, k, p) PROVE FALSE
    BY <2>0, <2>2, <1>1, GetStreamFacts
  <2>3. ASSUME NEW k, DelStream(k) PROVE stock[o].obs = {}
    BY <2>0, <2>3, <1>1, DelStreamFacts
  <2>4. CASE Check
    BY <2>4, <1>1, CheckFacts
  <2>. QED  BY <1>1, <2>1, <2>2, <2>3, <2>4, ListChanges
<1>2. StreamInv /\ [Next]_vars
        => [\A o \in Obj : Listed(o) /\ ~Listed(o)' => Dead(o) \/ stock[o].obs = {}]_vars
  BY <1>1
<1>. QED  BY <1>2, AlwaysStreamInv, PTL DEF Spec, WatchedStreamStays

-----------------------------------------------------------------------------
(* A viewer stays registered, in any order of the requests.                 *)

\* Two tracks of one connection never share a handler: unregistering one
\* leaves the other.
TracksApart ==
  \A s \in Sess : \A t, u \in Track :
    conn[s].handler[t] = conn[s].handler[u] /\ conn[s].handler[t] # NoHandler => t = u

LEMMA TracksApartKept ==
  ASSUME TracksApart, \A s \in Sess : conn'[s].handler = conn[s].handler
  PROVE  TracksApart'
BY DEF TracksApart

LEMMA RegisterApart ==
  ASSUME StreamInv, TracksApart, Register PROVE TracksApart'
<1> DEFINE s == srv.sess
           f == conn[s].handler
<1>1. /\ s \in Sess /\ conn[s].stream \in Obj /\ srv.track \in Track
      /\ \/ UNCHANGED <<stock, hdl, conn>>
         \/ \E h \in Handler : Unused(h) /\ ObserversFree(conn[s].stream) /\ RegistersHandler(h)
  BY RegisterFrame
<1>2. CASE UNCHANGED conn
  BY <1>2, TracksApartKept
<1>3. ASSUME NEW h \in Handler, Unused(h), RegistersHandler(h) PROVE TracksApart'
  <2>1. /\ \A r \in Sess : r # s => conn'[r] = conn[r]
        /\ conn'[s].handler = [f EXCEPT ![srv.track] = h]
    BY <1>1, <1>3, RegisterFacts DEF Registers
  <2>2. \A t \in Track : f[t] # h
    BY <1>1, <1>3 DEF Unused
  <2>3. f \in [Track -> Handler \cup {NoHandler}]
    BY <1>1, ConnFields
  <2>4. \A t, u \in Track : f[t] = f[u] /\ f[t] # NoHandler => t = u
    BY <1>1 DEF TracksApart
  <2> HIDE DEF f
  <2>5. ASSUME NEW t \in Track, NEW u \in Track, conn'[s].handler[t] = conn'[s].handler[u],
               conn'[s].handler[t] # NoHandler
        PROVE  t = u
    <3>1. /\ conn'[s].handler[t] = IF t = srv.track THEN h ELSE f[t]
          /\ conn'[s].handler[u] = IF u = srv.track THEN h ELSE f[u]
      BY <2>1, <2>3
    <3>. QED  BY <2>2, <2>4, <2>5, <3>1
  <2>6. ASSUME NEW r \in Sess, r # s
        PROVE  \A t, u \in Track : conn'[r].handler[t] = conn'[r].handler[u]
                                   /\ conn'[r].handler[t] # NoHandler => t = u
    BY <2>1, <2>6 DEF TracksApart
  <2> HIDE DEF s
  <2>. QED  BY <2>1, <2>5, <2>6 DEF TracksApart
<1>. QED  BY <1>1, <1>2, <1>3

LEMMA UnregisterApart ==
  ASSUME StreamInv, TracksApart, Unregister PROVE TracksApart'
<1> DEFINE s == srv.sess
           f == conn[s].handler
<1>1. /\ s \in Sess
      /\ \A r \in Sess : r # s => conn'[r] = conn[r]
      /\ conn'[s].handler = [f EXCEPT ![srv.track] = NoHandler]
  BY UnregisterFacts
<1>2. f \in [Track -> Handler \cup {NoHandler}]
  BY <1>1, ConnFields
<1>3. \A t, u \in Track : f[t] = f[u] /\ f[t] # NoHandler => t = u
  BY <1>1 DEF TracksApart
<1> HIDE DEF f
<1>4. \A t \in Track : conn'[s].handler[t] \in {f[t], NoHandler}
  BY <1>1, <1>2
<1>5. \A t, u \in Track : conn'[s].handler[t] = conn'[s].handler[u]
                          /\ conn'[s].handler[t] # NoHandler => t = u
  BY <1>3, <1>4
<1>6. ASSUME NEW r \in Sess, r # s
      PROVE  \A t, u \in Track : conn'[r].handler[t] = conn'[r].handler[u]
                                 /\ conn'[r].handler[t] # NoHandler => t = u
  BY <1>1, <1>6 DEF TracksApart
<1> HIDE DEF s
<1>. QED  BY <1>1, <1>5, <1>6 DEF TracksApart

\* The requests before PLAY leave every connection's handlers.
LEMMA RequestsApart ==
  ASSUME StreamInv, TracksApart, NEW s \in Sess, Request(s) PROVE TracksApart'
<1>1. ASSUME NEW k \in Key, Describe(s, k) PROVE TracksApart'
  <2>1. PICK o \in Obj : DescribesConn(s, o)
    BY <1>1 DEF Describe, DescribesConn
  <2>. QED  BY <2>1, DescribeConn, TracksApartKept
<1>2. ASSUME NEW k \in Key, NEW t \in Track, Setup(s, k, t) PROVE TracksApart'
  <2>1. PICK o \in Obj : conn' = [conn EXCEPT ![s].stream = o]
    BY <1>2, SetupFrame
  <2>2. \A r \in Sess : conn'[r].handler = conn[r].handler
    BY <2>1, Parts DEF ConnType
  <2>. QED  BY <2>2, TracksApartKept
<1>3. CASE Play(s)
  <2>1. \A r \in Sess : conn'[r].handler = conn[r].handler
    BY <1>3, Parts DEF Play, ConnType
  <2>. QED  BY <2>1, TracksApartKept
<1>4. CASE Teardown(s)
  <2>1. \A r \in Sess : conn'[r].handler = conn[r].handler
    BY <1>4, TeardownConn
  <2>. QED  BY <2>1, TracksApartKept
<1>. QED  BY <1>1, <1>2, <1>3, <1>4 DEF Request

LEMMA TracksApartStep ==
  ASSUME StreamInv, TracksApart, [Next]_vars PROVE TracksApart'
<1>1. ASSUME NEW s \in Sess, Accept(s) PROVE TracksApart'
  <2>1. \A r \in Sess : conn'[r].handler = conn[r].handler
    BY <1>1, Parts DEF Accept, ConnType
  <2>. QED  BY <2>1, TracksApartKept
<1>2. ASSUME NEW s \in Sess, CloseSession(s) PROVE TracksApart'
  BY <1>2, TracksApartKept DEF CloseSession
<1>3. CASE InServer
  <2>1. CASE StopHandler
    BY <2>1, TracksApartKept DEF StopHandler
  <2>2. CASE StopPlayDelStream
    <3>1. \A r \in Sess : conn'[r].handler = conn[r].handler
      BY <2>2, StopPlayFacts
    <3>. QED  BY <3>1, TracksApartKept
  <2>3. CASE Gone
    <3> DEFINE s == srv.sess
    <3>1. conn'[s] = Closed /\ \A r \in Sess : r # s => conn'[r] = conn[r]
      BY <2>3, GoneFacts
    <3>2. \A t \in Track : conn'[s].handler[t] = NoHandler
      BY <3>1 DEF Closed
    <3> HIDE DEF s
    <3>. QED  BY <3>1, <3>2 DEF TracksApart
  <2>. QED  BY <1>3, <2>1, <2>2, <2>3, RegisterApart, UnregisterApart DEF InServer
<1>4. CASE InCapture
  <2>1. CASE Send
    <3>1. ConnsSettled
      BY <2>1, SendFrame
    <3>. QED  BY <3>1, TracksApartKept DEF ConnsSettled
  <2>. QED  BY <1>4, <2>1, TracksApartKept DEF InCapture, EndPost, Deliver
<1>5. ASSUME UNCHANGED conn PROVE TracksApart'
  BY <1>5, TracksApartKept
<1>. QED  BY <1>1, <1>2, <1>3, <1>4, <1>5, RequestsApart
          DEF Next, Frame, Tick, Check, vars

LEMMA AlwaysTracksApart == Spec => []TracksApart
<1>1. Init => TracksApart
  BY DEF Init, Closed, TracksApart
<1>2. StreamInv /\ TracksApart /\ [Next]_vars => TracksApart'
  BY TracksApartStep
<1>. QED  BY <1>1, <1>2, AlwaysStreamInv, PTL DEF Spec

\* A stream that a connection refers to is not freed.
LEMMA HeldIsLiving ==
  ASSUME NEW st, NEW L, NEW C, NEW o \in Obj, NEW s \in Sess, C[s].stream = o
  PROVE  LivingStock(st, L, C)[o] = st[o]
BY DEF LivingStock

\* get_stream for r leaves what connection s watches as it is, if s keeps it.
LEMMA GetStreamKeeps ==
  ASSUME StreamInv, NEW r \in Sess, NEW k \in Key, NEW p \in Obj, GetStream(r, k, p),
         NEW s \in Sess, conn[s].stream \in Obj, s # r \/ p = conn[s].stream
  PROVE  stock'[conn[s].stream] = stock[conn[s].stream]
<1> DEFINE o == conn[s].stream
           C == [conn EXCEPT ![r].stream = p]
           st == IF Listed(p) THEN stock ELSE [stock EXCEPT ![p] = Started(k)]
<1>1. stock' = LivingStock(st, list', C)
  BY DEF GetStream
<1>2. C[s].stream = o
  BY Parts DEF ConnType
<1>3. st[o] = stock[o]
  <2>1. Listed(p) \/ p # o
    BY DEF GetStream, Found, Held
  <2>. QED  BY <2>1, Parts
<1> HIDE DEF C, st
<1>. QED  BY <1>1, <1>2, <1>3, HeldIsLiving

\* A request of the connection r, that leaves the stream of s to it.
LEMMA RequestKeeps ==
  ASSUME StreamInv, NEW r \in Sess, Request(r), NEW s \in Sess,
         conn[s].stream \in Obj, conn'[s].stream = conn[s].stream
  PROVE  stock'[conn[s].stream] = stock[conn[s].stream]
<1>1. ASSUME NEW k \in Key, Describe(r, k) PROVE stock'[conn[s].stream] = stock[conn[s].stream]
  <2>1. PICK p \in Obj : GetStream(r, k, p) /\ DescribesConn(r, p)
    BY <1>1 DEF Describe, DescribesConn
  <2>2. conn'[r].stream = p
    BY <2>1, DescribeConn
  <2>. QED  BY <2>1, <2>2, GetStreamKeeps
<1>2. ASSUME NEW k \in Key, NEW t \in Track, Setup(r, k, t)
      PROVE  stock'[conn[s].stream] = stock[conn[s].stream]
  <2>1. PICK p \in Obj : GetStream(r, k, p) /\ conn' = [conn EXCEPT ![r].stream = p]
    BY <1>2, SetupFrame
  <2>2. conn'[r].stream = p
    BY <2>1, Parts DEF ConnType
  <2>. QED  BY <2>1, <2>2, GetStreamKeeps
<1>3. CASE Play(r) \/ Teardown(r)
  BY <1>3 DEF Play, Teardown
<1>. QED  BY <1>1, <1>2, <1>3 DEF Request

\* del_stream only stops and erases: the observers of a stream that a
\* connection keeps stay.
LEMMA DelStreamKeeps ==
  ASSUME StreamInv, NEW k, DelStream(k), NEW s \in Sess, NEW o \in Obj,
         conn'[s].stream = o
  PROVE  stock'[o].obs = stock[o].obs
<1>1. CASE stock' = LivingStock(stock, list', conn')
  BY <1>1 DEF LivingStock
<1>2. ASSUME NEW i \in DOMAIN list,
             stock' = LivingStock([stock EXCEPT ![list[i]].on = FALSE], list', conn')
      PROVE  stock'[o].obs = stock[o].obs
  <2> DEFINE st == [stock EXCEPT ![list[i]].on = FALSE]
  <2>1. st[o].obs = stock[o].obs
    BY Parts DEF StockType
  <2>2. stock' = LivingStock(st, list', conn')
    BY <1>2
  <2> HIDE DEF st
  <2>. QED  BY <2>1, <2>2 DEF LivingStock
<1>. QED  BY <1>1, <1>2 DEF DelStream

\* Unregistering takes one handler away, that of a track the connection drops
\* with it.
LEMMA UnregisterKeeps ==
  ASSUME StreamInv, TracksApart, Unregister, NEW s \in Sess, conn[s].stream \in Obj,
         NEW h \in Mine(s) \cap Mine(s)', h \in stock[conn[s].stream].obs
  PROVE  h \in stock'[conn[s].stream].obs
<1> DEFINE r == srv.sess
           f == conn[r].handler
           g == f[srv.track]
<1>1. /\ r \in Sess /\ srv.track \in Track /\ g \in Handler
      /\ stock'[conn[r].stream].obs = stock[conn[r].stream].obs \ {g}
      /\ \A p \in Obj : p # conn[r].stream => stock'[p] = stock[p]
      /\ conn'[r].handler = [f EXCEPT ![srv.track] = NoHandler]
  BY UnregisterFacts
<1>2. f \in [Track -> Handler \cup {NoHandler}]
  BY <1>1, ConnFields
<1>3. g # NoHandler
  BY <1>1, RtspAssumption
<1>4. h # g
  <2>1. CASE s = r
    <3>1. PICK t \in Track : h = conn'[r].handler[t] /\ h # NoHandler
      BY <2>1 DEF Mine
    <3>2. t # srv.track /\ h = f[t]
      BY <3>1, <1>1, <1>2
    <3>. QED  BY <3>2, <1>1, <1>3 DEF TracksApart
  <2>2. CASE s # r
    <3>1. hdl[g].owner = r
      BY <1>1, <1>3 DEF StreamInv, HandlersOwned
    <3>2. hdl[h].owner = s
      BY DEF StreamInv, HandlersOwned, Mine
    <3>. QED  BY <2>2, <3>1, <3>2
  <2>. QED  BY <2>1, <2>2
<1>. QED  BY <1>1, <1>4

\* A handler that a connection keeps, on a stream it keeps, stays registered
\* there whatever the other connections, the frames and the checker do.
THEOREM ViewersStay == Spec => ViewersStayRegistered
<1>1. ASSUME StreamInv, TracksApart, [Next]_vars, NEW s \in Sess,
             conn[s].stream # NoObj, conn'[s].stream = conn[s].stream,
             NEW h \in Mine(s) \cap Mine(s)', h \in stock[conn[s].stream].obs
      PROVE  h \in stock'[conn[s].stream].obs
  <2>1. conn[s].stream \in Obj
    BY <1>1, ConnFields
  <2>2. ASSUME NEW r \in Sess, Request(r) PROVE h \in stock'[conn[s].stream].obs
    BY <1>1, <2>1, <2>2, RequestKeeps
  <2>3. CASE InServer
    <3>1. CASE Register
      <4>1. srv.sess \in Sess /\ srv.track \in Track /\ conn[srv.sess].stream \in Obj
            /\ \/ UNCHANGED stock
               \/ \E g \in Handler : Unused(g) /\ RegistersHandler(g)
        BY <1>1, <3>1, RegisterFrame
      <4>2. ASSUME NEW g \in Handler, Unused(g), RegistersHandler(g)
            PROVE  h \in stock'[conn[s].stream].obs
        BY <1>1, <2>1, <4>1, <4>2, RegisterFacts DEF Registers
      <4>. QED  BY <1>1, <4>1, <4>2
    <3>2. CASE Unregister
      BY <1>1, <2>1, <3>2, UnregisterKeeps
    <3>3. CASE StopPlayDelStream
      <4>1. \E k : DelStream(k)
        BY <3>3 DEF StopPlayDelStream
      <4>. QED  BY <1>1, <2>1, <4>1, DelStreamKeeps
    <3>4. CASE StopHandler \/ Gone
      BY <1>1, <3>4 DEF StopHandler, Gone
    <3>. QED  BY <2>3, <3>1, <3>2, <3>3, <3>4 DEF InServer
  <2>4. ASSUME NEW k \in Key, Frame(k) PROVE h \in stock'[conn[s].stream].obs
    <3>1. PICK o \in Obj : stock' = [stock EXCEPT ![o].age = 0]
      BY <2>4 DEF Frame
    <3>2. \A p \in Obj : stock'[p].obs = stock[p].obs
      BY <1>1, <3>1, Parts DEF StockType
    <3>. QED  BY <1>1, <2>1, <3>2
  <2>5. CASE Tick
    <3>1. \A p \in Obj : stock'[p] \in {stock[p], [stock[p] EXCEPT !.age = @ + 1]}
      BY <2>5 DEF Tick
    <3>2. stock[conn[s].stream] \in StockType
      BY <1>1, <2>1, Parts
    <3>. QED  BY <1>1, <2>1, <3>1, <3>2 DEF StockType
  <2>6. CASE Check
    <3>1. stock' = LivingStock(stock, list', conn)
      BY <2>6 DEF Check
    <3>. QED  BY <1>1, <2>1, <3>1, HeldIsLiving
  <2>7. ASSUME UNCHANGED stock PROVE h \in stock'[conn[s].stream].obs
    BY <1>1, <2>7
  <2>. QED
    BY <1>1, <2>2, <2>3, <2>4, <2>5, <2>6, <2>7
    DEF Next, Accept, CloseSession, InCapture, Send, EndPost, Deliver, vars
<1>2. StreamInv /\ TracksApart /\ [Next]_vars
        => [\A s \in Sess : conn[s].stream # NoObj /\ conn'[s].stream = conn[s].stream
              => \A h \in Mine(s) \cap Mine(s)' :
                   h \in stock[conn[s].stream].obs => h \in stock'[conn[s].stream].obs]_vars
  BY <1>1
<1>. QED  BY <1>2, AlwaysStreamInv, AlwaysTracksApart, PTL DEF Spec, ViewersStayRegistered

-----------------------------------------------------------------------------
(* With ordered clients.                                                    *)

\* The handler h is one of those of the connection it refers to, and that
\* connection's stream is o.
KnownTo(o, h) ==
  /\ hdl[h].owner \in Sess
  /\ \E t \in Track : conn[hdl[h].owner].handler[t] = h
  /\ conn[hdl[h].owner].stream = o

AllKnown ==
  \A o \in Obj : Listed(o) => \A h \in Handler : h \in stock[o].obs => KnownTo(o, h)

LEMMA Behind ==
  StreamInv => (NothingLeftBehind <=> \A o \in Obj : Listed(o) =>
                  \A h \in Handler : h \in stock[o].obs => KnownTo(o, h))
<1> SUFFICES ASSUME StreamInv
             PROVE  NothingLeftBehind <=> \A o \in Obj : Listed(o) =>
                      \A h \in Handler : h \in stock[o].obs => KnownTo(o, h)
  OBVIOUS
<1>1. NoSess \notin Sess /\ NoHandler \notin Handler
  BY RtspAssumption
<1>2. \A h \in Handler : hdl[h].owner \in Sess \cup {NoSess}
  BY Parts DEF HdlType
<1>3. ASSUME NEW i \in DOMAIN list PROVE list[i] \in Obj /\ stock[list[i]].obs \subseteq Handler
  <2>1. list[i] \in Obj
    BY ListElement DEF StreamInv
  <2>. QED  BY <2>1, Parts DEF StockType
<1>4. ASSUME NothingLeftBehind, NEW o \in Obj, Listed(o), NEW h \in Handler, h \in stock[o].obs
      PROVE  KnownTo(o, h)
  <2>1. PICK i \in DOMAIN list : list[i] = o
    BY <1>4 DEF Listed
  <2>2. hdl[h].owner # NoSess /\ h \in Mine(hdl[h].owner) /\ conn[hdl[h].owner].stream = o
    BY <1>4, <2>1 DEF NothingLeftBehind
  <2>. QED  BY <2>2, <1>2 DEF KnownTo, Mine
<1>5. ASSUME \A o \in Obj : Listed(o) =>
                \A h \in Handler : h \in stock[o].obs => KnownTo(o, h)
      PROVE  NothingLeftBehind
  <2> SUFFICES ASSUME NEW i \in DOMAIN list, NEW h \in stock[list[i]].obs
               PROVE  /\ hdl[h].owner # NoSess /\ h \in Mine(hdl[h].owner)
                      /\ conn[hdl[h].owner].stream = list[i]
    BY DEF NothingLeftBehind
  <2>1. list[i] \in Obj /\ Listed(list[i]) /\ h \in Handler
    BY <1>3 DEF Listed
  <2>2. KnownTo(list[i], h)
    BY <2>1, <1>5
  <2>. QED  BY <2>1, <2>2, <1>1 DEF KnownTo, Mine
<1>. QED  BY <1>4, <1>5

LEMMA BehindNext ==
  StreamInv' => (NothingLeftBehind' <=> \A o \in Obj : Listed(o)' =>
                  \A h \in Handler : h \in stock'[o].obs => KnownTo(o, h)')
<1>1. StreamInv => (NothingLeftBehind <=> AllKnown)
  BY Behind DEF AllKnown
<1>2. StreamInv' => (NothingLeftBehind' <=> AllKnown')
  BY <1>1, PTL
<1>. QED  BY <1>2 DEF AllKnown

\* A handler is still known if neither it nor its connection changed.
LEMMA StillKnown ==
  ASSUME NEW o, NEW h, KnownTo(o, h), hdl'[h].owner = hdl[h].owner,
         conn'[hdl[h].owner].stream = conn[hdl[h].owner].stream,
         conn'[hdl[h].owner].handler = conn[hdl[h].owner].handler
  PROVE  KnownTo(o, h)'
BY DEF KnownTo

\* Steps that register nothing and leave each connection its stream and its
\* handlers.
Unmoved ==
  /\ \A p \in Obj : Listed(p)' => Listed(p) /\ stock'[p].obs \subseteq stock[p].obs
  /\ \A p \in Obj : \A h \in Handler : h \in stock'[p].obs => hdl'[h].owner = hdl[h].owner
  /\ \A s \in Sess : conn'[s].stream = conn[s].stream /\ conn'[s].handler = conn[s].handler

LEMMA UnmovedStep ==
  ASSUME StreamInv, StreamInv', NothingLeftBehind, Unmoved
  PROVE  NothingLeftBehind'
<1> SUFFICES ASSUME NEW o \in Obj, Listed(o)', NEW h \in Handler, h \in stock'[o].obs
             PROVE  KnownTo(o, h)'
  BY BehindNext
<1>1. Listed(o) /\ h \in stock[o].obs
  BY DEF Unmoved
<1>2. KnownTo(o, h)
  BY <1>1, Behind
<1>3. hdl'[h].owner = hdl[h].owner
  BY DEF Unmoved
<1>4. hdl[h].owner \in Sess
  BY <1>2 DEF KnownTo
<1>5. /\ conn'[hdl[h].owner].stream = conn[hdl[h].owner].stream
      /\ conn'[hdl[h].owner].handler = conn[hdl[h].owner].handler
  BY <1>4 DEF Unmoved
<1>. QED  BY <1>2, <1>3, <1>5, StillKnown

\* The connection asks for a stream of the key of its own stream.
SameKey(s, k) == conn[s].stream # NoObj => stock[conn[s].stream].key = k

\* DESCRIBE and SETUP of an ordered client replace m_stream only by itself, or
\* after the checker dropped the stream.
LEMMA StreamFoundOrdered ==
  ASSUME StreamInv, StreamInv', NothingLeftBehind,
         NEW s \in Sess, NEW k \in Key, NEW o \in Obj, GetStream(s, k, o), SameKey(s, k),
         \A r \in Sess : conn'[r].handler = conn[r].handler,
         \A r \in Sess : r # s => conn'[r].stream = conn[r].stream,
         conn'[s].stream = o,
         \A p \in Obj : \A h \in Handler : h \in stock'[p].obs => hdl'[h] = hdl[h]
  PROVE  NothingLeftBehind'
<1> SUFFICES ASSUME NEW p \in Obj, Listed(p)', NEW h \in Handler, h \in stock'[p].obs
             PROVE  KnownTo(p, h)'
  BY BehindNext
<1>1. /\ \A q \in Obj : Listed(q) => Listed(q)' /\ stock'[q] = stock[q]
      /\ \A q \in Obj : Listed(q)' => Listed(q) \/ (q = o /\ stock'[q].obs = {})
      /\ \A q \in Obj : Found(k, q) => q = o
  BY GetStreamFacts DEF StreamInv
<1>2. Listed(p) /\ h \in stock[p].obs
  BY <1>1
<1>3. KnownTo(p, h)
  BY <1>2, Behind
<1>4. PICK r \in Sess : r = hdl[h].owner /\ conn[r].stream = p
  BY <1>3 DEF KnownTo
<1>5. conn'[r].stream = p
  <2>1. CASE r = s
    <3>1. p # NoObj
      BY RtspAssumption
    <3>2. Found(k, p)
      BY <2>1, <3>1, <1>2, <1>4 DEF SameKey, Found
    <3>. QED  BY <2>1, <3>2, <1>1
  <2>2. CASE r # s
    BY <2>2, <1>4
  <2>. QED  BY <2>1, <2>2
<1>6. hdl'[h] = hdl[h]
  OBVIOUS
<1>. QED  BY <1>3, <1>4, <1>5, <1>6, StillKnown

LEMMA DescribeOrdered ==
  ASSUME StreamInv, StreamInv', OrderedInv, Ordered, NEW s \in Sess, NEW k \in Key, Describe(s, k)
  PROVE  OrderedInv'
<1>1. PICK o \in Obj : GetStream(s, k, o) /\ DescribesConn(s, o)
  BY DEF Describe, DescribesConn
<1>2. AtSelect /\ StreamMuFree /\ UNCHANGED <<srv, cap>> /\ SameKey(s, k)
  BY DEF Describe, MayDescribe, SameKey
<1>3. /\ conn' \in [Sess -> ConnType]
      /\ \A r \in Sess : conn'[r].handler = conn[r].handler
      /\ \A r \in Sess : r # s => conn'[r] = conn[r]
      /\ conn'[s].stream = o
  BY DescribeConn, <1>1
<1>4. \A p \in Obj : \A h \in Handler : h \in stock'[p].obs => hdl'[h] = hdl[h]
  <2>1. srv' \in SrvType
    BY <1>2, Parts DEF SrvType
  <2>. QED  BY <2>1, <1>1, <1>2, <1>3, StreamFound
<1>5. NothingLeftBehind'
  BY <1>1, <1>2, <1>3, <1>4, StreamFoundOrdered DEF OrderedInv
<1>6. RegistersFresh'
  BY <1>2 DEF RegistersFresh, AtSelect
<1>. QED  BY <1>5, <1>6 DEF OrderedInv

LEMMA SetupOrdered ==
  ASSUME StreamInv, StreamInv', OrderedInv, Ordered,
         NEW s \in Sess, NEW k \in Key, NEW t \in Track, Setup(s, k, t)
  PROVE  OrderedInv'
<1>1. PICK o \in Obj : GetStream(s, k, o) /\ conn' = [conn EXCEPT ![s].stream = o]
  BY SetupFrame
<1>2. /\ AtSelect /\ StreamMuFree /\ UNCHANGED cap /\ srv' \in SrvType
      /\ srv'.pc = "register" /\ srv'.sess = s /\ srv'.track = t /\ MaySetup(s, k, t)
  BY SetupFrame
<1>3. SameKey(s, k) /\ conn[s].handler[t] = NoHandler
  BY <1>2 DEF MaySetup, SameKey
<1>4. /\ conn' \in [Sess -> ConnType]
      /\ \A r \in Sess : conn'[r].handler = conn[r].handler
      /\ \A r \in Sess : r # s => conn'[r].stream = conn[r].stream
      /\ conn'[s].stream = o
  BY <1>1, Parts DEF ConnType
<1>5. \A p \in Obj : \A h \in Handler : h \in stock'[p].obs => hdl'[h] = hdl[h]
  BY <1>1, <1>2, <1>4, StreamFound
<1>6. NothingLeftBehind'
  BY <1>1, <1>3, <1>4, <1>5, StreamFoundOrdered DEF OrderedInv
<1>7. RegistersFresh'
  BY <1>2, <1>3, <1>4 DEF RegistersFresh
<1>. QED  BY <1>6, <1>7 DEF OrderedInv

LEMMA RegisterOrdered ==
  ASSUME StreamInv, StreamInv', OrderedInv, Register
  PROVE  OrderedInv'
<1>1. /\ srv.pc = "register" /\ srv'.pc = "select" /\ UNCHANGED <<list, cap>>
      /\ srv.sess \in Sess /\ conn[srv.sess].stream \in Obj /\ srv.track \in Track
  BY RegisterFrame
<1>2. RegistersFresh'
  BY <1>1 DEF RegistersFresh
<1>3. CASE UNCHANGED <<stock, hdl, conn>>
  <2>1. Unmoved
    BY <1>1, <1>3 DEF Unmoved, Listed
  <2>. QED  BY <1>2, <2>1, UnmovedStep DEF OrderedInv
<1>4. ASSUME NEW h \in Handler, Unused(h), RegistersHandler(h)
      PROVE  NothingLeftBehind'
  <2>1. Registers(h)
    BY <1>1, <1>4, RegisterFacts
  <2>2. PICK s \in Sess : s = srv.sess
    BY <1>1
  <2>3. PICK o \in Obj : o = conn[s].stream
    BY <1>1, <2>2
  <2>4. PICK t \in Track : t = srv.track
    BY <1>1
  <2>5. /\ conn'[s].stream = o
        /\ conn'[s].handler = [conn[s].handler EXCEPT ![t] = h]
        /\ \A r \in Sess : r # s => conn'[r] = conn[r]
        /\ hdl'[h].owner = s
        /\ stock'[o].obs = stock[o].obs \cup {h}
        /\ \A p \in Obj : p # o => stock'[p] = stock[p]
        /\ \A g \in Handler : g # h /\ (\E p \in Obj : g \in stock'[p].obs) => hdl'[g] = hdl[g]
    BY <2>1, <2>2, <2>3, <2>4 DEF Registers
  <2>6. conn[s].handler[t] = NoHandler
    BY <1>1, <2>2, <2>4 DEF OrderedInv, RegistersFresh
  <2> SUFFICES ASSUME NEW p \in Obj, Listed(p)', NEW g \in Handler, g \in stock'[p].obs
               PROVE  KnownTo(p, g)'
    BY BehindNext
  <2>7. CASE g = h
    <3>1. p = o
      BY <2>5, <2>7, <1>4 DEF Unused
    <3>2. conn'[s].handler[t] = h
      BY <2>5, ConnFields
    <3>. QED  BY <2>5, <2>7, <3>1, <3>2 DEF KnownTo
  <2>8. CASE g # h
    <3>1. Listed(p) /\ g \in stock[p].obs
      BY <1>1, <2>5, <2>8 DEF Listed
    <3>2. KnownTo(p, g)
      BY <3>1, Behind DEF OrderedInv
    <3>3. hdl'[g] = hdl[g]
      BY <2>5, <2>8
    <3>4. PICK r \in Sess : r = hdl[g].owner /\ conn[r].stream = p
      BY <3>2 DEF KnownTo
    <3>5. PICK u \in Track : conn[r].handler[u] = g
      BY <3>2, <3>4 DEF KnownTo
    <3>6. conn'[r].stream = p
      BY <2>3, <2>5, <3>4
    <3>7. conn'[r].handler[u] = g
      <4>1. CASE r = s
        <5>1. u # t
          BY <4>1, <3>5, <2>6, RtspAssumption
        <5>. QED  BY <4>1, <5>1, <3>5, <2>5, ConnFields
      <4>2. CASE r # s
        BY <4>2, <2>5, <3>5
      <4>. QED  BY <4>1, <4>2
    <3>. QED  BY <3>3, <3>4, <3>6, <3>7 DEF KnownTo
  <2>. QED  BY <2>7, <2>8
<1>. QED  BY <1>2, <1>3, <1>4, RegisterFrame DEF OrderedInv

LEMMA UnregisterOrdered ==
  ASSUME StreamInv, StreamInv', OrderedInv, Unregister
  PROVE  OrderedInv'
<1>1. PICK s \in Sess : s = srv.sess
  BY UnregisterFacts
<1>2. PICK o \in Obj : o = conn[s].stream
  BY UnregisterFacts, <1>1
<1>3. PICK t \in Track : t = srv.track
  BY UnregisterFacts
<1>4. PICK h \in Handler : h = conn[s].handler[t]
  BY UnregisterFacts, <1>1, <1>3
<1>5. /\ list' = list /\ srv'.pc = "stop_play"
      /\ stock'[o].obs = stock[o].obs \ {h}
      /\ \A p \in Obj : p # o => stock'[p] = stock[p]
  BY UnregisterFacts, <1>1, <1>2, <1>3, <1>4
<1>6. /\ \A r \in Sess : r # s => conn'[r] = conn[r]
      /\ conn'[s].stream = o
      /\ conn'[s].handler = [conn[s].handler EXCEPT ![t] = NoHandler]
  BY UnregisterFacts, <1>1, <1>2, <1>3
<1>7. HandlersKept
  BY UnregisterFacts
<1>8. RegistersFresh'
  BY <1>5 DEF RegistersFresh
<1>9. ASSUME NEW p \in Obj, Listed(p)', NEW g \in Handler, g \in stock'[p].obs
      PROVE  KnownTo(p, g)'
  <2>1. Listed(p) /\ g \in stock[p].obs
    BY <1>5, <1>9 DEF Listed
  <2>2. KnownTo(p, g)
    BY <2>1, Behind DEF OrderedInv
  <2>3. hdl'[g] = hdl[g]
    BY <1>7, <1>9 DEF HandlersKept
  <2>4. PICK r \in Sess : r = hdl[g].owner /\ conn[r].stream = p
    BY <2>2 DEF KnownTo
  <2>5. PICK u \in Track : conn[r].handler[u] = g
    BY <2>2, <2>4 DEF KnownTo
  <2>6. conn'[r].stream = p
    BY <1>2, <1>6, <2>4
  <2>7. conn'[r].handler[u] = g
    <3>1. CASE r = s
      <4>1. p = o
        BY <3>1, <2>4, <1>2
      <4>2. g # h
        BY <4>1, <1>5, <1>9
      <4>3. u # t
        BY <3>1, <4>2, <2>5, <1>4
      <4>. QED  BY <3>1, <4>3, <2>5, <1>6, ConnFields
    <3>2. CASE r # s
      BY <3>2, <1>6, <2>5
    <3>. QED  BY <3>1, <3>2
  <2>. QED  BY <2>3, <2>4, <2>6, <2>7 DEF KnownTo
<1>. QED  BY <1>8, <1>9, BehindNext DEF OrderedInv

LEMMA StopPlayDelStreamOrdered ==
  ASSUME StreamInv, StreamInv', OrderedInv, StopPlayDelStream
  PROVE  OrderedInv'
<1>1. PICK s \in Sess : s = srv.sess
  BY StopPlayFacts
<1>2. /\ Mine(s) = {} /\ srv'.pc # "register"
      /\ \A r \in Sess : r # s => conn'[r] = conn[r]
      /\ HandlersKept
  BY StopPlayFacts, <1>1
<1>3. \A p \in Obj : Listed(p)' => Listed(p) /\ stock'[p] = stock[p]
  <2>1. DelStream(stock[conn[s].stream].key)
    BY StopPlayFacts, <1>1
  <2>. QED  BY <2>1, DelStreamFacts DEF StreamInv
<1>4. RegistersFresh'
  BY <1>2 DEF RegistersFresh
<1>5. ASSUME NEW p \in Obj, Listed(p)', NEW g \in Handler, g \in stock'[p].obs
      PROVE  KnownTo(p, g)'
  <2>1. Listed(p) /\ g \in stock[p].obs
    BY <1>3, <1>5
  <2>2. KnownTo(p, g)
    BY <2>1, Behind DEF OrderedInv
  <2>3. hdl'[g] = hdl[g]
    BY <1>2, <1>5 DEF HandlersKept
  <2>4. hdl[g].owner # s
    BY <2>2, <1>2, RtspAssumption DEF KnownTo, Mine
  <2>5. conn'[hdl[g].owner] = conn[hdl[g].owner]
    BY <2>2, <2>4, <1>2 DEF KnownTo
  <2>. QED  BY <2>2, <2>3, <2>5, StillKnown
<1>. QED  BY <1>4, <1>5, BehindNext DEF OrderedInv

LEMMA GoneOrdered ==
  ASSUME StreamInv, StreamInv', OrderedInv, Gone
  PROVE  OrderedInv'
<1>1. PICK s \in Sess : s = srv.sess
  BY GoneFacts
<1>2. /\ UNCHANGED <<list, stock>> /\ srv'.pc = "select"
      /\ \A t \in Track : conn[s].handler[t] = NoHandler
      /\ \A r \in Sess : r # s => conn'[r] = conn[r]
      /\ \A h \in Handler : hdl[h].owner # s => hdl'[h] = hdl[h]
  BY GoneFacts, <1>1
<1>3. RegistersFresh'
  BY <1>2 DEF RegistersFresh
<1>4. ASSUME NEW p \in Obj, Listed(p)', NEW g \in Handler, g \in stock'[p].obs
      PROVE  KnownTo(p, g)'
  <2>1. Listed(p) /\ g \in stock[p].obs
    BY <1>2, <1>4 DEF Listed
  <2>2. KnownTo(p, g)
    BY <2>1, Behind DEF OrderedInv
  <2>3. hdl[g].owner # s
    BY <2>2, <1>2, RtspAssumption DEF KnownTo
  <2>4. hdl'[g] = hdl[g] /\ conn'[hdl[g].owner] = conn[hdl[g].owner]
    BY <2>2, <2>3, <1>2 DEF KnownTo
  <2>. QED  BY <2>2, <2>4, StillKnown
<1>. QED  BY <1>3, <1>4, BehindNext DEF OrderedInv

\* The other steps move no handler and no stream.
LEMMA OthersOrdered ==
  ASSUME StreamInv, StreamInv', OrderedInv,
         \/ \E s \in Sess : Accept(s) \/ Play(s) \/ Teardown(s) \/ CloseSession(s)
         \/ StopHandler \/ InCapture \/ (\E k \in Key : Frame(k)) \/ Tick \/ Check
         \/ UNCHANGED vars
  PROVE  OrderedInv'
<1>1. CASE \E s \in Sess : Accept(s)
  <2>1. PICK s \in Sess : Accept(s)
    BY <1>1
  <2>2. Unmoved /\ UNCHANGED <<srv, hdl>> /\ \A r \in Sess : conn'[r].handler = conn[r].handler
    BY <2>1, Parts DEF Accept, Unmoved, Listed, ConnType
  <2>. QED  BY <2>1, <2>2, UnmovedStep DEF Accept, AtSelect, OrderedInv, RegistersFresh
<1>2. CASE \E s \in Sess : Play(s)
  <2>1. PICK s \in Sess : Play(s)
    BY <1>2
  <2>2. UNCHANGED <<list, stock, srv>> /\ AtSelect
    BY <2>1 DEF Play
  <2>3. \A h \in Handler : hdl'[h].owner = hdl[h].owner
    BY <2>1, Parts DEF Play, HdlType
  <2>4. \A r \in Sess : conn'[r].stream = conn[r].stream /\ conn'[r].handler = conn[r].handler
    BY <2>1, Parts DEF Play, ConnType
  <2>5. Unmoved
    BY <2>2, <2>3, <2>4 DEF Unmoved, Listed
  <2>. QED  BY <2>2, <2>5, UnmovedStep DEF AtSelect, OrderedInv, RegistersFresh
<1>3. CASE \E s \in Sess : Teardown(s)
  <2>1. PICK s \in Sess : Teardown(s)
    BY <1>3
  <2>2. UNCHANGED <<list, stock, hdl>> /\ srv'.pc # "register"
    BY <2>1 DEF Teardown, AtSelect, IdleSrv
  <2>3. \A r \in Sess : conn'[r].stream = conn[r].stream /\ conn'[r].handler = conn[r].handler
    BY <2>1, TeardownConn
  <2>4. Unmoved
    BY <2>2, <2>3 DEF Unmoved, Listed
  <2>. QED  BY <2>2, <2>4, UnmovedStep DEF OrderedInv, RegistersFresh
<1>4. CASE \E s \in Sess : CloseSession(s)
  <2>1. PICK s \in Sess : CloseSession(s)
    BY <1>4
  <2>2. UNCHANGED <<list, stock, hdl, conn>> /\ srv'.pc # "register"
    BY <2>1 DEF CloseSession, IdleSrv
  <2>3. Unmoved
    BY <2>2 DEF Unmoved, Listed
  <2>. QED  BY <2>2, <2>3, UnmovedStep DEF OrderedInv, RegistersFresh
<1>5. CASE StopHandler
  <2>1. /\ UNCHANGED <<list, stock, conn>> /\ srv'.pc # "register"
        /\ \A h \in Handler : hdl'[h].owner = hdl[h].owner
    BY <1>5, StopHandlerFrame
  <2>2. Unmoved
    BY <2>1 DEF Unmoved, Listed
  <2>. QED  BY <2>1, <2>2, UnmovedStep DEF OrderedInv, RegistersFresh
<1>6. CASE InCapture
  <2>1. CASE Send
    <3>1. /\ UNCHANGED <<list, stock, srv>> /\ ConnsSettled
          /\ \A h \in Handler : hdl'[h].owner = hdl[h].owner
      BY <2>1, SendFrame
    <3>2. Unmoved
      BY <3>1 DEF Unmoved, Listed, ConnsSettled
    <3>3. RegistersFresh'
      BY <3>1, SrvFields DEF OrderedInv, RegistersFresh, ConnsSettled
    <3>. QED  BY <3>2, <3>3, UnmovedStep DEF OrderedInv
  <2>2. CASE EndPost \/ \E h \in Handler : Deliver(h)
    <3>1. UNCHANGED <<list, stock, hdl, conn, srv>>
      BY <2>2 DEF EndPost, Deliver
    <3>2. Unmoved
      BY <3>1 DEF Unmoved, Listed
    <3>. QED  BY <3>1, <3>2, UnmovedStep DEF OrderedInv, RegistersFresh
  <2>. QED  BY <1>6, <2>1, <2>2 DEF InCapture
<1>7. CASE \E k \in Key : Frame(k)
  <2>1. PICK k \in Key, o \in Obj : stock' = [stock EXCEPT ![o].age = 0]
    BY <1>7 DEF Frame
  <2>2. UNCHANGED <<list, hdl, conn, srv>>
    BY <1>7 DEF Frame
  <2>3. \A p \in Obj : stock'[p].obs = stock[p].obs
    BY <2>1, Parts DEF StockType
  <2>4. Unmoved
    BY <2>2, <2>3 DEF Unmoved, Listed
  <2>. QED  BY <2>2, <2>4, UnmovedStep DEF OrderedInv, RegistersFresh
<1>8. CASE Tick
  <2>1. /\ UNCHANGED <<list, hdl, conn, srv>>
        /\ \A p \in Obj : stock'[p] \in {stock[p], [stock[p] EXCEPT !.age = @ + 1]}
    BY <1>8 DEF Tick
  <2>2. \A p \in Obj : stock'[p].obs = stock[p].obs
    BY <2>1, Parts DEF StockType
  <2>3. Unmoved
    BY <2>1, <2>2 DEF Unmoved, Listed
  <2>. QED  BY <2>1, <2>3, UnmovedStep DEF OrderedInv, RegistersFresh
<1>9. CASE Check
  <2>1. UNCHANGED <<conn, srv>> /\ hdl' = LivingHdl(hdl, stock', conn')
    BY <1>9 DEF Check
  <2>2. HandlersKept
    BY <2>1, AfterCleanup DEF StreamInv
  <2>3. \A p \in Obj : Listed(p)' => Listed(p) /\ stock'[p] = stock[p]
    BY <1>9, CheckFacts
  <2>4. Unmoved
    BY <2>1, <2>2, <2>3 DEF Unmoved, HandlersKept
  <2>. QED  BY <2>1, <2>4, UnmovedStep DEF OrderedInv, RegistersFresh
<1>10. CASE UNCHANGED vars
  <2>1. UNCHANGED <<list, stock, hdl, conn, srv>>
    BY <1>10 DEF vars
  <2>2. Unmoved
    BY <2>1 DEF Unmoved, Listed
  <2>. QED  BY <2>1, <2>2, UnmovedStep DEF OrderedInv, RegistersFresh
<1>. QED  BY <1>1, <1>2, <1>3, <1>4, <1>5, <1>6, <1>7, <1>8, <1>9, <1>10

LEMMA OrderedStep ==
  ASSUME Ordered
  PROVE  StreamInv /\ StreamInv' /\ OrderedInv /\ [Next]_vars => OrderedInv'
<1> SUFFICES ASSUME StreamInv, StreamInv', OrderedInv, [Next]_vars PROVE OrderedInv'
  OBVIOUS
<1>1. ASSUME NEW s \in Sess, NEW k \in Key, Describe(s, k) PROVE OrderedInv'
  BY <1>1, DescribeOrdered
<1>2. ASSUME NEW s \in Sess, NEW k \in Key, NEW t \in Track, Setup(s, k, t) PROVE OrderedInv'
  BY <1>2, SetupOrdered
<1>3. CASE Register
  BY <1>3, RegisterOrdered
<1>4. CASE Unregister
  BY <1>4, UnregisterOrdered
<1>5. CASE StopPlayDelStream
  BY <1>5, StopPlayDelStreamOrdered
<1>6. CASE Gone
  BY <1>6, GoneOrdered
<1>. QED  BY <1>1, <1>2, <1>3, <1>4, <1>5, <1>6, OthersOrdered DEF Next, Request, InServer

LEMMA AlwaysOrderedInv ==
  ASSUME Ordered
  PROVE  Spec => []OrderedInv
<1>1. Init => OrderedInv
  BY DEF Init, OrderedInv, RegistersFresh, NothingLeftBehind, IdleSrv
<1>. QED  BY <1>1, OrderedStep, AlwaysStreamInv, PTL DEF Spec

\* With ordered clients, what is registered in a stream of the list is known
\* to its connection, which will unregister it: a stream without viewers can
\* always be deleted.
THEOREM NothingStaysBehind ==
  ASSUME Ordered
  PROVE  Spec => []NothingLeftBehind
<1>1. OrderedInv => NothingLeftBehind
  BY DEF OrderedInv
<1>. QED  BY <1>1, AlwaysOrderedInv, PTL

\* With ordered clients, a handler that the capture thread is calling belongs
\* to a connection that exists: unregister_stream_observer in stop_play waits
\* for the post and leaves nothing that a later frame would call.
THEOREM CallsAreLive ==
  ASSUME Ordered
  PROVE  Spec => []CallsLiveSession
<1>1. StreamInv /\ OrderedInv => CallsLiveSession
  <2> SUFFICES ASSUME StreamInv, OrderedInv, cap.call # NoHandler
               PROVE  hdl[cap.call].owner # NoSess
    BY DEF CallsLiveSession
  <2>1. /\ Listed(cap.obj) /\ cap.obj \in Obj /\ cap.call \in Handler
        /\ cap.call \in stock[cap.obj].obs
    BY Parts DEF StreamInv, PostKeepsStream
  <2>2. KnownTo(cap.obj, cap.call)
    BY <2>1, Behind DEF OrderedInv
  <2>. QED  BY <2>2, RtspAssumption DEF KnownTo
<1>. QED  BY <1>1, AlwaysStreamInv, AlwaysOrderedInv, PTL
=============================================================================
