--------------------------- MODULE WsProxyProofs ---------------------------
(***************************************************************************)
(* One connection of the proxy, for any number of frames and replies.      *)
(* The messages read by the router, on their way to it and queued are one  *)
(* chain: each starts at the unit after the end of the one before it, so   *)
(* that flattening any beginning of the chain gives a beginning of Md's    *)
(* stream.                                                                 *)
(***************************************************************************)
EXTENDS WsProxy, SequenceLemmas, SequenceTheorems

-----------------------------------------------------------------------------
(* Messages that continue each other.                                       *)

\* The last unit of a message.
End(data) == data[1] + Len(data) - 1

\* Where a sequence of messages has got to.
Reached(q) == IF q = <<>> THEN 0 ELSE End(q[Len(q)])

\* The messages of q are runs of units, the first one starts at 1 and every
\* other one where the one before it ended.
Chained(q) ==
  \A i \in 1..Len(q) :
    /\ q[i] # <<>>
    /\ \A k \in 1..Len(q[i]) : q[i][k] = q[i][1] + k - 1
    /\ q[i][1] = (IF i = 1 THEN 0 ELSE End(q[i - 1])) + 1

LEMMA UptoType ==
  ASSUME NEW n \in Nat
  PROVE  /\ Upto(n) \in Seq(Nat)
         /\ Len(Upto(n)) = n
         /\ \A i \in 1..n : Upto(n)[i] = i
BY DEF Upto

LEMMA SameSeq ==
  ASSUME NEW S, NEW p \in Seq(S), NEW T, NEW q \in Seq(T), Len(p) = Len(q),
         \A i \in 1..Len(p) : p[i] = q[i]
  PROVE  p = q
OBVIOUS

LEMMA IsUpto ==
  ASSUME NEW d \in Seq(Nat), \A k \in 1..Len(d) : d[k] = k
  PROVE  d = Upto(Len(d))
BY DEF Upto

LEMMA UptoConcat ==
  ASSUME NEW n \in Nat, NEW d \in Seq(Nat), \A k \in 1..Len(d) : d[k] = n + k
  PROVE  Upto(n) \o d = Upto(n + Len(d))
<1>1. Len(d) \in Nat /\ n + Len(d) \in Nat
  OBVIOUS
<1>2. /\ Upto(n) \o d \in Seq(Nat)
      /\ Len(Upto(n) \o d) = n + Len(d)
      /\ \A j \in 1..n : (Upto(n) \o d)[j] = j
      /\ \A j \in 1..Len(d) : (Upto(n) \o d)[n + j] = n + j
  <2> DEFINE u == Upto(n)
  <2>1. u \in Seq(Nat) /\ Len(u) = n /\ \A i \in 1..n : u[i] = i
    BY UptoType
  <2> HIDE DEF u
  <2>2. /\ u \o d \in Seq(Nat)
        /\ Len(u \o d) = Len(u) + Len(d)
        /\ \A j \in 1..Len(u) : (u \o d)[j] = u[j]
        /\ \A j \in 1..Len(d) : (u \o d)[Len(u) + j] = d[j]
    <3>1. u \in Seq(Nat)
      BY <2>1
    <3> QED
      BY ONLY <3>1, d \in Seq(Nat), Concat
  <2>3. \A j \in 1..Len(d) : (u \o d)[n + j] = n + j
    BY <2>1, <2>2
  <2> QED
    BY <2>1, <2>2, <2>3 DEF u
<1> DEFINE s == Upto(n) \o d
<1> HIDE DEF s
<1>3. ASSUME NEW j \in 1..(n + Len(d))
      PROVE  s[j] = j
  <2>1. CASE j <= n
    BY <1>2, <2>1 DEF s
  <2>2. CASE j > n
    <3>1. j - n \in 1..Len(d) /\ n + (j - n) = j
      BY <1>1, <2>2
    <3> QED
      BY <1>2, <3>1 DEF s
  <2> QED
    BY <2>1, <2>2
<1>4. s = Upto(n + Len(d))
  BY <1>1, <1>2, <1>3, UptoType, SameSeq DEF s
<1> QED
  BY <1>4 DEF s

LEMMA EndType ==
  ASSUME NEW d \in Seq(Nat), d # <<>>
  PROVE  /\ Len(d) \in Nat /\ Len(d) >= 1 /\ d[1] \in Nat
         /\ End(d) \in Nat /\ End(d) = d[1] + Len(d) - 1
BY DEF End

\* Flattened, chained messages are the units from 1 on.
LEMMA ChainFlat ==
  ASSUME NEW q \in Seq(Seq(Nat)), Chained(q)
  PROVE  Reached(q) \in Nat /\ FlattenSeq(q) = Upto(Reached(q))
<1>1. CASE q = <<>>
  BY <1>1 DEF FlattenSeq, Upto, Reached
<1>2. CASE q # <<>>
  <2> DEFINE f == [i \in 1..Len(q) |-> Upto(End(q[i]))]
  <2>1. \A i \in 1..Len(q) : q[i] \in Seq(Nat) /\ q[i] # <<>> /\ End(q[i]) \in Nat
    BY EndType DEF Chained
  <2>2. ASSUME NEW i \in 1..Len(q)
        PROVE  f[i] = IF i = 1 THEN q[i] ELSE f[i - 1] \o q[i]
    <3>1. /\ q[i] \in Seq(Nat) /\ Len(q[i]) \in Nat /\ Len(q[i]) >= 1 /\ q[i][1] \in Nat
          /\ End(q[i]) = q[i][1] + Len(q[i]) - 1
      BY <2>1, EndType
    <3>2. CASE i = 1
      <4>1. q[i][1] = 1
        BY <3>2 DEF Chained
      <4>2. End(q[i]) = Len(q[i])
        BY <3>1, <4>1
      <4>3. \A k \in 1..Len(q[i]) : q[i][k] = k
        BY <3>1, <4>1 DEF Chained
      <4>4. q[i] = Upto(Len(q[i]))
        BY ONLY <3>1, <4>3, IsUpto
      <4> QED
        BY <3>2, <4>2, <4>4
    <3>3. CASE i # 1
      <4>1. i - 1 \in 1..Len(q)
        BY <3>3
      <4> DEFINE n == End(q[i - 1])
      <4>2. n \in Nat /\ q[i][1] = n + 1
        BY <2>1, <3>3, <4>1 DEF Chained
      <4> HIDE DEF n
      <4>3. \A k \in 1..Len(q[i]) : q[i][k] = n + k
        BY <3>1, <4>2 DEF Chained
      <4>4. Upto(n) \o q[i] = Upto(n + Len(q[i]))
        BY <3>1, <4>2, <4>3, UptoConcat
      <4>5. End(q[i]) = n + Len(q[i])
        <5>1. \A e, a, l \in Nat : e = a + l - 1 /\ a = n + 1 => e = n + l
          BY <4>2
        <5>2. End(q[i]) \in Nat
          BY <2>1
        <5> QED
          BY <3>1, <4>2, <5>1, <5>2
      <4>6. f[i] = Upto(End(q[i])) /\ f[i - 1] = Upto(n)
        BY <4>1 DEF n
      <4> QED
        BY <3>3, <4>4, <4>5, <4>6
    <3> QED
      BY <3>2, <3>3
  <2>3. Flattens(q, f)
    <3>1. [i \in 1..Len(q) |-> f[i]] = [i \in 1..Len(q) |-> IF i = 1 THEN q[i] ELSE f[i - 1] \o q[i]]
      BY <2>2
    <3>2. f = [i \in 1..Len(q) |-> f[i]]
      OBVIOUS
    <3> HIDE DEF f
    <3> QED
      BY <3>1, <3>2 DEF Flattens
  <2>4. Len(q) \in 1..Len(q)
    BY <1>2
  <2>5. f[Len(q)] = Upto(End(q[Len(q)]))
    BY <2>4
  <2> HIDE DEF f
  <2> QED
    BY <1>2, <2>1, <2>3, <2>4, <2>5, FlattenBy DEF Reached
<1> QED
  BY <1>1, <1>2

LEMMA ChainAppend ==
  ASSUME NEW q \in Seq(Seq(Nat)), Chained(q), NEW d \in Seq(Nat), d # <<>>,
         \A k \in 1..Len(d) : d[k] = Reached(q) + k
  PROVE  Chained(Append(q, d)) /\ Reached(Append(q, d)) = Reached(q) + Len(d)
<1> DEFINE r == Append(q, d)
<1>1. /\ r \in Seq(Seq(Nat)) /\ Len(q) \in Nat /\ Len(r) = Len(q) + 1
      /\ \A i \in 1..Len(q) : r[i] = q[i]
      /\ r[Len(q) + 1] = d
  OBVIOUS
<1> HIDE DEF r
<1>2. Reached(q) \in Nat
  BY ChainFlat
<1>3. Len(d) \in Nat /\ 1 \in 1..Len(d) /\ d[1] = Reached(q) + 1
  BY EndType, <1>2
<1>4. \A k \in 1..Len(d) : d[k] = d[1] + k - 1
  BY <1>2, <1>3
<1>5. d[1] = (IF Len(q) + 1 = 1 THEN 0 ELSE End(r[Len(q) + 1 - 1])) + 1
  <2>1. CASE q = <<>>
    BY <1>3, <2>1 DEF Reached
  <2>2. CASE q # <<>>
    <3>1. Len(q) + 1 # 1 /\ Len(q) + 1 - 1 = Len(q) /\ Len(q) \in 1..Len(q)
      BY <1>1, <2>2
    <3> QED
      BY <1>1, <1>3, <2>2, <3>1 DEF Reached
  <2> QED
    BY <2>1, <2>2
<1>6. Chained(r)
  <2>1. ASSUME NEW i \in 1..Len(q)
        PROVE  /\ r[i] # <<>>
               /\ \A k \in 1..Len(r[i]) : r[i][k] = r[i][1] + k - 1
               /\ r[i][1] = (IF i = 1 THEN 0 ELSE End(r[i - 1])) + 1
    <3>1. i # 1 => i - 1 \in 1..Len(q)
      BY <1>1
    <3>2. i # 1 => r[i - 1] = q[i - 1]
      BY <1>1, <3>1
    <3>3. r[i] = q[i]
      BY <1>1
    <3>4. /\ q[i] # <<>>
          /\ \A k \in 1..Len(q[i]) : q[i][k] = q[i][1] + k - 1
          /\ q[i][1] = (IF i = 1 THEN 0 ELSE End(q[i - 1])) + 1
      BY DEF Chained
    <3> QED
      BY ONLY <3>2, <3>3, <3>4
  <2>2. \A i \in 1..Len(r) : i \in 1..Len(q) \/ i = Len(q) + 1
    BY <1>1
  <2>3. ASSUME NEW i, i = Len(q) + 1
        PROVE  /\ r[i] # <<>>
               /\ \A k \in 1..Len(r[i]) : r[i][k] = r[i][1] + k - 1
               /\ r[i][1] = (IF i = 1 THEN 0 ELSE End(r[i - 1])) + 1
    <3>1. r[i] = d
      BY <1>1, <2>3
    <3>2. d[1] = (IF i = 1 THEN 0 ELSE End(r[i - 1])) + 1
      BY <1>5, <2>3
    <3> QED
      BY <1>4, <3>1, <3>2
  <2> QED
    BY ONLY <2>1, <2>2, <2>3 DEF Chained
<1>7. Reached(r) = Reached(q) + Len(d)
  <2>1. r # <<>> /\ r[Len(r)] = d
    BY <1>1
  <2> QED
    BY <1>2, <1>3, <2>1 DEF Reached, End
<1> QED
  BY <1>6, <1>7 DEF r

\* A beginning of a chain is a chain.
LEMMA ChainFront ==
  ASSUME NEW p \in Seq(Seq(Nat)), NEW q \in Seq(Seq(Nat)), Chained(p \o q)
  PROVE  Chained(p)
<1>1. /\ Len(p) \in Nat /\ Len(q) \in Nat /\ Len(p \o q) = Len(p) + Len(q)
      /\ \A j \in 1..Len(p) : (p \o q)[j] = p[j]
  BY Concat
<1>2. ASSUME NEW i \in 1..Len(p)
      PROVE  /\ p[i] # <<>>
             /\ \A k \in 1..Len(p[i]) : p[i][k] = p[i][1] + k - 1
             /\ p[i][1] = (IF i = 1 THEN 0 ELSE End(p[i - 1])) + 1
  <2>1. i \in 1..Len(p \o q) /\ (i # 1 => i - 1 \in 1..Len(p))
    BY <1>1
  <2>2. (p \o q)[i] = p[i] /\ (i # 1 => (p \o q)[i - 1] = p[i - 1])
    BY <1>1, <2>1
  <2> QED
    BY <2>1, <2>2 DEF Chained
<1> QED
  BY <1>2 DEF Chained

-----------------------------------------------------------------------------
(* Types.                                                                   *)

Queues ==
  /\ fromMd \in Seq(Nat) /\ fromRouter \in Seq(Nat)
  /\ toMd \in Seq(Nat) /\ mdGot \in Seq(Nat)
  /\ dataQueue \in Seq(Seq(Nat)) /\ toRouter \in Seq(Seq(Nat))
  /\ routerGot \in Seq(Seq(Nat))

\* What each state of the websocket says about the queues and the connection.
Linked ==
  /\ ws \in {"connecting", "failed"} => toRouter = <<>> /\ routerGot = <<>>
  /\ ws = "open" => wsproxy
  /\ ws = "routerCloses" /\ tcp = "open" => wsproxy
  /\ ws \in {"open", "proxyCloses", "routerCloses"} => dataQueue = <<>>
  /\ ws \in {"proxyCloses", "closed"} => tcp # "open"

\* Md sends whole frames.
Even == \E k \in 0..MaxFrames : sent = 2 * k

Typed == TypeOK /\ Queues /\ Linked /\ Even

LEMMA Taken ==
  ASSUME NEW S, NEW s \in Seq(S), s # <<>>
  PROVE  /\ Tail(s) \in Seq(S) /\ Head(s) \in S
         /\ Len(s) \in Nat /\ Len(s) >= 1 /\ Len(Tail(s)) = Len(s) - 1
         /\ \A i \in 1..Len(Tail(s)) : i + 1 \in 1..Len(s) /\ Tail(s)[i] = s[i + 1]
         /\ Head(s) = s[1]
OBVIOUS

LEMMA Appended ==
  ASSUME NEW S, NEW s \in Seq(S), NEW x \in S
  PROVE  /\ Append(s, x) \in Seq(S)
         /\ Len(Append(s, x)) = Len(s) + 1
         /\ \A i \in 1..Len(s) : Append(s, x)[i] = s[i]
         /\ Append(s, x)[Len(s) + 1] = x
OBVIOUS

\* What is cut off the front, and what is left.
LEMMA CutAt ==
  ASSUME NEW S, NEW s \in Seq(S), NEW n \in DOMAIN s
  PROVE  /\ n \in 1..Len(s) /\ Len(s) \in Nat
         /\ SubSeq(s, 1, n) \in Seq(S) /\ Len(SubSeq(s, 1, n)) = n
         /\ \A i \in 1..n : SubSeq(s, 1, n)[i] = s[i]
         /\ SubSeq(s, n + 1, Len(s)) \in Seq(S) /\ Len(SubSeq(s, n + 1, Len(s))) = Len(s) - n
         /\ \A i \in 1..(Len(s) - n) : SubSeq(s, n + 1, Len(s))[i] = s[n + i]
<1>1. n \in 1..Len(s) /\ Len(s) \in Nat
  OBVIOUS
<1> QED
  BY <1>1

LEMMA TypedInit == Init => Typed
<1> SUFFICES ASSUME Init
             PROVE  Typed
  OBVIOUS
<1>1. TypeOK
  <2>1. 0 \in 0..(2 * MaxFrames) /\ 0 \in 0..MaxReplies
    BY WsProxyAssumption
  <2> QED
    BY <2>1 DEF Init, TypeOK, WsStates
<1>4. Even
  BY WsProxyAssumption DEF Init, Even
<1>2. <<>> \in Seq(Nat) /\ <<>> \in Seq(Seq(Nat))
  BY EmptyInSeq
<1>3. Queues
  BY <1>2 DEF Init, Queues
<1> QED
  BY <1>1, <1>3, <1>4 DEF Init, Typed, Linked

LEMMA TypeOKNext == Typed /\ Next => TypeOK'
<1> SUFFICES ASSUME Typed, Next
             PROVE  TypeOK'
  OBVIOUS
<1> USE WsProxyAssumption DEF Typed, TypeOK, WsStates, tcpVars, downVars, history
<1>1. CASE MdSends
  <2>1. sent' \in 0..(2 * MaxFrames)
    <3>1. PICK k \in 0..MaxFrames : sent = 2 * k
      BY DEF Even
    <3>2. sent' = 2 * (k + 1) /\ k < MaxFrames
      BY <1>1, <3>1 DEF MdSends
    <3> QED
      BY <3>2
  <2> QED
    BY <1>1, <2>1 DEF MdSends
<1>2. CASE MdCloses
  BY <1>2 DEF MdCloses
<1>3. CASE MdReads
  BY <1>3 DEF MdReads
<1>4. CASE DataReceived
  BY <1>4 DEF DataReceived, Waiting
<1>5. CASE Lost /\ broken' \in BOOLEAN
  BY <1>5 DEF Lost
<1>6. CASE OnOpen
  BY <1>6 DEF OnOpen, LeftInQueue
<1>7. CASE OnMessage
  BY <1>7 DEF OnMessage
<1>8. CASE Closed /\ broken' \in BOOLEAN
  BY <1>8 DEF Closed, LoseConnection
<1>9. CASE ConnectFails
  BY <1>9 DEF ConnectFails, Linked
<1>10. CASE RouterReads
  BY <1>10 DEF RouterReads
<1>11. CASE RouterSends
  BY <1>11 DEF RouterSends
<1>12. CASE RouterCloses
  BY <1>12 DEF RouterCloses
<1> QED
  BY <1>1, <1>2, <1>3, <1>4, <1>5, <1>6, <1>7, <1>8, <1>9, <1>10, <1>11, <1>12
     DEF Next, Reactor, Peers, ConnectionLost, ConnectionClosed, ConnectionReset, OnClose, OnCloseUnclean

LEMMA QueuesNext == Typed /\ Next => Queues'
<1> SUFFICES ASSUME Typed, Next
             PROVE  Queues'
  OBVIOUS
<1> USE DEF Typed, TypeOK, Queues, tcpVars, downVars, history
<1>0. <<>> \in Seq(Nat) /\ <<>> \in Seq(Seq(Nat))
  BY EmptyInSeq
<1>1. CASE MdSends
  <2>1. sent \in Nat
    BY WsProxyAssumption
  <2>2. <<sent + 1, sent + 2>> \in Seq(Nat)
    BY <2>1
  <2>3. fromMd' \in Seq(Nat)
    BY <1>1, <2>2, Concat DEF MdSends
  <2> QED
    BY <1>1, <2>3 DEF MdSends
<1>2. CASE MdCloses
  BY <1>2 DEF MdCloses
<1>3. CASE MdReads
  BY <1>3, Taken, Appended DEF MdReads
<1>4. CASE DataReceived
  <2>1. PICK n \in DOMAIN fromMd :
          /\ fromMd' = SubSeq(fromMd, n + 1, Len(fromMd))
          /\ \/ dataQueue' = Append(dataQueue, SubSeq(fromMd, 1, n)) /\ toRouter' = toRouter
             \/ toRouter' \in {toRouter, Append(toRouter, SubSeq(fromMd, 1, n))} /\ dataQueue' = dataQueue
    BY <1>4 DEF DataReceived, SendMessage
  <2>2. fromMd' \in Seq(Nat) /\ SubSeq(fromMd, 1, n) \in Seq(Nat)
    BY <2>1, CutAt
  <2>3. /\ Append(dataQueue, SubSeq(fromMd, 1, n)) \in Seq(Seq(Nat))
        /\ Append(toRouter, SubSeq(fromMd, 1, n)) \in Seq(Seq(Nat))
    BY <2>2, Appended
  <2>4. dataQueue' \in Seq(Seq(Nat)) /\ toRouter' \in Seq(Seq(Nat))
    BY <2>1, <2>3
  <2> QED
    BY <1>4, <2>2, <2>4 DEF DataReceived
<1>5. CASE Lost /\ fromMd' \in {fromMd, <<>>} /\ toMd' = <<>>
  BY <1>0, <1>5 DEF Lost
<1>6. CASE OnOpen
  BY <1>0, <1>6, Concat DEF OnOpen, Flushed, LeftInQueue
<1>7. CASE OnMessage
  <2>1. Tail(fromRouter) \in Seq(Nat) /\ Append(toMd, Head(fromRouter)) \in Seq(Nat)
    BY <1>7, Taken, Appended DEF OnMessage
  <2> QED
    BY <1>7, <2>1 DEF OnMessage
<1>8. CASE Closed
  BY <1>0, <1>8 DEF Closed, LoseConnection
<1>9. CASE ConnectFails
  BY <1>9 DEF ConnectFails
<1>10. CASE RouterReads
  <2>1. toRouter # <<>>
    BY <1>10 DEF RouterReads
  <2>2. Tail(toRouter) \in Seq(Seq(Nat)) /\ Append(routerGot, Head(toRouter)) \in Seq(Seq(Nat))
    BY <2>1, Taken, Appended
  <2> QED
    BY <1>0, <1>10, <2>2 DEF RouterReads
<1>11. CASE RouterSends
  <2>1. replies + 1 \in Nat
    BY WsProxyAssumption
  <2>2. Append(fromRouter, replies + 1) \in Seq(Nat)
    BY <2>1, Appended
  <2> QED
    BY <1>11, <2>2 DEF RouterSends
<1>12. CASE RouterCloses
  BY <1>0, <1>12 DEF RouterCloses
<1> QED
  BY <1>1, <1>2, <1>3, <1>4, <1>5, <1>6, <1>7, <1>8, <1>9, <1>10, <1>11, <1>12
     DEF Next, Reactor, Peers, ConnectionLost, ConnectionClosed, ConnectionReset, OnClose, OnCloseUnclean

LEMMA LinkedNext == Typed /\ Next => Linked' /\ Even'
<1> SUFFICES ASSUME Typed, Next
             PROVE  Linked' /\ Even'
  OBVIOUS
<1>0. TypeOK /\ Linked /\ Even
  BY DEF Typed
<1>1. Even'
  <2>1. CASE MdSends
    <3>1. PICK k \in 0..MaxFrames : sent = 2 * k
      BY <1>0 DEF Even
    <3>2. sent' = 2 * (k + 1) /\ k + 1 \in 0..MaxFrames
      BY <2>1, <3>1, WsProxyAssumption DEF MdSends
    <3> QED
      BY <3>2 DEF Even
  <2>2. CASE sent' = sent
    BY <1>0, <2>2 DEF Even
  <2> QED
    BY <2>1, <2>2
       DEF Next, Reactor, Peers, ConnectionLost, ConnectionClosed, ConnectionReset, OnClose,
           OnCloseUnclean, Lost, Closed, MdCloses, MdReads, DataReceived, OnOpen, OnMessage,
           ConnectFails, RouterReads, RouterSends, RouterCloses, tcpVars, downVars
<1> USE <1>0, <1>1 DEF TypeOK, WsStates, Linked, tcpVars, downVars, history
<1>2. CASE UNCHANGED <<toRouter, routerGot, dataQueue, ws, tcp, wsproxy>>
  BY <1>2
<1>3. CASE DataReceived
  BY <1>3 DEF DataReceived, Waiting, SendMessage
<1>4. CASE Lost
  BY <1>4 DEF Lost
<1>5. CASE OnOpen
  BY <1>5 DEF OnOpen, LeftInQueue
<1>6. CASE Closed
  BY <1>6 DEF Closed, LoseConnection
<1>7. CASE ConnectFails
  BY <1>7 DEF ConnectFails
<1>8. CASE RouterReads
  BY <1>8 DEF RouterReads
<1>9. CASE RouterCloses
  BY <1>9 DEF RouterCloses
<1> QED
  BY <1>2, <1>3, <1>4, <1>5, <1>6, <1>7, <1>8, <1>9
     DEF Next, Reactor, Peers, ConnectionLost, ConnectionClosed, ConnectionReset, OnClose,
         OnCloseUnclean, MdSends, MdCloses, MdReads, OnMessage, RouterSends

LEMMA TypedNext == Typed /\ [Next]_vars => Typed'
<1>1. Typed /\ UNCHANGED vars => Typed'
  BY DEF vars, tcpVars, downVars, history, Typed, TypeOK, Queues, Linked, Even
<1> QED
  BY <1>1, TypeOKNext, QueuesNext, LinkedNext DEF Typed

\* The states of both connections stay in step, and nothing is left in the
\* queue once there is a websocket.
THEOREM TypeCorrect == Spec => []TypeOK
<1>1. Typed => TypeOK
  BY DEF Typed
<1> QED
  BY <1>1, TypedInit, TypedNext, PTL DEF Spec

-----------------------------------------------------------------------------
(* From Md to the router.                                                   *)

\* All messages made of Md's stream: read, on their way and queued.
Messages == routerGot \o toRouter \o dataQueue

\* Md's stream still goes into Messages.
Flows == tcp = "open" /\ ws \in {"connecting", "open", "failed"}

UpInOrder ==
  /\ Chained(Messages)
  /\ \A i \in 1..Len(Messages) : End(Messages[i]) <= sent
  /\ Flows => /\ \A k \in 1..Len(fromMd) : fromMd[k] = Reached(Messages) + k
              /\ Reached(Messages) + Len(fromMd) = sent

LEMMA AppendLast ==
  ASSUME NEW S, NEW p \in Seq(S), NEW q \in Seq(S), NEW x \in S
  PROVE  p \o Append(q, x) = Append(p \o q, x)
<1>1. <<x>> \in Seq(S) /\ p \o q \in Seq(S)
  BY Concat
<1> QED
  BY <1>1, AppendIsConcat, ConcatAssociative

LEMMA ConcatThree ==
  ASSUME NEW S, NEW p \in Seq(S), NEW q \in Seq(S), NEW t \in Seq(S)
  PROVE  p \o q \o t = p \o (q \o t) /\ q \o t \in Seq(S)
BY ConcatAssociative, Concat

LEMMA MovedOn ==
  ASSUME NEW S, NEW p \in Seq(S), NEW q \in Seq(S), q # <<>>
  PROVE  Append(p, Head(q)) \o Tail(q) = p \o q
<1>1. Head(q) \in S /\ Tail(q) \in Seq(S)
  BY Taken
<1>2. <<Head(q)>> \in Seq(S)
  BY <1>1
<1>3. <<Head(q)>> \o Tail(q) = q
  OBVIOUS
<1> QED
  BY <1>1, <1>2, <1>3, AppendIsConcat, ConcatAssociative

LEMMA MessagesType ==
  ASSUME Queues
  PROVE  /\ Messages \in Seq(Seq(Nat))
         /\ routerGot \o toRouter \in Seq(Seq(Nat))
         /\ toRouter = <<>> => Messages = routerGot \o dataQueue
         /\ dataQueue = <<>> => Messages = routerGot \o toRouter
<1>1. routerGot \in Seq(Seq(Nat)) /\ toRouter \in Seq(Seq(Nat)) /\ dataQueue \in Seq(Seq(Nat))
  BY DEF Queues
<1>2. routerGot \o toRouter \in Seq(Seq(Nat))
  BY <1>1, Concat
<1>3. Messages \in Seq(Seq(Nat))
  BY <1>1, <1>2, Concat DEF Messages
<1> QED
  BY <1>1, <1>2, <1>3, ConcatEmptySeq DEF Messages

\* Messages that stay as they are, or lose their end.
LEMMA SameMessages ==
  ASSUME Typed, UpInOrder, Messages' = Messages, sent' = sent, Flows' => Flows /\ fromMd' = fromMd
  PROVE  UpInOrder'
<1>1. ASSUME NEW q, q = Messages, Messages' = q
      PROVE  UpInOrder'
  BY <1>1 DEF UpInOrder
<1> QED
  BY <1>1

LEMMA FewerMessages ==
  ASSUME Typed, UpInOrder, NEW p \in Seq(Seq(Nat)), NEW q \in Seq(Seq(Nat)),
         Messages = p \o q, Messages' = p, sent' = sent, ~Flows'
  PROVE  UpInOrder'
<1>1. Chained(p)
  BY ChainFront DEF UpInOrder
<1>2. /\ Len(p) \in Nat /\ Len(q) \in Nat /\ Len(p \o q) = Len(p) + Len(q)
      /\ \A j \in 1..Len(p) : (p \o q)[j] = p[j]
  BY Concat
<1>3. \A i \in 1..Len(p) : i \in 1..Len(Messages) /\ p[i] = Messages[i]
  BY <1>2
<1>4. \A i \in 1..Len(p) : End(p[i]) <= sent
  BY <1>3 DEF UpInOrder
<1> QED
  BY <1>1, <1>4 DEF UpInOrder

\* One more message, made of the first n units on their way.
LEMMA OneMoreMessage ==
  ASSUME Typed, UpInOrder, Flows, NEW n \in DOMAIN fromMd, sent' = sent,
         Messages' = Append(Messages, SubSeq(fromMd, 1, n)),
         fromMd' = SubSeq(fromMd, n + 1, Len(fromMd))
  PROVE  UpInOrder'
<1> DEFINE q == Messages
           d == SubSeq(fromMd, 1, n)
           rest == SubSeq(fromMd, n + 1, Len(fromMd))
<1>1. q \in Seq(Seq(Nat)) /\ fromMd \in Seq(Nat) /\ sent \in Nat
  BY MessagesType, WsProxyAssumption DEF Typed, TypeOK, Queues
<1>2. /\ Chained(q)
      /\ \A i \in 1..Len(q) : End(q[i]) <= sent
      /\ \A k \in 1..Len(fromMd) : fromMd[k] = Reached(q) + k
      /\ Reached(q) + Len(fromMd) = sent
  BY DEF UpInOrder
<1>3. /\ n \in 1..Len(fromMd) /\ Len(fromMd) \in Nat
      /\ d \in Seq(Nat) /\ Len(d) = n /\ \A i \in 1..n : d[i] = fromMd[i]
      /\ Len(rest) = Len(fromMd) - n
      /\ \A i \in 1..(Len(fromMd) - n) : rest[i] = fromMd[n + i]
  <2>1. n \in 1..Len(fromMd) /\ Len(fromMd) \in Nat
    BY <1>1
  <2>2. d \in Seq(Nat) /\ Len(d) = n /\ \A i \in 1..n : d[i] = fromMd[i]
    BY <1>1, <2>1
  <2>3. /\ Len(rest) = Len(fromMd) - n
        /\ \A i \in 1..(Len(fromMd) - n) : rest[i] = fromMd[n + i]
    <3>1. fromMd \in Seq(Nat)
      BY <1>1
    <3> QED
      BY ONLY <2>1, <3>1, SMTT(30) DEF rest
  <2> QED
    BY <2>1, <2>2, <2>3
<1>4. Messages' = Append(q, d) /\ fromMd' = rest
  OBVIOUS
<1> HIDE DEF q, d, rest
<1>5. Reached(q) \in Nat
  BY <1>1, <1>2, ChainFlat
<1>6. d # <<>> /\ \A k \in 1..Len(d) : d[k] = Reached(q) + k
  <2>1. d # <<>> /\ \A k \in 1..n : k \in 1..Len(fromMd)
    BY <1>3
  <2> QED
    BY <1>2, <1>3, <2>1
<1>7. Chained(Append(q, d)) /\ Reached(Append(q, d)) = Reached(q) + n
  BY <1>1, <1>2, <1>3, <1>6, ChainAppend
<1>8. /\ Len(q) \in Nat /\ Len(Append(q, d)) = Len(q) + 1
      /\ \A i \in 1..Len(q) : Append(q, d)[i] = q[i]
      /\ Append(q, d)[Len(q) + 1] = d
  BY <1>1, <1>3
<1>9. End(d) <= sent
  <2>1. End(d) = d[1] + Len(d) - 1 /\ d[1] = Reached(q) + 1
    <3>1. 1 \in 1..Len(d)
      BY <1>3
    <3> QED
      BY <1>3, <1>5, <1>6, <3>1 DEF End
  <2> QED
    BY <1>1, <1>2, <1>3, <1>5, <2>1
<1>10. \A i \in 1..Len(Append(q, d)) : End(Append(q, d)[i]) <= sent
  <2> SUFFICES ASSUME NEW i \in 1..Len(Append(q, d))
               PROVE  End(Append(q, d)[i]) <= sent
    OBVIOUS
  <2>1. i \in 1..Len(q) \/ i = Len(q) + 1
    BY <1>8
  <2> QED
    BY <1>2, <1>8, <1>9, <2>1
<1>11. /\ \A k \in 1..Len(rest) : rest[k] = Reached(q) + n + k
       /\ Reached(q) + n + Len(rest) = sent
  <2>1. \A k \in 1..Len(rest) : n + k \in 1..Len(fromMd) /\ rest[k] = fromMd[n + k]
    BY <1>3
  <2>2. \A k \in 1..Len(rest) : rest[k] = Reached(q) + (n + k)
    BY <1>2, <2>1
  <2>3. /\ n \in Nat /\ Len(fromMd) \in Nat /\ Len(rest) = Len(fromMd) - n
        /\ Reached(q) + Len(fromMd) = sent
    BY <1>2, <1>3
  <2>4. \A k \in 1..Len(rest) : Reached(q) + (n + k) = Reached(q) + n + k
    BY ONLY <1>5, <2>3
  <2>5. Reached(q) + n + Len(rest) = sent
    BY ONLY <1>5, <2>3
  <2> QED
    BY ONLY <2>2, <2>4, <2>5
<1> QED
  BY <1>4, <1>7, <1>10, <1>11 DEF UpInOrder

LEMMA UpInit == Init => UpInOrder
<1> SUFFICES ASSUME Init
             PROVE  UpInOrder
  OBVIOUS
<1>1. <<>> \in Seq(Nat) /\ <<>> \in Seq(Seq(Nat))
  BY EmptyInSeq
<1>2. Messages = <<>> /\ fromMd = <<>> /\ sent = 0
  BY <1>1, ConcatEmptySeq DEF Init, Messages
<1>3. Len(<<>>) = 0
  OBVIOUS
<1> QED
  BY <1>2, <1>3 DEF UpInOrder, Chained, Reached

LEMMA UpMdSends == Typed /\ UpInOrder /\ MdSends => UpInOrder'
<1> SUFFICES ASSUME Typed, UpInOrder, MdSends
             PROVE  UpInOrder'
  OBVIOUS
<1> DEFINE new == <<sent + 1, sent + 2>>
<1>1. /\ Messages \in Seq(Seq(Nat)) /\ fromMd \in Seq(Nat) /\ sent \in Nat
      /\ Len(fromMd) \in Nat
  BY MessagesType, WsProxyAssumption DEF Typed, TypeOK, Queues
<1>2. new \in Seq(Nat) /\ Len(new) = 2 /\ new[1] = sent + 1 /\ new[2] = sent + 2
  BY <1>1
<1>3. sent' = sent + 2 /\ fromMd' = fromMd \o new /\ UNCHANGED <<tcp, ws, Messages>>
  BY DEF MdSends, Messages
<1> HIDE DEF new
<1>4. /\ Len(fromMd \o new) = Len(fromMd) + 2
      /\ \A j \in 1..Len(fromMd) : (fromMd \o new)[j] = fromMd[j]
      /\ \A j \in 1..2 : (fromMd \o new)[Len(fromMd) + j] = new[j]
  <2>1. fromMd \in Seq(Nat) /\ new \in Seq(Nat)
    BY <1>1, <1>2
  <2>2. /\ Len(fromMd \o new) = Len(fromMd) + Len(new)
        /\ \A j \in 1..Len(fromMd) : (fromMd \o new)[j] = fromMd[j]
        /\ \A j \in 1..Len(new) : (fromMd \o new)[Len(fromMd) + j] = new[j]
    BY ONLY <2>1, Concat
  <2> QED
    BY <1>2, <2>2
<1>5. Reached(Messages) \in Nat
  BY <1>1, ChainFlat DEF UpInOrder
<1>6. ASSUME NEW i \in 1..Len(Messages)
      PROVE  End(Messages[i]) <= sent + 2
  <2>1. Messages[i] \in Seq(Nat) /\ Messages[i] # <<>> /\ End(Messages[i]) <= sent
    BY <1>1 DEF UpInOrder, Chained
  <2>2. End(Messages[i]) \in Nat
    BY <2>1, EndType
  <2> QED
    BY <1>1, <2>1, <2>2
<1>7. ASSUME Flows
      PROVE  /\ \A k \in 1..Len(fromMd \o new) : (fromMd \o new)[k] = Reached(Messages) + k
             /\ Reached(Messages) + Len(fromMd \o new) = sent + 2
  <2> DEFINE r == Reached(Messages)
             l == Len(fromMd)
             all == fromMd \o new
  <2>1. /\ \A k \in 1..l : fromMd[k] = r + k
        /\ r + l = sent /\ r \in Nat /\ l \in Nat
    BY <1>1, <1>5, <1>7 DEF UpInOrder
  <2>2. /\ Len(all) = l + 2 /\ \A j \in 1..l : all[j] = fromMd[j]
        /\ all[l + 1] = sent + 1 /\ all[l + 2] = sent + 2
    BY <1>2, <1>4
  <2> HIDE DEF r, l, all
  <2>3. \A k \in 1..Len(all) : k \in 1..l \/ k = l + 1 \/ k = l + 2
    BY <2>1, <2>2
  <2>4. \A k \in 1..Len(all) : all[k] = r + k
    BY <2>1, <2>2, <2>3
  <2>5. r + Len(all) = sent + 2
    BY <2>1, <2>2
  <2> QED
    BY <2>4, <2>5 DEF r, all
<1>8. ASSUME NEW m, m = Messages, NEW s, s = fromMd \o new,
             Messages' = m, fromMd' = s
      PROVE  UpInOrder'
  <2>1. Flows' => Flows
    BY <1>3 DEF Flows
  <2>2. /\ Chained(m)
        /\ \A i \in 1..Len(m) : End(m[i]) <= sent'
        /\ Flows' => /\ \A k \in 1..Len(s) : s[k] = Reached(m) + k
                     /\ Reached(m) + Len(s) = sent'
    BY <1>3, <1>6, <1>7, <1>8, <2>1 DEF UpInOrder
  <2> QED
    BY ONLY <1>8, <2>2 DEF UpInOrder
<1> QED
  BY <1>3, <1>8

LEMMA UpDataReceived == Typed /\ UpInOrder /\ DataReceived => UpInOrder'
<1> SUFFICES ASSUME Typed, UpInOrder, DataReceived
             PROVE  UpInOrder'
  OBVIOUS
<1>1. PICK n \in DOMAIN fromMd :
        /\ fromMd' = SubSeq(fromMd, n + 1, Len(fromMd))
        /\ IF ~wsproxy
           THEN dataQueue' = Append(dataQueue, SubSeq(fromMd, 1, n)) /\ toRouter' = toRouter
           ELSE /\ toRouter' = IF ws = "open" THEN Append(toRouter, SubSeq(fromMd, 1, n)) ELSE toRouter
                /\ dataQueue' = dataQueue
  BY DEF DataReceived, SendMessage, Waiting
<1>2. UNCHANGED <<sent, tcp, ws, routerGot>> /\ tcp = "open"
  BY DEF DataReceived
<1> DEFINE data == SubSeq(fromMd, 1, n)
<1>3. /\ routerGot \in Seq(Seq(Nat)) /\ toRouter \in Seq(Seq(Nat)) /\ dataQueue \in Seq(Seq(Nat))
      /\ data \in Seq(Nat) /\ routerGot \o toRouter \in Seq(Seq(Nat))
  BY CutAt, MessagesType DEF Typed, Queues
<1>4. data = SubSeq(fromMd, 1, n)
  OBVIOUS
<1> HIDE DEF data
<1>5. CASE ~wsproxy
  <2>1. Flows
    BY <1>2, <1>5 DEF Typed, Linked, Flows, TypeOK, WsStates
  <2>2. Messages' = routerGot \o toRouter \o Append(dataQueue, data)
    BY <1>1, <1>2, <1>4, <1>5 DEF Messages
  <2>3. Messages' = Append(Messages, data)
    BY <1>3, <2>2, AppendLast DEF Messages
  <2> QED
    BY <1>1, <1>2, <1>4, <2>1, <2>3, OneMoreMessage
<1>6. CASE wsproxy /\ ws = "open"
  <2>1. Flows /\ dataQueue = <<>>
    BY <1>2, <1>6 DEF Typed, TypeOK, Flows
  <2>2. routerGot \o Append(toRouter, data) = Append(routerGot \o toRouter, data)
    BY <1>3, AppendLast
  <2>3. Append(routerGot \o toRouter, data) \in Seq(Seq(Nat))
    BY <1>3
  <2>4. Messages' = Append(routerGot \o toRouter, data) \o <<>>
    BY <1>1, <1>2, <1>4, <1>6, <2>1, <2>2 DEF Messages
  <2>5. Messages' = Append(routerGot \o toRouter, data)
    BY <2>3, <2>4, ConcatEmptySeq
  <2>6. Messages = routerGot \o toRouter
    BY <2>1, MessagesType DEF Typed
  <2> QED
    BY <1>1, <1>2, <1>4, <2>1, <2>5, <2>6, OneMoreMessage
<1>7. CASE wsproxy /\ ws # "open"
  <2>1. ~Flows'
    BY <1>2, <1>7 DEF Typed, TypeOK, Flows
  <2>2. Messages' = Messages
    BY <1>1, <1>2, <1>7 DEF Messages
  <2> QED
    BY <1>2, <2>1, <2>2, SameMessages
<1> QED
  BY <1>5, <1>6, <1>7

LEMMA UpRouterReads == Typed /\ UpInOrder /\ RouterReads => UpInOrder'
<1> SUFFICES ASSUME Typed, UpInOrder, RouterReads
             PROVE  UpInOrder'
  OBVIOUS
<1>1. /\ routerGot \in Seq(Seq(Nat)) /\ toRouter \in Seq(Seq(Nat)) /\ dataQueue = <<>>
      /\ toRouter # <<>> /\ UNCHANGED <<sent, fromMd, tcp, dataQueue>>
  BY DEF RouterReads, Typed, Queues, Linked, tcpVars
<1>2. Messages = routerGot \o toRouter
  BY <1>1, MessagesType DEF Typed
<1>3. CASE UNCHANGED ws
  <2>1. routerGot' = Append(routerGot, Head(toRouter)) /\ toRouter' = Tail(toRouter)
    BY <1>3 DEF RouterReads
  <2>2. routerGot' \o toRouter' = routerGot \o toRouter
    BY <1>1, <2>1, MovedOn
  <2>3. Messages' = Messages /\ Flows' = Flows
    BY <1>1, <1>3, <2>2 DEF Messages, Flows
  <2> QED
    BY <1>1, <2>3, SameMessages
<1>4. CASE ws' = "routerCloses" /\ toRouter' = <<>> /\ UNCHANGED routerGot
  <2>1. Messages' = routerGot
    <3>1. Messages' = routerGot \o <<>> \o <<>>
      BY <1>1, <1>4 DEF Messages
    <3> QED
      BY <1>1, <3>1, ConcatEmptySeq
  <2>2. ~Flows'
    BY <1>4 DEF Flows
  <2> QED
    BY <1>1, <1>2, <2>1, <2>2, FewerMessages
<1> QED
  BY <1>3, <1>4 DEF RouterReads

\* What is on its way to the router is lost.
LEMMA UpDropped ==
  ASSUME Typed, UpInOrder, ws # "closed", toRouter' = <<>>, UNCHANGED <<sent, routerGot, dataQueue>>, ~Flows'
  PROVE  UpInOrder'
<1>1. routerGot \in Seq(Seq(Nat)) /\ toRouter \in Seq(Seq(Nat)) /\ dataQueue \in Seq(Seq(Nat))
  BY DEF Typed, Queues
<1>2. Messages' = routerGot \o dataQueue
  <2>1. Messages' = routerGot \o <<>> \o dataQueue
    BY DEF Messages
  <2> QED
    BY <1>1, <2>1, ConcatEmptySeq
<1>3. CASE toRouter = <<>>
  BY <1>2, <1>3, MessagesType, SameMessages DEF Typed
<1>4. CASE dataQueue = <<>>
  BY <1>1, <1>2, <1>4, MessagesType, FewerMessages, ConcatEmptySeq DEF Typed
<1>5. toRouter = <<>> \/ dataQueue = <<>>
  BY DEF Typed, TypeOK, WsStates, Linked
<1> QED
  BY <1>3, <1>4, <1>5
LEMMA UpNext == Typed /\ UpInOrder /\ Next => UpInOrder'
<1> SUFFICES ASSUME Typed, UpInOrder, Next
             PROVE  UpInOrder'
  OBVIOUS
<1> USE DEF tcpVars, downVars
<1>1. CASE UNCHANGED <<Messages, sent, fromMd>> /\ (Flows' => Flows)
  BY <1>1, SameMessages
<1>2. CASE MdCloses \/ MdReads \/ OnMessage \/ RouterSends
  <2>1. UNCHANGED <<Messages, sent, fromMd, Flows>>
    BY <1>2 DEF MdCloses, MdReads, OnMessage, RouterSends, Messages, Flows
  <2> QED
    BY <1>1, <2>1
<1>3. CASE Lost
  <2>1. ~Flows' /\ UNCHANGED <<Messages, sent>>
    BY <1>3 DEF Lost, Flows, Messages
  <2> QED
    BY <2>1, SameMessages
<1>4. CASE OnOpen
  <2>1. /\ toRouter = <<>> /\ toRouter' = toRouter \o dataQueue /\ dataQueue' = <<>>
        /\ UNCHANGED <<routerGot, sent, fromMd, tcp>> /\ ws = "connecting"
    BY <1>4 DEF OnOpen, Flushed, LeftInQueue, Typed, Linked
  <2>2. dataQueue \in Seq(Seq(Nat)) /\ routerGot \in Seq(Seq(Nat))
    BY DEF Typed, Queues
  <2>3. toRouter' = dataQueue
    BY <2>1, <2>2, ConcatEmptySeq
  <2>4. Messages = routerGot \o dataQueue
    BY <2>1, MessagesType DEF Typed
  <2>5. Messages' = routerGot \o dataQueue \o <<>> /\ routerGot \o dataQueue \in Seq(Seq(Nat))
    BY <2>1, <2>2, <2>3, Concat DEF Messages
  <2>6. Messages' = Messages
    BY <2>4, <2>5, ConcatEmptySeq
  <2>7. Flows' => Flows
    BY <2>1 DEF Flows
  <2> QED
    BY <1>1, <2>1, <2>6, <2>7
<1>5. CASE OnClose \/ OnCloseUnclean
  <2>1. /\ ws # "closed" /\ toRouter' = <<>> /\ UNCHANGED <<sent, routerGot, dataQueue>>
        /\ ~Flows'
    BY <1>5 DEF OnClose, OnCloseUnclean, Closed, Flows
  <2> QED
    BY <2>1, UpDropped
<1>6. CASE ConnectFails
  <2>1. UNCHANGED <<Messages, sent, fromMd>> /\ (Flows' => Flows)
    BY <1>6 DEF ConnectFails, Messages, Flows
  <2> QED
    BY <1>1, <2>1
<1>7. CASE RouterCloses
  <2>1. /\ ws # "closed" /\ toRouter' = <<>> /\ UNCHANGED <<sent, routerGot, dataQueue>>
        /\ ~Flows'
    BY <1>7 DEF RouterCloses, Flows
  <2> QED
    BY <2>1, UpDropped
<1> QED
  BY <1>2, <1>3, <1>4, <1>5, <1>6, <1>7, UpMdSends, UpDataReceived, UpRouterReads
     DEF Next, Reactor, Peers, ConnectionLost, ConnectionClosed, ConnectionReset

-----------------------------------------------------------------------------
(* From the router to Md.                                                   *)

\* What the router sends still reaches Md.
Answers == tcp = "open" /\ ws # "closed"

\* Md has read the first replies, the next ones were written to its
\* connection, and those after them are on their way to the proxy.
DownInOrder ==
  /\ \A i \in 1..Len(mdGot) : mdGot[i] = i
  /\ \A i \in 1..Len(toMd) : toMd[i] = Len(mdGot) + i
  /\ Len(mdGot) + Len(toMd) <= replies
  /\ Answers => /\ \A i \in 1..Len(fromRouter) : fromRouter[i] = Len(mdGot) + Len(toMd) + i
                /\ Len(mdGot) + Len(toMd) + Len(fromRouter) = replies

LEMMA DownInit == Init => DownInOrder
BY DEF Init, DownInOrder

\* Every step that takes nothing off a queue leads here.
LEMMA DownSame ==
  ASSUME Typed, DownInOrder, toMd' \in {toMd, <<>>}, UNCHANGED <<mdGot, replies>>,
         Answers' => Answers /\ UNCHANGED <<toMd, fromRouter>>
  PROVE  DownInOrder'
<1>1. Len(mdGot) \in Nat /\ Len(toMd) \in Nat /\ replies \in Nat
  BY WsProxyAssumption DEF Typed, TypeOK, Queues
<1>2. CASE toMd' = toMd
  BY <1>2 DEF DownInOrder
<1>3. CASE toMd' = <<>> /\ ~Answers'
  <2>1. Len(toMd') = 0 /\ Len(mdGot) <= replies
    BY <1>1, <1>3 DEF DownInOrder
  <2> QED
    BY <1>1, <1>3, <2>1 DEF DownInOrder
<1> QED
  BY <1>2, <1>3

LEMMA DownNext == Typed /\ DownInOrder /\ Next => DownInOrder'
<1> SUFFICES ASSUME Typed, DownInOrder, Next
             PROVE  DownInOrder'
  OBVIOUS
<1> USE DEF tcpVars, downVars
<1>0. /\ mdGot \in Seq(Nat) /\ toMd \in Seq(Nat) /\ fromRouter \in Seq(Nat) /\ replies \in Nat
      /\ Len(mdGot) \in Nat /\ Len(toMd) \in Nat /\ Len(fromRouter) \in Nat
  BY WsProxyAssumption DEF Typed, TypeOK, Queues
<1>1. CASE UNCHANGED <<toMd, mdGot, replies, fromRouter>> /\ (Answers' => Answers)
  BY <1>1, DownSame
<1>2. CASE MdSends \/ MdCloses \/ DataReceived \/ OnOpen \/ ConnectFails \/ RouterCloses \/ RouterReads
  <2>1. UNCHANGED <<toMd, mdGot, replies, fromRouter>> /\ (Answers' => Answers)
    BY <1>2 DEF MdSends, MdCloses, DataReceived, OnOpen, ConnectFails, RouterCloses, RouterReads, Answers
  <2> QED
    BY <1>1, <2>1
<1>3. CASE Lost /\ toMd' = <<>>
  BY <1>3, DownSame DEF Lost, Answers
<1>4. CASE OnClose \/ OnCloseUnclean
  BY <1>4, DownSame DEF OnClose, OnCloseUnclean, Closed, LoseConnection, Answers
<1>5. CASE MdReads
  <2> DEFINE m == Append(mdGot, Head(toMd))
             t == Tail(toMd)
  <2>1. toMd # <<>> /\ mdGot' = m /\ toMd' = t /\ UNCHANGED <<replies, fromRouter, Answers>>
    BY <1>5 DEF MdReads, Answers
  <2>2. /\ Head(toMd) = toMd[1] /\ Len(toMd) >= 1 /\ Len(t) = Len(toMd) - 1
        /\ \A i \in 1..Len(t) : i + 1 \in 1..Len(toMd) /\ t[i] = toMd[i + 1]
    <3>1. toMd \in Seq(Nat) /\ toMd # <<>>
      BY <1>0, <2>1
    <3> QED
      BY ONLY <3>1, Taken
  <2>3. /\ Len(m) = Len(mdGot) + 1 /\ \A i \in 1..Len(mdGot) : m[i] = mdGot[i]
        /\ m[Len(mdGot) + 1] = toMd[1]
    <3>1. mdGot \in Seq(Nat) /\ Head(toMd) \in Nat
      BY <1>0, <2>1, Taken
    <3> QED
      BY <2>2, <3>1, Appended
  <2> HIDE DEF m, t
  <2>4. toMd[1] = Len(mdGot) + 1
    BY <1>0, <2>2 DEF DownInOrder
  <2>5. \A i \in 1..Len(m) : m[i] = i
    <3>1. \A i \in 1..Len(m) : i \in 1..Len(mdGot) \/ i = Len(mdGot) + 1
      BY <1>0, <2>3
    <3> QED
      BY <2>3, <2>4, <3>1 DEF DownInOrder
  <2>6. \A i \in 1..Len(t) : t[i] = Len(m) + i
    <3>1. \A i \in 1..Len(t) : t[i] = Len(mdGot) + (i + 1)
      BY <2>2 DEF DownInOrder
    <3> QED
      BY <1>0, <2>3, <3>1
  <2>7. Len(m) + Len(t) = Len(mdGot) + Len(toMd)
    BY <1>0, <2>2, <2>3
  <2> QED
    BY <2>1, <2>5, <2>6, <2>7 DEF DownInOrder
<1>6. CASE OnMessage
  <2> DEFINE f == Tail(fromRouter)
             x == Head(fromRouter)
  <2>1. fromRouter # <<>> /\ fromRouter' = f /\ UNCHANGED <<mdGot, replies, tcp, ws, Answers>>
    BY <1>6 DEF OnMessage, Answers
  <2>2. /\ x = fromRouter[1] /\ Len(fromRouter) >= 1 /\ Len(f) = Len(fromRouter) - 1
        /\ \A i \in 1..Len(f) : i + 1 \in 1..Len(fromRouter) /\ f[i] = fromRouter[i + 1]
        /\ x \in Nat
    <3>1. fromRouter \in Seq(Nat) /\ fromRouter # <<>>
      BY <1>0, <2>1
    <3> QED
      BY ONLY <3>1, Taken
  <2>3. CASE tcp # "open"
    <3>1. toMd' = toMd /\ ~Answers'
      BY <1>6, <2>1, <2>3 DEF OnMessage, Answers
    <3> QED
      BY <2>1, <3>1, DownSame
  <2>4. CASE tcp = "open"
    <3> DEFINE t == Append(toMd, x)
    <3>1. toMd' = t /\ Answers
      BY <1>6, <2>4 DEF OnMessage, Answers
    <3>2. /\ Len(t) = Len(toMd) + 1 /\ \A i \in 1..Len(toMd) : t[i] = toMd[i]
          /\ t[Len(toMd) + 1] = x
      <4>1. toMd \in Seq(Nat) /\ x \in Nat
        BY <1>0, <2>2
      <4> QED
        BY ONLY <4>1, Appended
    <3> HIDE DEF f, x, t
    <3>3. x = Len(mdGot) + Len(toMd) + 1
      BY <1>0, <2>2, <3>1 DEF DownInOrder
    <3>4. \A i \in 1..Len(t) : t[i] = Len(mdGot) + i
      <4>1. \A i \in 1..Len(t) : i \in 1..Len(toMd) \/ i = Len(toMd) + 1
        BY <1>0, <3>2
      <4>2. x = Len(mdGot) + (Len(toMd) + 1)
        BY <1>0, <3>3
      <4> QED
        BY <3>2, <4>1, <4>2 DEF DownInOrder
    <3>5. Len(mdGot) + Len(t) + Len(f) = replies /\ Len(mdGot) + Len(t) <= replies
      <4>1. Len(mdGot) + Len(toMd) + Len(fromRouter) = replies
        BY <3>1 DEF DownInOrder
      <4>2. Len(fromRouter) >= 1 /\ Len(f) = Len(fromRouter) - 1 /\ Len(t) = Len(toMd) + 1
        BY <2>2, <3>2
      <4> QED
        BY <1>0, <4>1, <4>2
    <3>6. \A i \in 1..Len(f) : f[i] = Len(mdGot) + Len(t) + i
      <4>1. \A i \in 1..Len(f) : f[i] = Len(mdGot) + Len(toMd) + (i + 1)
        BY <2>2, <3>1 DEF DownInOrder
      <4> QED
        BY <1>0, <3>2, <4>1
    <3> QED
      BY <2>1, <3>1, <3>4, <3>5, <3>6 DEF DownInOrder
  <2> QED
    BY <2>3, <2>4
<1>7. CASE RouterSends
  <2> DEFINE f == Append(fromRouter, replies + 1)
  <2>1. replies' = replies + 1 /\ fromRouter' = f /\ UNCHANGED <<mdGot, toMd, Answers>>
    BY <1>7 DEF RouterSends, Answers
  <2>2. /\ Len(f) = Len(fromRouter) + 1 /\ \A i \in 1..Len(fromRouter) : f[i] = fromRouter[i]
        /\ f[Len(fromRouter) + 1] = replies + 1
    BY <1>0, Appended
  <2> HIDE DEF f
  <2>3. ASSUME Answers
        PROVE  /\ \A i \in 1..Len(f) : f[i] = Len(mdGot) + Len(toMd) + i
               /\ Len(mdGot) + Len(toMd) + Len(f) = replies + 1
    <3>1. \A i \in 1..Len(f) : i \in 1..Len(fromRouter) \/ i = Len(fromRouter) + 1
      BY <1>0, <2>2
    <3>2. Len(mdGot) + Len(toMd) + Len(fromRouter) = replies
      BY <2>3 DEF DownInOrder
    <3>3. replies + 1 = Len(mdGot) + Len(toMd) + (Len(fromRouter) + 1)
      BY <1>0, <3>2
    <3>4. \A i \in 1..Len(f) : f[i] = Len(mdGot) + Len(toMd) + i
      BY <2>2, <2>3, <3>1, <3>3 DEF DownInOrder
    <3> QED
      BY <1>0, <2>2, <3>3, <3>4
  <2>4. Len(mdGot) + Len(toMd) <= replies + 1
    BY <1>0 DEF DownInOrder
  <2> QED
    BY <2>1, <2>3, <2>4 DEF DownInOrder
<1> QED
  BY <1>2, <1>3, <1>4, <1>5, <1>6, <1>7
     DEF Next, Reactor, Peers, ConnectionLost, ConnectionClosed, ConnectionReset

-----------------------------------------------------------------------------
(* Both directions.                                                         *)

\* A shorter run of units is a prefix of a longer one.
LEMMA UptoPrefix ==
  ASSUME NEW m \in Nat, NEW n \in Nat, m <= n
  PROVE  IsPrefix(Upto(m), Upto(n))
<1>1. m \in 0..n
  OBVIOUS
<1>2. Upto(n) \in Seq(Nat) /\ Len(Upto(n)) = n /\ Upto(m) \in Seq(Nat) /\ Len(Upto(m)) = m
  BY UptoType
<1>3. SubSeq(Upto(n), 1, m) = Upto(m)
  BY <1>1, <1>2 DEF Upto
<1> QED
  BY <1>2, <1>3 DEF IsPrefix

\* What was read of Md's stream is a beginning of it, and so is what was read
\* or is still on its way.
LEMMA UpPrefixes ==
  ASSUME Typed, UpInOrder
  PROVE  /\ FlattenSeq(Messages) = Upto(Reached(Messages))
         /\ FlattenSeq(routerGot) = Upto(Reached(routerGot))
         /\ Reached(Messages) \in 0..sent /\ Reached(routerGot) \in 0..sent
<1>1. /\ routerGot \in Seq(Seq(Nat)) /\ toRouter \in Seq(Seq(Nat)) /\ dataQueue \in Seq(Seq(Nat))
      /\ Messages \in Seq(Seq(Nat)) /\ sent \in Nat
  BY MessagesType, WsProxyAssumption DEF Typed, TypeOK, Queues
<1>2. Messages = routerGot \o (toRouter \o dataQueue) /\ toRouter \o dataQueue \in Seq(Seq(Nat))
  BY <1>1, ConcatAssociative, Concat DEF Messages
<1>3. Chained(Messages) /\ Chained(routerGot)
  BY <1>1, <1>2, ChainFront DEF UpInOrder
<1>4. /\ \A j \in 1..Len(routerGot) : Messages[j] = routerGot[j]
      /\ Len(routerGot) \in Nat /\ Len(Messages) \in Nat /\ Len(routerGot) <= Len(Messages)
  BY <1>1, <1>2, Concat
<1>5. Reached(Messages) <= sent
  <2>1. CASE Messages = <<>>
    BY <1>1, <2>1 DEF Reached
  <2>2. CASE Messages # <<>>
    <3>1. Len(Messages) \in 1..Len(Messages)
      BY <1>1, <2>2
    <3> QED
      BY <2>2, <3>1 DEF UpInOrder, Reached
  <2> QED
    BY <2>1, <2>2
<1>6. Reached(routerGot) <= sent
  <2>1. CASE routerGot = <<>>
    BY <1>1, <2>1 DEF Reached
  <2>2. CASE routerGot # <<>>
    <3>1. Len(routerGot) \in 1..Len(routerGot) /\ Len(routerGot) \in 1..Len(Messages)
      BY <1>1, <1>4, <2>2
    <3> QED
      BY <1>4, <2>2, <3>1 DEF UpInOrder, Reached
  <2> QED
    BY <2>1, <2>2
<1> QED
  BY <1>1, <1>3, <1>5, <1>6, ChainFlat

\* What was written to Md, and what Md has read of it.
LEMMA DownPrefixes ==
  ASSUME Typed, DownInOrder
  PROVE  /\ mdGot \o toMd = Upto(Len(mdGot) + Len(toMd))
         /\ mdGot = Upto(Len(mdGot))
         /\ Len(mdGot) + Len(toMd) \in 0..replies /\ Len(mdGot) \in 0..replies
<1>1. /\ mdGot \in Seq(Nat) /\ toMd \in Seq(Nat) /\ replies \in Nat
      /\ Len(mdGot) \in Nat /\ Len(toMd) \in Nat
  BY WsProxyAssumption DEF Typed, TypeOK, Queues
<1>2. mdGot = Upto(Len(mdGot))
  BY <1>1, IsUpto DEF DownInOrder
<1>3. Upto(Len(mdGot)) \o toMd = Upto(Len(mdGot) + Len(toMd))
  BY <1>1, UptoConcat DEF DownInOrder
<1>4. Len(mdGot) + Len(toMd) <= replies
  BY DEF DownInOrder
<1> QED
  BY <1>1, <1>2, <1>3, <1>4

LEMMA Invariant == Spec => [](Typed /\ UpInOrder /\ DownInOrder)
<1> DEFINE IInv == Typed /\ UpInOrder /\ DownInOrder
<1>1. Init => IInv
  BY TypedInit, UpInit, DownInit
<1>2. IInv /\ [Next]_vars => IInv'
  <2>1. CASE UNCHANGED vars
    <3>1. IInv => UNCHANGED <<Messages, sent, Flows, fromMd>>
      BY <2>1 DEF vars, tcpVars, Messages, Flows
    <3>2. IInv => DownInOrder'
      BY <2>1 DEF vars, tcpVars, downVars, DownInOrder, Answers
    <3>3. IInv => UpInOrder'
      BY <3>1, SameMessages
    <3> QED
      BY <2>1, <3>2, <3>3, TypedNext
  <2>2. CASE Next
    BY <2>2, TypedNext, UpNext, DownNext
  <2> QED
    BY <2>1, <2>2
<1> HIDE DEF IInv
<1>3. Spec => []IInv
  BY <1>1, <1>2, PTL DEF Spec
<1> QED
  BY <1>3 DEF IInv

\* However the stream of Md is cut into messages and wherever they are when a
\* side opens or closes, the router has read a beginning of that stream, and
\* Md a beginning of what the router sent.
THEOREM NothingOutOfOrder == Spec => []InOrder
<1>1. Typed /\ UpInOrder /\ DownInOrder => InOrder
  <2> SUFFICES ASSUME Typed, UpInOrder, DownInOrder
               PROVE  InOrder
    OBVIOUS
  <2>1. sent \in Nat /\ replies \in Nat
    BY WsProxyAssumption DEF Typed, TypeOK
  <2>2. IsPrefix(FlattenSeq(Messages), Upto(sent))
    BY <2>1, UpPrefixes, UptoPrefix
  <2>3. IsPrefix(mdGot \o toMd, Upto(replies))
    <3> DEFINE n == Len(mdGot) + Len(toMd)
    <3>1. mdGot \o toMd = Upto(n) /\ n \in 0..replies
      BY DownPrefixes
    <3> HIDE DEF n
    <3>2. n \in Nat /\ n <= replies
      BY <2>1, <3>1
    <3> QED
      BY <2>1, <3>1, <3>2, UptoPrefix
  <2> QED
    BY <2>2, <2>3 DEF InOrder, Messages
<1> QED
  BY <1>1, Invariant, PTL

-----------------------------------------------------------------------------
(* Each direction takes the steps of a pipe.                                *)

\* A step gives more, takes more, breaks the pipe or does nothing to it.
LEMMA UpSteps ==
  ASSUME Typed, UpInOrder, UpInOrder', Queues', Next
  PROVE  \/ sent' = sent + 2 /\ UNCHANGED <<routerGot, broken, hangup, split>>
         \/ UNCHANGED <<sent, broken, hangup, split>> /\ Reached(routerGot') > Reached(routerGot)
         \/ UNCHANGED <<sent, routerGot, broken, hangup, split>>
         \/ UNCHANGED <<sent, routerGot>> /\ (broken' \/ hangup' \/ split')
<1> USE DEF tcpVars, downVars, history
<1>1. CASE MdSends
  BY <1>1 DEF MdSends
<1>2. CASE RouterReads
  <2>1. CASE routerGot' = Append(routerGot, Head(toRouter))
    <3> DEFINE q == routerGot
               r == Append(routerGot, Head(toRouter))
    <3>1. q \in Seq(Seq(Nat)) /\ toRouter \in Seq(Seq(Nat)) /\ dataQueue \in Seq(Seq(Nat)) /\ toRouter # <<>>
      BY <1>2 DEF RouterReads, Typed, Queues
    <3>2. Head(toRouter) \in Seq(Nat)
      BY <3>1, Taken
    <3>3. r \in Seq(Seq(Nat)) /\ Len(r) = Len(q) + 1 /\ Len(q) \in Nat
          /\ \A i \in 1..Len(q) : r[i] = q[i]
      BY <3>1, <3>2, Appended
    <3>4. Chained(r) /\ Chained(q)
      <4>1. /\ toRouter' \in Seq(Seq(Nat)) /\ dataQueue' \in Seq(Seq(Nat))
            /\ Messages' = r \o toRouter' \o dataQueue' /\ Chained(Messages')
        BY <2>1 DEF Queues, Messages, UpInOrder
      <4>2. toRouter' \o dataQueue' \in Seq(Seq(Nat)) /\ Messages' = r \o (toRouter' \o dataQueue')
        <5>1. r \in Seq(Seq(Nat))
          BY <3>3
        <5>2. /\ toRouter' \o dataQueue' \in Seq(Seq(Nat))
              /\ r \o toRouter' \o dataQueue' = r \o (toRouter' \o dataQueue')
          <6>1. \A a, b \in Seq(Seq(Nat)) : a \o b \in Seq(Seq(Nat)) /\ r \o a \o b = r \o (a \o b)
            BY <5>1, ConcatThree
          <6> HIDE DEF r
          <6> QED
            BY <4>1, <6>1
        <5> QED
          BY <4>1, <5>2
      <4>3. Chained(r)
        BY <3>3, <4>1, <4>2, ChainFront
      <4>4. toRouter \o dataQueue \in Seq(Seq(Nat)) /\ Messages = q \o (toRouter \o dataQueue)
        <5>1. q \o toRouter \o dataQueue = q \o (toRouter \o dataQueue) /\ toRouter \o dataQueue \in Seq(Seq(Nat))
          BY <3>1, ConcatThree
        <5> QED
          BY <5>1 DEF Messages
      <4>5. Chained(q)
        BY <3>1, <4>4, ChainFront DEF UpInOrder
      <4> QED
        BY <4>3, <4>5
    <3>5. routerGot' = r
      BY <2>1
    <3> HIDE DEF q, r
    <3>6. Reached(r) > Reached(q)
      <4> DEFINE l == Len(q) + 1
      <4>1. l \in 1..Len(r) /\ r # <<>> /\ l = Len(r)
        BY <3>3
      <4>2. r[l] \in Seq(Nat) /\ r[l] # <<>> /\ r[l][1] = (IF l = 1 THEN 0 ELSE End(r[l - 1])) + 1
        BY <3>3, <3>4, <4>1 DEF Chained
      <4>3. Reached(q) = IF l = 1 THEN 0 ELSE End(r[l - 1])
        <5>1. CASE q = <<>>
          BY <5>1 DEF Reached
        <5>2. CASE q # <<>>
          <6>1. Len(q) \in 1..Len(q) /\ l # 1 /\ l - 1 = Len(q)
            BY <3>1, <3>3, <5>2 DEF q
          <6> QED
            BY <3>3, <5>2, <6>1 DEF Reached
        <5> QED
          BY <5>1, <5>2
      <4>4. Reached(q) \in Nat
        BY <3>1, <3>4, ChainFlat DEF q
      <4>5. r[l][1] = Reached(q) + 1 /\ Reached(r) = End(r[l])
        BY <4>1, <4>2, <4>3 DEF Reached
      <4> HIDE DEF l
      <4> QED
        BY <4>2, <4>4, <4>5, EndType
    <3> QED
      BY <1>2, <3>5, <3>6 DEF RouterReads, q
  <2>2. CASE routerGot' = routerGot
    BY <1>2, <2>2 DEF RouterReads
  <2> QED
    BY <1>2, <2>1, <2>2 DEF RouterReads
<1>3. CASE Reactor
  BY <1>3 DEF Reactor, DataReceived, ConnectionLost, ConnectionClosed, Lost, OnOpen, OnMessage,
              OnClose, Closed, Typed, TypeOK
<1>4. CASE MdReads \/ MdCloses \/ RouterSends \/ RouterCloses \/ ConnectionReset \/ OnCloseUnclean \/ ConnectFails
  BY <1>4 DEF MdReads, MdCloses, RouterSends, RouterCloses, ConnectionReset, Lost,
              OnCloseUnclean, Closed, ConnectFails
<1> QED
  BY <1>1, <1>2, <1>3, <1>4 DEF Next, Peers

LEMMA DownSteps ==
  ASSUME Typed, Next
  PROVE  \/ replies' = replies + 1 /\ UNCHANGED <<mdGot, broken, eof>>
         \/ UNCHANGED <<replies, broken, eof>> /\ Len(mdGot') > Len(mdGot)
         \/ UNCHANGED <<replies, mdGot, broken, eof>>
         \/ UNCHANGED <<replies, mdGot>> /\ (broken' \/ eof')
<1> USE DEF tcpVars, downVars, history
<1>1. CASE MdReads
  <2>1. mdGot \in Seq(Nat) /\ Head(toMd) \in Nat
    BY <1>1, Taken DEF MdReads, Typed, Queues
  <2>2. Len(mdGot') = Len(mdGot) + 1 /\ Len(mdGot) \in Nat
    BY <1>1, <2>1, Appended DEF MdReads
  <2> QED
    BY <1>1, <2>2 DEF MdReads
<1>2. CASE Reactor \/ RouterReads
  BY <1>2 DEF Reactor, DataReceived, ConnectionLost, ConnectionClosed, Lost, OnOpen, OnMessage,
              OnClose, Closed, RouterReads
<1>3. CASE MdSends \/ MdCloses \/ RouterSends \/ RouterCloses \/ ConnectionReset \/ OnCloseUnclean \/ ConnectFails
  BY <1>3 DEF MdSends, MdCloses, RouterSends, RouterCloses, ConnectionReset, Lost,
              OnCloseUnclean, Closed, ConnectFails
<1> QED
  BY <1>1, <1>2, <1>3 DEF Next, Peers

\* Another beginning of the same units, or more of them.
LEMMA MoreUnits ==
  ASSUME NEW m \in Nat, NEW n \in Nat, m < n
  PROVE  IsStrictPrefix(Upto(m), Upto(n))
<1>1. IsPrefix(Upto(m), Upto(n))
  BY UptoPrefix
<1>2. Len(Upto(m)) = m /\ Len(Upto(n)) = n
  BY UptoType
<1> QED
  BY <1>1, <1>2 DEF IsStrictPrefix

LEMMA Beginning ==
  ASSUME NEW n \in Nat, NEW m \in 0..n
  PROVE  Upto(m) = SubSeq(Upto(n), 1, m)
<1>1. Upto(n) \in Seq(Nat) /\ Len(Upto(n)) = n
  BY UptoType
<1> QED
  BY <1>1 DEF Upto


\* What both readers have, as beginnings of what the writers gave.
Beginnings ==
  /\ sent \in Nat /\ replies \in Nat
  /\ Reached(routerGot) \in 0..sent /\ FlattenSeq(routerGot) = Upto(Reached(routerGot))
  /\ Len(mdGot) \in 0..replies /\ mdGot = Upto(Len(mdGot))
  /\ {broken, hangup, split, eof} \subseteq BOOLEAN

LEMMA BeginningsRead == Typed /\ UpInOrder /\ DownInOrder => Beginnings
BY UpPrefixes, DownPrefixes, WsProxyAssumption DEF Typed, TypeOK, Beginnings

\* More given, more taken, or broken.
LEMMA PipeSteps ==
  ASSUME NEW m \in Nat, NEW n \in Nat, NEW r \in 0..m, NEW s \in 0..n
  PROVE  /\ m < n => IsStrictPrefix(Upto(m), Upto(n))
         /\ m = n /\ r < s => \E k \in (Len(Upto(r)) + 1)..Len(Upto(m)) : Upto(s) = SubSeq(Upto(m), 1, k)
<1>1. m = n /\ r < s => s \in (Len(Upto(r)) + 1)..Len(Upto(m)) /\ Upto(s) = SubSeq(Upto(m), 1, s)
  BY UptoType, Beginning
<1> QED
  BY <1>1, MoreUnits

\* Whatever Fwd and Websockify do, Md's stream takes the steps of a pipe: what
\* the router has read of it only grows, as a beginning of what Md has sent,
\* and what has broken stays broken.
THEOREM UpTakesPipeSteps == Spec => Up!Init /\ [][Up!Next]_(Up!pipeVars)
<1>1. Init => Up!Init
  <2>1. Upto(0) = <<>> /\ FlattenSeq(<<>>) = <<>>
    BY DEF Upto, FlattenSeq
  <2> QED
    BY <2>1 DEF Init, Up!Init
<1>2. ASSUME Typed, UpInOrder, UpInOrder', Queues', Beginnings, Beginnings', [Next]_vars
      PROVE  [Up!Next]_(Up!pipeVars)
  <2>1. CASE UNCHANGED vars
    BY <2>1 DEF vars, tcpVars, history, Up!pipeVars
  <2>2. CASE Next
    <3> DEFINE r == Reached(routerGot)
               s == Reached(routerGot')
    <3>1. /\ sent \in Nat /\ r \in 0..sent /\ FlattenSeq(routerGot) = Upto(r)
          /\ sent' \in Nat /\ s \in 0..sent' /\ FlattenSeq(routerGot') = Upto(s)
      BY <1>2 DEF Beginnings
    <3>2. \/ sent' = sent + 2 /\ UNCHANGED <<routerGot, broken, hangup, split>>
          \/ UNCHANGED <<sent, broken, hangup, split>> /\ s > r
          \/ UNCHANGED <<sent, routerGot, broken, hangup, split>>
          \/ UNCHANGED <<sent, routerGot>> /\ (broken' \/ hangup' \/ split')
      BY <1>2, <2>2, UpSteps
    <3> HIDE DEF r, s
    <3>3. CASE sent' = sent + 2 /\ UNCHANGED <<routerGot, broken, hangup, split>>
      <4>1. IsStrictPrefix(Upto(sent), Upto(sent'))
        <5>1. sent < sent'
          BY <3>1, <3>3
        <5> QED
          BY <3>1, <5>1, MoreUnits
      <4> QED
        BY <3>3, <4>1 DEF Up!Next, Up!Put, Up!IsStrictPrefix, Up!IsPrefix, IsStrictPrefix, IsPrefix
    <3>4. CASE UNCHANGED <<sent, broken, hangup, split>> /\ s > r
      <4>1. \E k \in (Len(Upto(r)) + 1)..Len(Upto(sent)) : Upto(s) = SubSeq(Upto(sent), 1, k)
        BY <3>1, <3>4, PipeSteps
      <4>2. Up!Take
        BY <3>1, <3>4, <4>1 DEF Up!Take
      <4> QED
        BY <4>2 DEF Up!Next
    <3>5. CASE UNCHANGED <<sent, routerGot, broken, hangup, split>>
      BY <3>5 DEF Up!pipeVars
    <3>6. CASE UNCHANGED <<sent, routerGot>> /\ (broken' \/ hangup' \/ split')
      BY <3>6 DEF Up!Next, Up!Break
    <3> QED
      BY <3>2, <3>3, <3>4, <3>5, <3>6
  <2> QED
    BY <1>2, <2>1, <2>2
<1>3. Typed => Queues
  BY DEF Typed
<1> QED
  BY <1>1, <1>2, <1>3, Invariant, BeginningsRead, PTL DEF Spec

\* The router's messages take the steps of a pipe to Md as well.
THEOREM DownTakesPipeSteps == Spec => Down!Init /\ [][Down!Next]_(Down!pipeVars)
<1>1. Init => Down!Init
  <2>1. Upto(0) = <<>>
    BY DEF Upto
  <2> QED
    BY <2>1 DEF Init, Down!Init
<1>2. ASSUME Typed, Beginnings, Beginnings', [Next]_vars
      PROVE  [Down!Next]_(Down!pipeVars)
  <2>1. CASE UNCHANGED vars
    BY <2>1 DEF vars, tcpVars, downVars, history, Down!pipeVars
  <2>2. CASE Next
    <3> DEFINE r == Len(mdGot)
               s == Len(mdGot')
    <3>1. /\ replies \in Nat /\ r \in 0..replies /\ mdGot = Upto(r)
          /\ replies' \in Nat /\ s \in 0..replies' /\ mdGot' = Upto(s)
      BY <1>2 DEF Beginnings
    <3>2. \/ replies' = replies + 1 /\ UNCHANGED <<mdGot, broken, eof>>
          \/ UNCHANGED <<replies, broken, eof>> /\ s > r
          \/ UNCHANGED <<replies, mdGot, broken, eof>>
          \/ UNCHANGED <<replies, mdGot>> /\ (broken' \/ eof')
      BY <1>2, <2>2, DownSteps
    <3> HIDE DEF r, s
    <3>3. CASE replies' = replies + 1 /\ UNCHANGED <<mdGot, broken, eof>>
      <4>1. IsStrictPrefix(Upto(replies), Upto(replies'))
        <5>1. replies < replies'
          BY <3>1, <3>3
        <5> QED
          BY <3>1, <5>1, MoreUnits
      <4> QED
        BY <3>3, <4>1 DEF Down!Next, Down!Put, Down!IsStrictPrefix, Down!IsPrefix, IsStrictPrefix, IsPrefix
    <3>4. CASE UNCHANGED <<replies, broken, eof>> /\ s > r
      <4>1. \E k \in (Len(Upto(r)) + 1)..Len(Upto(replies)) : Upto(s) = SubSeq(Upto(replies), 1, k)
        BY <3>1, <3>4, PipeSteps
      <4>2. \E k \in (Len(mdGot) + 1)..Len(Upto(replies)) : mdGot' = SubSeq(Upto(replies), 1, k)
        BY <3>1, <4>1
      <4> QED
        BY <3>4, <4>2 DEF Down!Next, Down!Take
    <3>5. CASE UNCHANGED <<replies, mdGot, broken, eof>>
      BY <3>5 DEF Down!pipeVars
    <3>6. CASE UNCHANGED <<replies, mdGot>> /\ (broken' \/ eof')
      BY <3>6 DEF Down!Next, Down!Break
    <3> QED
      BY <3>2, <3>3, <3>4, <3>5, <3>6
  <2> QED
    BY <1>2, <2>1, <2>2
<1> QED
  BY <1>1, <1>2, Invariant, BeginningsRead, PTL DEF Spec
=============================================================================
