---------------------------- MODULE MdFeedProofs ----------------------------
(***************************************************************************)
(* Proofs about MdFeed, for any faults of the network, any number of       *)
(* datagrams and duplicates, and any number of clients.                    *)
(***************************************************************************)
EXTENDS MdFeed, SequenceLemmas

-----------------------------------------------------------------------------
(* Counting.                                                                *)

LEMMA CopiesType ==
  ASSUME NEW S, NEW q \in Seq(S), NEW x
  PROVE  /\ IsFiniteSet({i \in DOMAIN q : q[i] = x})
         /\ Copies(q, x) \in Nat
<1>1. DOMAIN q = 1..Len(q) /\ Len(q) \in Nat
  OBVIOUS
<1>2. IsFiniteSet(1..Len(q))
  BY <1>1, FS_Interval
<1>3. {i \in DOMAIN q : q[i] = x} \in SUBSET (1..Len(q))
  BY <1>1
<1>4. IsFiniteSet({i \in DOMAIN q : q[i] = x})
  BY <1>2, <1>3, FS_Subset
<1> QED
  BY <1>4, FS_CardinalityType DEF Copies

LEMMA CopiesEmpty ==
  ASSUME NEW x
  PROVE  Copies(<<>>, x) = 0
<1>1. {i \in DOMAIN <<>> : <<>>[i] = x} = {}
  OBVIOUS
<1> QED
  BY <1>1, FS_EmptySet DEF Copies

\* What is counted is there.
LEMMA CopiesPositive ==
  ASSUME NEW S, NEW q \in Seq(S), NEW x
  PROVE  (\E i \in DOMAIN q : q[i] = x) <=> Copies(q, x) # 0
<1>1. IsFiniteSet({i \in DOMAIN q : q[i] = x})
  BY CopiesType
<1>2. Copies(q, x) = 0 <=> {i \in DOMAIN q : q[i] = x} = {}
  BY <1>1, FS_EmptySet DEF Copies
<1> QED
  BY <1>2

LEMMA CopiesAppend ==
  ASSUME NEW S, NEW q \in Seq(S), NEW y \in S, NEW x
  PROVE  Copies(Append(q, y), x) = Copies(q, x) + IF x = y THEN 1 ELSE 0
<1> DEFINE before == {i \in DOMAIN q : q[i] = x}
           after == {i \in DOMAIN Append(q, y) : Append(q, y)[i] = x}
           last == Len(q) + 1
<1>1. /\ DOMAIN q = 1..Len(q) /\ Len(q) \in Nat
      /\ DOMAIN Append(q, y) = 1..last
      /\ Append(q, y)[last] = y
      /\ \A i \in 1..Len(q) : Append(q, y)[i] = q[i]
  OBVIOUS
<1>2. after = IF x = y THEN before \cup {last} ELSE before
  <2>1. \A i : i \in 1..last <=> i \in 1..Len(q) \/ i = last
    BY <1>1
  <2> QED
    BY <1>1, <2>1
<1>3. last \notin before
  BY <1>1
<1>4. IsFiniteSet(before) /\ Cardinality(before) \in Nat
  BY CopiesType DEF Copies
<1> HIDE DEF before, after, last
<1>5. Cardinality(before \cup {last}) = Cardinality(before) + 1
  BY <1>3, <1>4, FS_AddElement
<1>6. Cardinality(after) = Cardinality(before) + IF x = y THEN 1 ELSE 0
  BY <1>2, <1>4, <1>5
<1> QED
  BY <1>6 DEF Copies, before, after

LEMMA CopiesWithout ==
  ASSUME NEW S, NEW Q \in Seq(S), NEW q \in Seq(S), NEW i, OneLess(Q, i, q), NEW x
  PROVE  Copies(Q, x) = Copies(q, x) + IF x = Q[i] THEN 1 ELSE 0
<1> DEFINE more == {j \in DOMAIN Q : Q[j] = x}
           less == {j \in DOMAIN q : q[j] = x}
           moved == [j \in less |-> IF j < i THEN j ELSE j + 1]
<1>1. /\ DOMAIN Q = 1..Len(Q) /\ DOMAIN q = 1..Len(q)
      /\ Len(Q) \in Nat /\ Len(q) \in Nat
      /\ i \in 1..Len(Q) /\ Len(Q) = Len(q) + 1
  BY DEF OneLess
<1>2. IsFiniteSet(more) /\ IsFiniteSet(less)
  BY CopiesType
<1>3. moved \in [less -> more \ {i}]
  <2> SUFFICES ASSUME NEW j \in less
               PROVE  (IF j < i THEN j ELSE j + 1) \in more \ {i}
    OBVIOUS
  <2>1. j \in 1..Len(q) /\ q[j] = x /\ q[j] = IF j < i THEN Q[j] ELSE Q[j + 1]
    BY <1>1 DEF OneLess
  <2> QED
    BY <1>1, <2>1
<1>4. moved \in Injection(less, more \ {i})
  <2>1. \A j, k \in less : moved[j] = moved[k] => j = k
    BY <1>1
  <2> QED
    BY <1>3, <2>1 DEF Injection, IsInjective
<1>5. moved \in Surjection(less, more \ {i})
  <2> SUFFICES ASSUME NEW k \in more \ {i}
               PROVE  \E j \in less : moved[j] = k
    BY <1>3 DEF Surjection
  <2> DEFINE j == IF k < i THEN k ELSE k - 1
  <2>1. k \in 1..Len(Q) /\ k # i /\ Q[k] = x
    BY <1>1
  <2>2. j \in 1..Len(q) /\ (IF j < i THEN j ELSE j + 1) = k
    BY <1>1, <2>1
  <2>3. q[j] = IF j < i THEN Q[j] ELSE Q[j + 1]
    BY <2>2 DEF OneLess
  <2>4. q[j] = x
    BY <2>1, <2>2, <2>3
  <2> HIDE DEF j
  <2>5. j \in less
    BY <1>1, <2>2, <2>4
  <2> QED
    BY <2>2, <2>5
<1> HIDE DEF more, less, moved
<1>6. ExistsBijection(less, more \ {i})
  BY <1>4, <1>5 DEF ExistsBijection, Bijection
<1>7. Cardinality(more \ {i}) = Cardinality(less)
  BY <1>2, <1>6, FS_Bijection
<1>8. i \in more <=> x = Q[i]
  BY <1>1 DEF more
<1>9. Cardinality(more) \in Nat /\ Cardinality(less) \in Nat
  BY <1>2, FS_CardinalityType
<1>10. Cardinality(more \ {i}) =
         IF i \in more THEN Cardinality(more) - 1 ELSE Cardinality(more)
  BY <1>2, FS_RemoveElement
<1>11. Cardinality(more) = Cardinality(less) + IF x = Q[i] THEN 1 ELSE 0
  BY <1>7, <1>8, <1>9, <1>10
<1> QED
  BY <1>11 DEF Copies, more, less

-----------------------------------------------------------------------------
(* Types.                                                                   *)

\* The datagram a step delivers, and what is left.
LEMMA Delivered ==
  ASSUME TypeOK, Deliver
  PROVE  \E i \in DOMAIN udp :
           /\ udp[i] \in Datagram
           /\ udp[i].sym \in Symbols /\ udp[i].txn \in Txns
           /\ udp[i] = [sym |-> udp[i].sym, txn |-> udp[i].txn]
           /\ Receive(udp[i])
           /\ udp' \in Seq(Datagram)
           /\ OneLess(udp, i, udp')
<1>1. PICK i \in DOMAIN udp : Receive(udp[i]) /\ udp' = RemoveAt(udp, i)
  BY DEF Deliver
<1>2. udp \in Seq(Datagram) /\ udp[i] \in Datagram
  BY DEF TypeOK
<1>3. udp' \in Seq(Datagram) /\ OneLess(udp, i, udp')
  BY <1>1, <1>2, RemoveAtIsWithout
<1> QED
  BY <1>1, <1>2, <1>3 DEF Datagram

\* The snapshot that is read.
LEMMA HeadOfResponse ==
  ASSUME TypeOK, response # <<>>
  PROVE  /\ 1 \in DOMAIN response /\ Head(response) = response[1]
         /\ Head(response).sym \in Symbols
         /\ Head(response).txn \in 1..(MaxTxn + 1)
<1> DEFINE Response == [sym : Symbols, txn : 1..(MaxTxn + 1)]
<1>1. response \in Seq(Response)
  BY DEF TypeOK
<1> HIDE DEF Response
<1>2. 1 \in DOMAIN response /\ Head(response) = response[1] /\ response[1] \in Response
  BY <1>1
<1> QED
  BY <1>2 DEF Response

\* A gap is anything but the last id again, or the next one: no id is so far
\* behind that the difference wraps around to 0 or 1.
LEMMA NoGap ==
  ASSUME TypeOK, NEW m \in Datagram, ~Gap(m)
  PROVE  m.txn = txnId \/ m.txn = txnId + 1
<1> DEFINE d == m.txn - txnId
<1>1. /\ TxnMod \in Nat /\ MaxTxn \in Nat /\ MaxTxn + 1 < TxnMod
      /\ m.txn \in 1..MaxTxn /\ txnId \in 0..(MaxTxn + 1)
  BY MdFeedAssumption DEF TypeOK, Datagram, Txns
<1>2. d \in Int /\ d % TxnMod \in Nat /\ d % TxnMod <= 1
  BY <1>1 DEF Gap
<1>3. CASE d >= 0
  <2>1. d % TxnMod = d
    BY <1>1, <1>3
  <2> QED
    BY <1>1, <1>2, <1>3, <2>1
<1>4. CASE d < 0
  <2>1. d % TxnMod = d + TxnMod
    BY <1>1, <1>4
  <2> QED
    BY <1>1, <1>2, <1>4, <2>1
<1> QED
  BY <1>2, <1>3, <1>4

LEMMA InitType == Init => TypeOK
<1> SUFFICES ASSUME Init
             PROVE  TypeOK
  OBVIOUS
<1>1. nextTxn \in [Symbols -> 1..(MaxTxn + 1)] /\ deferred \in [Symbols -> Seq(Txns)]
  BY MdFeedAssumption, EmptyInSeq DEF Init
<1>2. /\ udp \in Seq(Datagram)
      /\ response \in Seq([sym : Symbols, txn : 1..(MaxTxn + 1)])
  BY EmptyInSeq DEF Init
<1>3. applied \in [Symbols -> [Txns -> Nat]] /\ lastSnap \in [Symbols -> 0..(MaxTxn + 1)]
  BY MdFeedAssumption DEF Init
<1>4. copies \in 0..MaxCopies /\ clients \in 0..MaxClients /\ txnId \in 0..(MaxTxn + 1)
  BY MdFeedAssumption DEF Init
<1>5. /\ request \in Symbols \cup {NoSymbol}
      /\ accepted \in BOOLEAN /\ (accepted => request # NoSymbol)
      /\ recovering \in BOOLEAN /\ cut \in BOOLEAN
  BY DEF Init
<1> QED
  BY <1>1, <1>2, <1>3, <1>4, <1>5 DEF TypeOK

LEMMA PublishType ==
  ASSUME TypeOK, NEW s \in Symbols, Publish(s)
  PROVE  TypeOK'
<1>1. nextTxn[s] \in Txns
  BY MdFeedAssumption DEF TypeOK, Publish, Txns
<1>2. [sym |-> s, txn |-> nextTxn[s]] \in Datagram
  BY <1>1 DEF Datagram
<1> QED
  <2>1. udp' \in Seq(Datagram)
    BY <1>2 DEF TypeOK, Publish
  <2>2. nextTxn' \in [Symbols -> 1..(MaxTxn + 1)]
    <3>1. nextTxn[s] + 1 \in 1..(MaxTxn + 1)
      BY <1>1, MdFeedAssumption DEF Txns
    <3> QED
      BY <3>1 DEF TypeOK, Publish
  <2>3. UNCHANGED <<copies, request, accepted, clients, response, txnId, recovering,
                    deferred, applied, lastSnap, cut>>
    BY DEF Publish, snapshot, md
  <2> QED
    BY <2>1, <2>2, <2>3 DEF TypeOK

LEMMA LoseType ==
  ASSUME TypeOK, Lose
  PROVE  TypeOK'
<1>1. udp' \in Seq(Datagram)
  BY RemoveAtIsWithout DEF TypeOK, Lose
<1> QED
  BY <1>1 DEF TypeOK, Lose, snapshot, md

LEMMA DuplicateType ==
  ASSUME TypeOK, Duplicate
  PROVE  TypeOK'
<1>1. udp' \in Seq(Datagram)
  BY InsertAtIsWithout DEF TypeOK, Duplicate
<1>2. copies' \in 0..MaxCopies
  BY MdFeedAssumption DEF TypeOK, Duplicate
<1> QED
  BY <1>1, <1>2 DEF TypeOK, Duplicate, snapshot, md

LEMMA ConnectionType ==
  ASSUME TypeOK, Accept \/ AcceptOrders \/ Answer \/ Disconnect
  PROVE  TypeOK'
<1>1. CASE Accept
  BY <1>1, MdFeedAssumption DEF TypeOK, Accept, network, md
<1>2. CASE AcceptOrders
  BY <1>2, MdFeedAssumption DEF TypeOK, AcceptOrders, network, md
<1>3. CASE Answer
  <2>1. request \in Symbols /\ SnapTxn(request) \in 1..(MaxTxn + 1)
    BY <1>3 DEF TypeOK, Answer, SnapTxn
  <2>2. response' \in Seq([sym : Symbols, txn : 1..(MaxTxn + 1)])
    BY <1>3, <2>1 DEF TypeOK, Answer
  <2> QED
    BY <1>3, <2>2 DEF TypeOK, Answer, network, md
<1>4. CASE Disconnect
  BY <1>4, EmptyInSeq DEF TypeOK, Disconnect, network, md
<1> QED
  BY <1>1, <1>2, <1>3, <1>4

LEMMA DeliverType ==
  ASSUME TypeOK, Deliver
  PROVE  TypeOK'
<1>1. PICK i \in DOMAIN udp :
        /\ udp[i] \in Datagram /\ udp[i].sym \in Symbols /\ udp[i].txn \in Txns
        /\ Receive(udp[i])
        /\ udp' \in Seq(Datagram)
  BY Delivered
<1>2. nextTxn' = nextTxn /\ copies' = copies
  BY DEF Deliver
<1>3. CASE Defer(udp[i])
  BY <1>1, <1>2, <1>3 DEF TypeOK, Defer, snapshot
<1>4. CASE Recover(udp[i].sym)
  BY <1>1, <1>2, <1>4, MdFeedAssumption DEF TypeOK, Recover
<1>5. CASE ApplyNow(udp[i])
  <2> DEFINE s == udp[i].sym
             k == udp[i].txn
  <2>0. s \in Symbols /\ k \in Txns /\ k \in 0..(MaxTxn + 1)
    BY <1>1, MdFeedAssumption DEF Txns
  <2>1. applied' \in [Symbols -> [Txns -> Nat]]
    <3>1. applied' = [applied EXCEPT ![s][k] = @ + 1]
      BY <1>5 DEF ApplyNow
    <3> HIDE DEF s, k
    <3>2. applied[s] \in [Txns -> Nat] /\ applied[s][k] + 1 \in Nat
      BY <2>0 DEF TypeOK
    <3> QED
      BY <2>0, <3>1, <3>2 DEF TypeOK
  <2>2. txnId' \in 0..(MaxTxn + 1)
    BY <2>0, <1>5 DEF ApplyNow
  <2> QED
    BY <1>1, <1>2, <1>5, <2>1, <2>2 DEF TypeOK, ApplyNow, snapshot
<1> QED
  BY <1>1, <1>3, <1>4, <1>5 DEF Receive

\* What a snapshot does to the book of its symbol.
LEMMA SnapshotFacts ==
  ASSUME TypeOK, OnSnapshot, NEW s, s = Head(response).sym,
         NEW base, base = Head(response).txn
  PROVE  /\ \A k \in Txns : applied'[s][k] =
              (IF k < base THEN 1 ELSE 0) + (IF k > base THEN Copies(deferred[s], k) ELSE 0)
         /\ applied' \in [Symbols -> [Txns -> Nat]]
         /\ deferred' = [deferred EXCEPT ![s] = <<>>]
         /\ lastSnap' = [lastSnap EXCEPT ![s] = base]
         /\ txnId' = base
         /\ recovering' = FALSE /\ response' = <<>>
         /\ UNCHANGED <<nextTxn, udp, copies, request, accepted, clients, cut>>
<1> DEFINE fresh == [k \in Txns |-> (IF k < base THEN 1 ELSE 0)
                                      + (IF k > base THEN Copies(deferred[s], k) ELSE 0)]
<1>1. s \in Symbols /\ base \in 1..(MaxTxn + 1)
  BY HeadOfResponse DEF OnSnapshot
<1>2. \A k \in Txns : Copies(deferred[s], k) \in Nat
  BY <1>1, CopiesType DEF TypeOK
<1>3. applied' = [applied EXCEPT ![s] = fresh]
  BY DEF OnSnapshot
<1>4. fresh \in [Txns -> Nat]
  BY <1>1, <1>2 DEF Txns
<1>5. applied' \in [Symbols -> [Txns -> Nat]] /\ applied'[s] = fresh
  BY <1>1, <1>3, <1>4 DEF TypeOK
<1>6. \A k \in Txns : applied'[s][k] =
        (IF k < base THEN 1 ELSE 0) + (IF k > base THEN Copies(deferred[s], k) ELSE 0)
  BY <1>5
<1> QED
  BY <1>5, <1>6 DEF OnSnapshot, network, Recovered

LEMMA SnapshotType ==
  ASSUME TypeOK, OnSnapshot
  PROVE  TypeOK'
<1> DEFINE s == Head(response).sym
           base == Head(response).txn
<1>1. s \in Symbols /\ base \in 1..(MaxTxn + 1)
  BY HeadOfResponse DEF OnSnapshot
<1>2. /\ applied' \in [Symbols -> [Txns -> Nat]]
      /\ deferred' = [deferred EXCEPT ![s] = <<>>]
      /\ lastSnap' = [lastSnap EXCEPT ![s] = base]
      /\ txnId' = base
      /\ recovering' = FALSE /\ response' = <<>>
      /\ UNCHANGED <<nextTxn, udp, copies, request, accepted, clients, cut>>
  BY SnapshotFacts
<1> HIDE DEF s, base
<1>3. response' \in Seq([sym : Symbols, txn : 1..(MaxTxn + 1)])
  BY <1>2, EmptyInSeq
<1>4. /\ deferred' \in [Symbols -> Seq(Txns)]
      /\ lastSnap' \in [Symbols -> 0..(MaxTxn + 1)]
      /\ txnId' \in 0..(MaxTxn + 1)
  BY <1>1, <1>2, EmptyInSeq, MdFeedAssumption DEF TypeOK
<1> QED
  BY <1>2, <1>3, <1>4 DEF TypeOK

LEMMA TypeStep ==
  ASSUME TypeOK, [Next]_vars
  PROVE  TypeOK'
<1>1. CASE UNCHANGED vars
  BY <1>1 DEF vars, TypeOK
<1> QED
  BY <1>1, PublishType, LoseType, DuplicateType, ConnectionType, DeliverType,
     SnapshotType DEF Next

\* Every state of the feed and of Md is of the types TypeOK lists; a connection
\* is only accepted while a request is under way.
THEOREM TypeCorrect == Spec => []TypeOK
<1> QED
  BY InitType, TypeStep, PTL DEF Spec

-----------------------------------------------------------------------------
(* What Md misses.                                                          *)

\* txn_id_ is one number for all symbols, so that with two of them nothing of
\* the following holds (the run two_symbols).
OneSymbol == \A s, t \in Symbols : s = t

LEMMA ApplyFacts ==
  ASSUME TypeOK, NEW m \in Datagram, ApplyNow(m)
  PROVE  /\ txnId' = m.txn
         /\ \A t \in Symbols, k \in Txns :
              applied'[t][k] = applied[t][k] + IF t = m.sym /\ k = m.txn THEN 1 ELSE 0
<1> DEFINE s == m.sym
           j == m.txn
<1>1. s \in Symbols /\ j \in Txns /\ applied \in [Symbols -> [Txns -> Nat]]
  BY DEF Datagram, TypeOK
<1>2. applied' = [applied EXCEPT ![s][j] = @ + 1] /\ txnId' = j
  BY DEF ApplyNow
<1> HIDE DEF s, j
<1>3. \A t \in Symbols, k \in Txns :
        applied'[t][k] = applied[t][k] + IF t = s /\ k = j THEN 1 ELSE 0
  BY <1>1, <1>2
<1> QED
  BY <1>2, <1>3 DEF s, j

\* Only a delivery and a snapshot change what Md knows.
LEMMA MdUnchanged ==
  ASSUME \/ \E s \in Symbols : Publish(s)
         \/ Lose \/ Duplicate \/ Accept \/ AcceptOrders \/ Answer \/ Disconnect
  PROVE  UNCHANGED md
BY DEF Publish, Lose, Duplicate, Accept, AcceptOrders, Answer, Disconnect, md

LEMMA MissedStep ==
  ASSUME OneSymbol, TypeOK, OnlySnapshotIdMissed, [Next]_vars
  PROVE  OnlySnapshotIdMissed'
<1>1. CASE UNCHANGED md
  BY <1>1 DEF md, OnlySnapshotIdMissed
<1>2. CASE Deliver
  <2>1. PICK i \in DOMAIN udp : udp[i] \in Datagram /\ Receive(udp[i])
    BY <1>2, Delivered
  <2>2. CASE Defer(udp[i])
    BY <2>2 DEF Defer, OnlySnapshotIdMissed
  <2>3. CASE Recover(udp[i].sym)
    BY <2>3 DEF Recover, OnlySnapshotIdMissed
  <2>4. CASE ~recovering /\ ~Gap(udp[i]) /\ ApplyNow(udp[i])
    <3> DEFINE m == udp[i]
    <3>1. /\ m.sym \in Symbols /\ m.txn \in Txns
          /\ m.txn = txnId \/ m.txn = txnId + 1
      BY <2>1, <2>4, NoGap DEF Datagram
    <3>2. /\ txnId' = m.txn
          /\ \A t \in Symbols, k \in Txns :
               applied'[t][k] = applied[t][k] + IF t = m.sym /\ k = m.txn THEN 1 ELSE 0
      BY <2>1, <2>4, ApplyFacts
    <3> HIDE DEF m
    <3> SUFFICES ASSUME NEW t \in Symbols, NEW k \in Txns,
                        k <= txnId', applied'[t][k] = 0
                 PROVE  k = lastSnap[t]
      BY <2>4 DEF OnlySnapshotIdMissed, ApplyNow
    <3>3. t = m.sym
      BY <3>1 DEF OneSymbol
    <3>4. applied[t][k] \in Nat /\ k \in Nat /\ txnId \in Nat
      BY MdFeedAssumption DEF TypeOK, Txns
    <3>5. k # m.txn /\ applied[t][k] = 0
      BY <3>2, <3>3, <3>4
    <3>6. k <= txnId
      BY <3>1, <3>2, <3>4, <3>5
    <3> QED
      BY <2>4, <3>5, <3>6 DEF OnlySnapshotIdMissed
  <2> QED
    BY <2>1, <2>2, <2>3, <2>4 DEF Receive
<1>3. CASE OnSnapshot
  <2> DEFINE s == Head(response).sym
             base == Head(response).txn
  <2>1. s \in Symbols /\ base \in 1..(MaxTxn + 1)
    BY <1>3, HeadOfResponse DEF OnSnapshot
  <2>2. /\ \A k \in Txns : applied'[s][k] =
             (IF k < base THEN 1 ELSE 0) + (IF k > base THEN Copies(deferred[s], k) ELSE 0)
        /\ lastSnap' = [lastSnap EXCEPT ![s] = base]
        /\ txnId' = base
    BY <1>3, SnapshotFacts
  <2> HIDE DEF s, base
  <2> SUFFICES ASSUME NEW t \in Symbols, NEW k \in Txns,
                      k <= txnId', applied'[t][k] = 0
               PROVE  k = lastSnap'[t]
    BY DEF OnlySnapshotIdMissed
  <2>3. t = s /\ lastSnap'[t] = base
    BY <2>1, <2>2 DEF OneSymbol, TypeOK
  <2>4. k \in Nat /\ base \in Nat /\ ~(k < base)
    BY <2>1, <2>2, <2>3 DEF Txns
  <2> QED
    BY <2>2, <2>3, <2>4
<1> QED
  <2>1. vars' = vars => UNCHANGED md
    BY DEF vars, md
  <2> QED
    BY <1>1, <1>2, <1>3, <2>1, MdUnchanged DEF Next

\* With one symbol, and whatever the network does: while Md is not recovering it
\* has applied every transaction up to txn_id_, but for at most the one whose id
\* its last snapshot carried (md.cpp, on_snapshot).  An induction of its own: a
\* snapshot establishes it, and no datagram that passes the test for gaps
\* breaks it.
THEOREM NothingElseMissed ==
  ASSUME OneSymbol
  PROVE  Spec => []OnlySnapshotIdMissed
<1>1. Init => OnlySnapshotIdMissed
  BY MdFeedAssumption DEF Init, OnlySnapshotIdMissed, Txns
<1>2. TypeOK /\ OnlySnapshotIdMissed /\ [Next]_vars => OnlySnapshotIdMissed'
  BY MissedStep
<1> QED
  BY <1>1, <1>2, TypeCorrect, PTL DEF Spec

-----------------------------------------------------------------------------
(* How often a transaction is applied.                                      *)

InFlight(s, k) == Copies(udp, [sym |-> s, txn |-> k])

\* A snapshot is under way only during a recovery, one at a time; its id lies
\* between the last id Md has seen and the next one of the exchange.
SnapshotInOrder ==
  /\ request # NoSymbol => recovering /\ response = <<>>
  /\ response # <<>> => recovering /\ Len(response) = 1
  /\ \A i \in DOMAIN response :
       response[i].txn \in txnId..nextTxn[response[i].sym]
  /\ \A s \in Symbols : lastSnap[s] <= txnId /\ txnId <= nextTxn[s]

\* A transaction that was not sent is nowhere.
NothingUnsent ==
  \A s \in Symbols, k \in Txns : k >= nextTxn[s] =>
    applied[s][k] = 0 /\ Copies(deferred[s], k) = 0 /\ InFlight(s, k) = 0

\* Sent since the last snapshot, it is applied, deferred or under way, and no
\* more often than once and the duplicates.  (One that is in the snapshot may
\* be under way as well: it will be taken for a gap, or deferred and dropped.)
CopiesBounded ==
  \A s \in Symbols, k \in Txns : k >= lastSnap[s] =>
    applied[s][k] + Copies(deferred[s], k) + InFlight(s, k) <= 1 + copies

IInv == SnapshotInOrder /\ NothingUnsent /\ CopiesBounded /\ AppliedOnce

LEMMA Counted ==
  ASSUME TypeOK, NEW s \in Symbols, NEW k \in Txns
  PROVE  /\ applied[s][k] \in Nat /\ Copies(deferred[s], k) \in Nat
         /\ InFlight(s, k) \in Nat
         /\ k \in Nat /\ nextTxn[s] \in Nat /\ lastSnap[s] \in Nat /\ txnId \in Nat
         /\ copies \in Nat
         /\ deferred[s] \in Seq(Txns)
<1>1. deferred[s] \in Seq(Txns) /\ udp \in Seq(Datagram)
  BY DEF TypeOK
<1>2. Copies(deferred[s], k) \in Nat /\ InFlight(s, k) \in Nat
  BY <1>1, CopiesType DEF InFlight
<1>3. applied[s][k] \in Nat /\ nextTxn[s] \in 1..(MaxTxn + 1) /\ lastSnap[s] \in 0..(MaxTxn + 1)
  BY DEF TypeOK
<1> QED
  BY <1>1, <1>2, <1>3, MdFeedAssumption DEF TypeOK, Txns

LEMMA ResponseTypes ==
  ASSUME TypeOK
  PROVE  \A i \in DOMAIN response : response[i].sym \in Symbols /\ response[i].txn \in Nat
<1> DEFINE Response == [sym : Symbols, txn : 1..(MaxTxn + 1)]
<1>1. response \in Seq(Response)
  BY DEF TypeOK
<1>2. \A x \in Response : x.sym \in Symbols /\ x.txn \in Nat
  BY MdFeedAssumption
<1> HIDE DEF Response
<1> QED
  BY <1>1, <1>2

LEMMA InitIInv == Init => IInv
<1> SUFFICES ASSUME Init
             PROVE  IInv
  OBVIOUS
<1>1. \A s \in Symbols, k \in Txns :
        /\ applied[s][k] = 0 /\ Copies(deferred[s], k) = 0 /\ InFlight(s, k) = 0
        /\ lastSnap[s] = 0 /\ nextTxn[s] = 1
  BY CopiesEmpty DEF Init, InFlight
<1> QED
  BY <1>1 DEF Init, IInv, SnapshotInOrder, NothingUnsent, CopiesBounded, AppliedOnce

\* Nothing that is counted changes.
LEMMA CountsUnchanged ==
  ASSUME UNCHANGED <<nextTxn, udp, copies, deferred, applied, lastSnap>>,
         NothingUnsent, CopiesBounded, AppliedOnce
  PROVE  NothingUnsent' /\ CopiesBounded' /\ AppliedOnce'
BY DEF NothingUnsent, CopiesBounded, AppliedOnce, InFlight

LEMMA PublishIInv ==
  ASSUME TypeOK, IInv, NEW s \in Symbols, Publish(s)
  PROVE  IInv'
<1> DEFINE m == [sym |-> s, txn |-> nextTxn[s]]
<1>1. nextTxn[s] \in Txns /\ m \in Datagram
  BY MdFeedAssumption DEF TypeOK, Publish, Txns, Datagram
<1>2. /\ nextTxn' = [nextTxn EXCEPT ![s] = @ + 1]
      /\ udp' = Append(udp, m)
      /\ UNCHANGED <<copies, request, accepted, clients, response, txnId, recovering,
                     deferred, applied, lastSnap>>
  BY DEF Publish, snapshot, md
<1>3. \A t \in Symbols, k \in Txns :
        InFlight(t, k)' = InFlight(t, k) + IF t = s /\ k = nextTxn[s] THEN 1 ELSE 0
  <2> SUFFICES ASSUME NEW t \in Symbols, NEW k \in Txns
               PROVE  InFlight(t, k)' = InFlight(t, k)
                                          + IF t = s /\ k = nextTxn[s] THEN 1 ELSE 0
    OBVIOUS
  <2>1. [sym |-> t, txn |-> k] = m <=> t = s /\ k = nextTxn[s]
    OBVIOUS
  <2>2. udp \in Seq(Datagram)
    BY DEF TypeOK
  <2> HIDE DEF m
  <2>3. Copies(udp', [sym |-> t, txn |-> k]) =
          Copies(udp, [sym |-> t, txn |-> k])
            + IF [sym |-> t, txn |-> k] = m THEN 1 ELSE 0
    BY <1>1, <1>2, <2>2, CopiesAppend
  <2> QED
    BY <2>1, <2>3 DEF InFlight
<1>4. /\ nextTxn'[s] = nextTxn[s] + 1
      /\ \A t \in Symbols : nextTxn'[t] >= nextTxn[t]
      /\ \A t \in Symbols : nextTxn[t] \in Nat /\ nextTxn'[t] \in Nat
  BY <1>2, MdFeedAssumption DEF TypeOK
<1>5. SnapshotInOrder'
  <2>1. \A i \in DOMAIN response : response[i].sym \in Symbols /\ response[i].txn \in Nat
    BY ResponseTypes
  <2>2. txnId \in Nat /\ \A t \in Symbols : lastSnap[t] \in Nat
    BY MdFeedAssumption DEF TypeOK
  <2> QED
    BY <1>2, <1>4, <2>1, <2>2 DEF IInv, SnapshotInOrder
<1>6. NothingUnsent' /\ CopiesBounded' /\ AppliedOnce'
  <2> SUFFICES ASSUME NEW t \in Symbols, NEW k \in Txns
               PROVE  /\ k >= nextTxn'[t] =>
                           /\ applied'[t][k] = 0 /\ Copies(deferred'[t], k) = 0
                           /\ InFlight(t, k)' = 0
                      /\ k >= lastSnap'[t] =>
                           applied'[t][k] + Copies(deferred'[t], k) + InFlight(t, k)'
                             <= 1 + copies'
                      /\ applied'[t][k] <= 1 + copies'
    BY DEF NothingUnsent, CopiesBounded, AppliedOnce
  <2>1. /\ applied[t][k] \in Nat /\ Copies(deferred[t], k) \in Nat
        /\ InFlight(t, k) \in Nat
        /\ k \in Nat /\ nextTxn[t] \in Nat /\ lastSnap[t] \in Nat /\ copies \in Nat
    BY Counted
  <2>2. k >= nextTxn[t] => applied[t][k] = 0 /\ Copies(deferred[t], k) = 0 /\ InFlight(t, k) = 0
    BY DEF IInv, NothingUnsent
  <2>3. /\ InFlight(t, k)' = InFlight(t, k) + IF t = s /\ k = nextTxn[s] THEN 1 ELSE 0
        /\ applied'[t][k] = applied[t][k] /\ deferred'[t] = deferred[t]
        /\ lastSnap'[t] = lastSnap[t] /\ copies' = copies
    BY <1>2, <1>3
  <2>4. k >= nextTxn'[t] => k >= nextTxn[t] /\ ~(t = s /\ k = nextTxn[s])
    BY <1>4, <2>1
  <2>5. k >= lastSnap[t] => applied[t][k] + Copies(deferred[t], k) + InFlight(t, k) <= 1 + copies
    BY DEF IInv, CopiesBounded
  <2>6. applied[t][k] <= 1 + copies
    BY DEF IInv, AppliedOnce
  <2> QED
    BY <2>1, <2>2, <2>3, <2>4, <2>5, <2>6
<1> QED
  BY <1>5, <1>6 DEF IInv

\* A datagram leaves the network.
LEMMA InFlightWithout ==
  ASSUME TypeOK, NEW i \in DOMAIN udp, OneLess(udp, i, udp'), udp' \in Seq(Datagram),
         NEW s \in Symbols, NEW k \in Txns
  PROVE  InFlight(s, k) = InFlight(s, k)'
           + IF s = udp[i].sym /\ k = udp[i].txn THEN 1 ELSE 0
<1>1. udp \in Seq(Datagram) /\ udp[i] \in Datagram
  BY DEF TypeOK
<1>2. [sym |-> s, txn |-> k] = udp[i] <=> s = udp[i].sym /\ k = udp[i].txn
  BY <1>1 DEF Datagram
<1>3. Copies(udp, [sym |-> s, txn |-> k]) =
        Copies(udp', [sym |-> s, txn |-> k])
          + IF [sym |-> s, txn |-> k] = udp[i] THEN 1 ELSE 0
  BY <1>1, CopiesWithout
<1> QED
  BY <1>2, <1>3 DEF InFlight

LEMMA LoseIInv ==
  ASSUME TypeOK, TypeOK', IInv, Lose
  PROVE  IInv'
<1>1. PICK i \in DOMAIN udp : udp' = RemoveAt(udp, i)
  BY DEF Lose
<1>2. udp' \in Seq(Datagram) /\ OneLess(udp, i, udp')
  BY <1>1, RemoveAtIsWithout DEF TypeOK
<1>3. UNCHANGED <<nextTxn, copies, request, response, txnId, recovering, deferred,
                  applied, lastSnap>>
  BY DEF Lose, snapshot, md
<1>4. SnapshotInOrder'
  BY <1>3 DEF IInv, SnapshotInOrder
<1>5. \A s \in Symbols, k \in Txns :
        InFlight(s, k)' \in Nat /\ InFlight(s, k) \in Nat /\ InFlight(s, k)' <= InFlight(s, k)
  <2> TAKE s \in Symbols, k \in Txns
  <2>1. Copies(udp', [sym |-> s, txn |-> k]) \in Nat
    BY <1>2, CopiesType
  <2> QED
    BY <1>2, <2>1, InFlightWithout, Counted DEF InFlight
<1>6. NothingUnsent'
  BY <1>3, <1>5 DEF IInv, NothingUnsent
<1>7. CopiesBounded'
  <2> SUFFICES ASSUME NEW s \in Symbols, NEW k \in Txns, k >= lastSnap[s]
               PROVE  applied[s][k] + Copies(deferred[s], k) + InFlight(s, k)' <= 1 + copies
    BY <1>3 DEF CopiesBounded
  <2>1. applied[s][k] \in Nat /\ Copies(deferred[s], k) \in Nat /\ copies \in Nat
    BY Counted
  <2>2. applied[s][k] + Copies(deferred[s], k) + InFlight(s, k) <= 1 + copies
    BY DEF IInv, CopiesBounded
  <2>3. InFlight(s, k)' \in Nat /\ InFlight(s, k) \in Nat /\ InFlight(s, k)' <= InFlight(s, k)
    BY <1>5
  <2> QED
    BY ONLY <2>1, <2>2, <2>3
<1>8. AppliedOnce'
  BY <1>3 DEF IInv, AppliedOnce
<1> QED
  BY <1>4, <1>6, <1>7, <1>8 DEF IInv

LEMMA DuplicateIInv ==
  ASSUME TypeOK, IInv, Duplicate
  PROVE  IInv'
<1>1. PICK i \in DOMAIN udp : udp' = InsertAt(udp, i, udp[i])
  BY DEF Duplicate
<1>2. udp \in Seq(Datagram) /\ udp[i] \in Datagram
  BY DEF TypeOK
<1>3. udp' \in Seq(Datagram) /\ udp'[i] = udp[i] /\ OneLess(udp', i, udp)
  BY <1>1, <1>2, InsertAtIsWithout
<1>4. /\ UNCHANGED <<nextTxn, request, response, txnId, recovering, deferred, applied, lastSnap>>
      /\ copies' = copies + 1
  BY DEF Duplicate, snapshot, md
<1>5. SnapshotInOrder'
  BY <1>4 DEF IInv, SnapshotInOrder
<1>6. \A s \in Symbols, k \in Txns :
        InFlight(s, k)' = InFlight(s, k) + IF s = udp[i].sym /\ k = udp[i].txn THEN 1 ELSE 0
  <2> TAKE s \in Symbols, k \in Txns
  <2>1. [sym |-> s, txn |-> k] = udp[i] <=> s = udp[i].sym /\ k = udp[i].txn
    BY <1>2 DEF Datagram
  <2>2. Copies(udp', [sym |-> s, txn |-> k]) =
          Copies(udp, [sym |-> s, txn |-> k])
            + IF [sym |-> s, txn |-> k] = udp'[i] THEN 1 ELSE 0
    BY <1>2, <1>3, CopiesWithout
  <2> QED
    BY <1>3, <2>1, <2>2 DEF InFlight
\* Only what is under way is duplicated.
<1>7. InFlight(udp[i].sym, udp[i].txn) # 0
  <2>1. udp[i] = [sym |-> udp[i].sym, txn |-> udp[i].txn]
    BY <1>2 DEF Datagram
  <2> QED
    BY <1>2, <2>1, CopiesPositive DEF InFlight
<1>8. NothingUnsent' /\ CopiesBounded' /\ AppliedOnce'
  <2> SUFFICES ASSUME NEW t \in Symbols, NEW k \in Txns
               PROVE  /\ k >= nextTxn'[t] =>
                           /\ applied'[t][k] = 0 /\ Copies(deferred'[t], k) = 0
                           /\ InFlight(t, k)' = 0
                      /\ k >= lastSnap'[t] =>
                           applied'[t][k] + Copies(deferred'[t], k) + InFlight(t, k)'
                             <= 1 + copies'
                      /\ applied'[t][k] <= 1 + copies'
    BY DEF NothingUnsent, CopiesBounded, AppliedOnce
  <2>1. /\ applied[t][k] \in Nat /\ Copies(deferred[t], k) \in Nat
        /\ InFlight(t, k) \in Nat
        /\ k \in Nat /\ nextTxn[t] \in Nat /\ lastSnap[t] \in Nat /\ copies \in Nat
    BY Counted
  <2>2. t = udp[i].sym /\ k = udp[i].txn => ~(k >= nextTxn[t])
    BY <1>7 DEF IInv, NothingUnsent
  <2> QED
    BY <1>4, <1>6, <2>1, <2>2 DEF IInv, NothingUnsent, CopiesBounded, AppliedOnce
<1> QED
  BY <1>5, <1>8 DEF IInv

LEMMA ConnectionIInv ==
  ASSUME TypeOK, IInv, Accept \/ AcceptOrders \/ Answer \/ Disconnect, OneSymbol
  PROVE  IInv'
<1>1. UNCHANGED <<nextTxn, udp, copies, txnId, recovering, deferred, applied, lastSnap>>
  BY DEF Accept, AcceptOrders, Answer, Disconnect, network, md
<1>2. NothingUnsent' /\ CopiesBounded' /\ AppliedOnce'
  BY <1>1, CountsUnchanged DEF IInv
<1>3. SnapshotInOrder'
  <2>1. CASE Accept \/ AcceptOrders
    BY <1>1, <2>1 DEF Accept, AcceptOrders, IInv, SnapshotInOrder
  <2>2. CASE Answer
    <3> DEFINE r == [sym |-> request, txn |-> nextTxn[request]]
    <3>1. request \in Symbols /\ recovering /\ response = <<>>
      BY <2>2 DEF Answer, TypeOK, IInv, SnapshotInOrder
    <3>2. response' = <<r>> /\ request' = NoSymbol
      BY <2>2, <3>1 DEF Answer, SnapTxn
    <3>3. r.txn \in txnId..nextTxn[r.sym]
      BY <3>1, MdFeedAssumption DEF IInv, SnapshotInOrder, TypeOK
    <3> HIDE DEF r
    <3>4. Len(response') = 1 /\ \A i \in DOMAIN response' : response'[i] = r
      BY <3>2
    <3> QED
      BY <1>1, <3>1, <3>2, <3>3, <3>4 DEF IInv, SnapshotInOrder
  <2>3. CASE Disconnect
    BY <1>1, <2>3 DEF Disconnect, IInv, SnapshotInOrder
  <2> QED
    BY <2>1, <2>2, <2>3
<1> QED
  BY <1>2, <1>3 DEF IInv

LEMMA DeliverIInv ==
  ASSUME TypeOK, TypeOK', IInv, Deliver, OneSymbol
  PROVE  IInv'
<1>1. PICK i \in DOMAIN udp :
        /\ udp[i] \in Datagram /\ udp[i].sym \in Symbols /\ udp[i].txn \in Txns
        /\ Receive(udp[i])
        /\ udp' \in Seq(Datagram)
        /\ OneLess(udp, i, udp')
  BY Delivered
<1> DEFINE m == udp[i]
           s == udp[i].sym
           j == udp[i].txn
<1>2. nextTxn' = nextTxn /\ copies' = copies
  BY DEF Deliver
<1>3. \A t \in Symbols, k \in Txns :
        InFlight(t, k) = InFlight(t, k)' + IF t = s /\ k = j THEN 1 ELSE 0
  BY <1>1, InFlightWithout
<1>4. \A t \in Symbols, k \in Txns : InFlight(t, k)' \in Nat
  BY <1>1, CopiesType DEF InFlight
\* It was sent.
<1>5. j < nextTxn[s]
  <2>1. InFlight(s, j) # 0 /\ j \in Nat /\ nextTxn[s] \in Nat
    BY <1>1, <1>3, <1>4, Counted
  <2> QED
    BY <1>1, <2>1 DEF IInv, NothingUnsent
<1> HIDE DEF m, s, j
<1>6. CASE Defer(m)
  <2>1. /\ deferred' = [deferred EXCEPT ![s] = Append(@, j)]
        /\ UNCHANGED <<request, response, txnId, recovering, applied, lastSnap>>
    BY <1>6 DEF Defer, snapshot, m, s, j
  <2>2. \A t \in Symbols, k \in Txns :
          Copies(deferred'[t], k) =
            Copies(deferred[t], k) + IF t = s /\ k = j THEN 1 ELSE 0
    <3> TAKE t \in Symbols, k \in Txns
    <3>1. s \in Symbols /\ j \in Txns
      BY <1>1 DEF s, j
    <3>2. deferred[s] \in Seq(Txns) /\ Copies(deferred[t], k) \in Nat
      BY <3>1, Counted DEF TypeOK
    <3>3. Copies(Append(deferred[s], j), k) = Copies(deferred[s], k) + IF k = j THEN 1 ELSE 0
      BY <3>1, <3>2, CopiesAppend
    <3>4. deferred'[t] = IF t = s THEN Append(deferred[s], j) ELSE deferred[t]
      BY <2>1, <3>1 DEF TypeOK
    <3> QED
      BY <3>2, <3>3, <3>4
  <2>3. SnapshotInOrder'
    BY <1>2, <2>1 DEF IInv, SnapshotInOrder
  <2>4. ASSUME NEW t \in Symbols, NEW k \in Txns
        PROVE  /\ k >= nextTxn'[t] =>
                    /\ applied'[t][k] = 0 /\ Copies(deferred'[t], k) = 0
                    /\ InFlight(t, k)' = 0
               /\ k >= lastSnap'[t] =>
                    applied'[t][k] + Copies(deferred'[t], k) + InFlight(t, k)'
                      <= 1 + copies'
               /\ applied'[t][k] <= 1 + copies'
    <3>1. /\ applied[t][k] \in Nat /\ Copies(deferred[t], k) \in Nat
          /\ InFlight(t, k) \in Nat /\ InFlight(t, k)' \in Nat
          /\ k \in Nat /\ nextTxn[t] \in Nat /\ lastSnap[t] \in Nat /\ copies \in Nat
      BY <1>4, Counted
    <3>2. /\ k >= nextTxn[t] => /\ applied[t][k] = 0 /\ Copies(deferred[t], k) = 0
                                /\ InFlight(t, k) = 0
          /\ k >= lastSnap[t] =>
               applied[t][k] + Copies(deferred[t], k) + InFlight(t, k) <= 1 + copies
          /\ applied[t][k] <= 1 + copies
      BY DEF IInv, NothingUnsent, CopiesBounded, AppliedOnce
    <3>3. /\ InFlight(t, k) = InFlight(t, k)' + IF t = s /\ k = j THEN 1 ELSE 0
          /\ Copies(deferred'[t], k) =
               Copies(deferred[t], k) + IF t = s /\ k = j THEN 1 ELSE 0
          /\ applied'[t][k] = applied[t][k]
          /\ nextTxn'[t] = nextTxn[t] /\ lastSnap'[t] = lastSnap[t] /\ copies' = copies
      BY <1>2, <1>3, <2>1, <2>2
    <3> QED
      BY <1>5, <3>1, <3>2, <3>3
  <2> QED
    BY <2>3, <2>4 DEF IInv, NothingUnsent, CopiesBounded, AppliedOnce
<1>7. CASE ~recovering /\ Recover(s)
  <2>1. /\ UNCHANGED <<response, txnId, deferred, applied, lastSnap>>
        /\ recovering'
        /\ request' = s \/ request' = request
    BY <1>7 DEF Recover
  <2>2. SnapshotInOrder'
    <3>1. request = NoSymbol /\ response = <<>>
      BY <1>7 DEF IInv, SnapshotInOrder
    <3> QED
      BY <1>2, <2>1, <3>1 DEF IInv, SnapshotInOrder
  <2>3. ASSUME NEW t \in Symbols, NEW k \in Txns
        PROVE  /\ k >= nextTxn'[t] =>
                    /\ applied'[t][k] = 0 /\ Copies(deferred'[t], k) = 0
                    /\ InFlight(t, k)' = 0
               /\ k >= lastSnap'[t] =>
                    applied'[t][k] + Copies(deferred'[t], k) + InFlight(t, k)'
                      <= 1 + copies'
               /\ applied'[t][k] <= 1 + copies'
    <3>1. /\ applied[t][k] \in Nat /\ Copies(deferred[t], k) \in Nat
          /\ InFlight(t, k) \in Nat /\ InFlight(t, k)' \in Nat
          /\ k \in Nat /\ nextTxn[t] \in Nat /\ lastSnap[t] \in Nat /\ copies \in Nat
      BY <1>4, Counted
    <3>2. InFlight(t, k)' <= InFlight(t, k)
      BY <1>3, <3>1
    <3>3. /\ k >= nextTxn[t] => /\ applied[t][k] = 0 /\ Copies(deferred[t], k) = 0
                                /\ InFlight(t, k) = 0
          /\ k >= lastSnap[t] =>
               applied[t][k] + Copies(deferred[t], k) + InFlight(t, k) <= 1 + copies
          /\ applied[t][k] <= 1 + copies
      BY DEF IInv, NothingUnsent, CopiesBounded, AppliedOnce
    <3> QED
      BY <1>2, <2>1, <3>1, <3>2, <3>3
  <2> QED
    BY <2>2, <2>3 DEF IInv, NothingUnsent, CopiesBounded, AppliedOnce
<1>8. CASE ~recovering /\ ~Gap(m) /\ ApplyNow(m)
  <2>1. /\ txnId' = j
        /\ \A t \in Symbols, k \in Txns :
             applied'[t][k] = applied[t][k] + IF t = s /\ k = j THEN 1 ELSE 0
    BY <1>1, <1>8, ApplyFacts DEF m, s, j
  <2>2. j = txnId \/ j = txnId + 1
    BY <1>1, <1>8, NoGap DEF m, j
  <2>3. UNCHANGED <<request, response, recovering, deferred, lastSnap>>
    BY <1>8 DEF ApplyNow, snapshot
  <2>4. s \in Symbols /\ j \in Txns /\ \A t \in Symbols : t = s
    BY <1>1 DEF s, j, OneSymbol
  <2>5. /\ txnId \in Nat /\ lastSnap[s] \in Nat /\ nextTxn[s] \in Nat /\ j \in Nat
        /\ lastSnap[s] <= txnId
    BY <2>4, Counted DEF IInv, SnapshotInOrder
  <2>6. SnapshotInOrder'
    <3>1. response = <<>> /\ DOMAIN response = {}
      BY <1>8 DEF IInv, SnapshotInOrder
    <3> QED
      BY <1>2, <1>5, <1>8, <2>1, <2>2, <2>3, <2>4, <2>5, <3>1 DEF IInv, SnapshotInOrder
  <2>7. ASSUME NEW t \in Symbols, NEW k \in Txns
        PROVE  /\ k >= nextTxn'[t] =>
                    /\ applied'[t][k] = 0 /\ Copies(deferred'[t], k) = 0
                    /\ InFlight(t, k)' = 0
               /\ k >= lastSnap'[t] =>
                    applied'[t][k] + Copies(deferred'[t], k) + InFlight(t, k)'
                      <= 1 + copies'
               /\ applied'[t][k] <= 1 + copies'
    <3>1. /\ applied[t][k] \in Nat /\ Copies(deferred[t], k) \in Nat
          /\ InFlight(t, k) \in Nat /\ InFlight(t, k)' \in Nat
          /\ k \in Nat /\ nextTxn[t] \in Nat /\ lastSnap[t] \in Nat /\ copies \in Nat
      BY <1>4, Counted
    <3>2. /\ k >= nextTxn[t] => /\ applied[t][k] = 0 /\ Copies(deferred[t], k) = 0
                                /\ InFlight(t, k) = 0
          /\ k >= lastSnap[t] =>
               applied[t][k] + Copies(deferred[t], k) + InFlight(t, k) <= 1 + copies
          /\ applied[t][k] <= 1 + copies
      BY DEF IInv, NothingUnsent, CopiesBounded, AppliedOnce
    <3>3. /\ InFlight(t, k) = InFlight(t, k)' + IF t = s /\ k = j THEN 1 ELSE 0
          /\ applied'[t][k] = applied[t][k] + IF t = s /\ k = j THEN 1 ELSE 0
          /\ deferred'[t] = deferred[t]
          /\ nextTxn'[t] = nextTxn[t] /\ lastSnap'[t] = lastSnap[t] /\ copies' = copies
      BY <1>2, <1>3, <2>1, <2>3
    <3>4. t = s /\ k = j => k >= lastSnap[t] /\ ~(k >= nextTxn[t])
      BY <1>5, <2>2, <2>5, <3>1
    <3> QED
      BY <3>1, <3>2, <3>3, <3>4
  <2> QED
    BY <2>6, <2>7 DEF IInv, NothingUnsent, CopiesBounded, AppliedOnce
<1> QED
  BY <1>1, <1>6, <1>7, <1>8 DEF Receive, m, s

LEMMA SnapshotIInv ==
  ASSUME TypeOK, TypeOK', IInv, OnSnapshot, OneSymbol
  PROVE  IInv'
<1> DEFINE s == Head(response).sym
           base == Head(response).txn
<1>1. s \in Symbols /\ base \in 1..(MaxTxn + 1) /\ base \in Nat
  BY HeadOfResponse, MdFeedAssumption DEF OnSnapshot
<1>2. /\ \A k \in Txns : applied'[s][k] =
           (IF k < base THEN 1 ELSE 0) + (IF k > base THEN Copies(deferred[s], k) ELSE 0)
      /\ deferred' = [deferred EXCEPT ![s] = <<>>]
      /\ lastSnap' = [lastSnap EXCEPT ![s] = base]
      /\ txnId' = base
      /\ recovering' = FALSE /\ response' = <<>>
      /\ UNCHANGED <<nextTxn, udp, copies, request, accepted, clients, cut>>
  BY SnapshotFacts
<1>3. /\ base \in txnId..nextTxn[s]
      /\ request = NoSymbol
  BY HeadOfResponse DEF OnSnapshot, IInv, SnapshotInOrder
<1> HIDE DEF s, base
<1>4. \A t \in Symbols :
        t = s /\ deferred'[t] = <<>> /\ lastSnap'[t] = base /\ nextTxn'[t] = nextTxn[t]
  BY <1>1, <1>2 DEF OneSymbol, TypeOK
<1>5. /\ txnId \in Nat /\ nextTxn[s] \in Nat /\ lastSnap[s] \in Nat
      /\ lastSnap[s] <= base /\ base <= nextTxn[s]
  <2>1. txnId \in Nat /\ nextTxn[s] \in Nat /\ lastSnap[s] \in Nat
    BY <1>1, MdFeedAssumption DEF TypeOK
  <2>2. lastSnap[s] <= txnId
    BY <1>1 DEF IInv, SnapshotInOrder
  <2> QED
    BY <1>1, <1>3, <2>1, <2>2
<1>6. SnapshotInOrder'
  <2>1. DOMAIN response' = {}
    BY <1>2
  <2> QED
    BY <1>1, <1>2, <1>3, <1>4, <1>5, <2>1 DEF SnapshotInOrder
<1>7. ASSUME NEW t \in Symbols, NEW k \in Txns
      PROVE  /\ k >= nextTxn'[t] =>
                  /\ applied'[t][k] = 0 /\ Copies(deferred'[t], k) = 0
                  /\ InFlight(t, k)' = 0
             /\ k >= lastSnap'[t] =>
                  applied'[t][k] + Copies(deferred'[t], k) + InFlight(t, k)'
                    <= 1 + copies'
             /\ applied'[t][k] <= 1 + copies'
  <2>1. /\ applied[t][k] \in Nat /\ Copies(deferred[t], k) \in Nat
        /\ InFlight(t, k) \in Nat
        /\ k \in Nat /\ nextTxn[t] \in Nat /\ lastSnap[t] \in Nat /\ copies \in Nat
    BY Counted
  <2>2. /\ k >= nextTxn[t] => /\ applied[t][k] = 0 /\ Copies(deferred[t], k) = 0
                              /\ InFlight(t, k) = 0
        /\ k >= lastSnap[t] =>
             applied[t][k] + Copies(deferred[t], k) + InFlight(t, k) <= 1 + copies
    BY DEF IInv, NothingUnsent, CopiesBounded
  <2>3. /\ InFlight(t, k)' = InFlight(t, k)
        /\ Copies(deferred'[t], k) = 0
        /\ nextTxn'[t] = nextTxn[t] /\ lastSnap'[t] = base /\ copies' = copies
    BY <1>2, <1>4, CopiesEmpty DEF InFlight
  <2>4. applied'[t][k] =
          (IF k < base THEN 1 ELSE 0) + (IF k > base THEN Copies(deferred[t], k) ELSE 0)
    BY <1>2, <1>4
  <2>5. t = s
    BY <1>4
  <2> QED
    BY <1>1, <1>5, <2>1, <2>2, <2>3, <2>4, <2>5
<1> QED
  BY <1>6, <1>7 DEF IInv, NothingUnsent, CopiesBounded, AppliedOnce

LEMMA IInvStep ==
  ASSUME OneSymbol, TypeOK, TypeOK', IInv, [Next]_vars
  PROVE  IInv'
<1>1. CASE UNCHANGED vars
  BY <1>1 DEF vars, IInv, SnapshotInOrder, NothingUnsent, CopiesBounded, AppliedOnce, InFlight
<1> QED
  BY <1>1, PublishIInv, LoseIInv, DuplicateIInv, ConnectionIInv, DeliverIInv,
     SnapshotIInv DEF Next

\* With one symbol: loss and reordering never make a book count a transaction
\* twice; a duplicate of the network can, once each.  What is replayed after a
\* snapshot (md.cpp, on_snapshot) is newer than the snapshot, and what the
\* snapshot has and the network still carries is taken for a gap: txn_id_ has
\* moved past it.
THEOREM CountedOnce ==
  ASSUME OneSymbol
  PROVE  Spec => []AppliedOnce
<1>1. Init => IInv
  BY InitIInv
<1>2. TypeOK /\ TypeOK' /\ IInv /\ [Next]_vars => IInv'
  BY IInvStep
<1>3. IInv => AppliedOnce
  BY DEF IInv
<1> QED
  BY <1>1, <1>2, <1>3, TypeCorrect, PTL DEF Spec

-----------------------------------------------------------------------------
(* Without faults.                                                          *)

\* What is under way are the next datagrams, in order.
InSequence ==
  Faults = {} =>
    /\ ~recovering /\ request = NoSymbol /\ response = <<>>
    /\ \A i \in DOMAIN udp : udp[i].txn = txnId + i
    /\ \A s \in Symbols : nextTxn[s] = txnId + Len(udp) + 1

LEMMA InSequenceStep ==
  ASSUME OneSymbol, TypeOK, InSequence, [Next]_vars
  PROVE  InSequence'
<1> SUFFICES ASSUME Faults = {}
             PROVE  InSequence'
  BY DEF InSequence
<1>1. /\ ~recovering /\ request = NoSymbol /\ response = <<>>
      /\ \A i \in DOMAIN udp : udp[i].txn = txnId + i
      /\ \A s \in Symbols : nextTxn[s] = txnId + Len(udp) + 1
  BY DEF InSequence
<1>2. /\ txnId \in Nat /\ Len(udp) \in Nat /\ DOMAIN udp = 1..Len(udp)
      /\ udp \in Seq(Datagram)
  BY MdFeedAssumption DEF TypeOK
<1>3. CASE UNCHANGED <<nextTxn, udp, request, response, txnId, recovering>>
  BY <1>1, <1>3 DEF InSequence
<1>4. ASSUME NEW s \in Symbols, Publish(s)
      PROVE  InSequence'
  <2> DEFINE m == [sym |-> s, txn |-> nextTxn[s]]
  <2>1. m \in Datagram /\ m.txn = txnId + (Len(udp) + 1)
    BY <1>1, <1>2, <1>4, MdFeedAssumption DEF TypeOK, Publish, Txns, Datagram
  <2>2. /\ udp' = Append(udp, m)
        /\ nextTxn' = [nextTxn EXCEPT ![s] = @ + 1]
        /\ UNCHANGED <<request, response, txnId, recovering>>
    BY <1>4 DEF Publish, snapshot, md
  <2> HIDE DEF m
  <2>3. /\ Len(udp') = Len(udp) + 1 /\ DOMAIN udp' = 1..(Len(udp) + 1)
        /\ udp'[Len(udp) + 1] = m
        /\ \A i \in 1..Len(udp) : udp'[i] = udp[i]
    BY <1>2, <2>1, <2>2
  <2>4. \A i \in DOMAIN udp' : udp'[i].txn = txnId + i
    <3> TAKE i \in DOMAIN udp'
    <3>1. i \in 1..Len(udp) \/ i = Len(udp) + 1
      BY <1>2, <2>3
    <3> QED
      BY <1>1, <1>2, <2>1, <2>3, <3>1
  <2>5. \A t \in Symbols : nextTxn'[t] = nextTxn[t] + 1
    BY <1>4, <2>2 DEF OneSymbol, TypeOK
  <2> QED
    BY <1>1, <1>2, <2>2, <2>3, <2>4, <2>5 DEF InSequence
<1>5. CASE Deliver
  <2>1. PICK i \in DOMAIN udp : Receive(udp[i]) /\ i = 1 /\ udp' = RemoveAt(udp, i)
    BY <1>5 DEF Deliver
  <2>2. udp[1] \in Datagram /\ 1 \in DOMAIN udp
    BY <1>2, <2>1
  <2>3. OneLess(udp, 1, udp')
    BY <1>2, <2>1, RemoveAtIsWithout
  <2>4. udp' \in Seq(Datagram)
    BY <1>2, <2>1, RemoveAtIsWithout
  \* It is the next one, and no gap.
  <2>5. udp[1].txn = txnId + 1
    BY <1>1, <2>2
  <2>6. ~Gap(udp[1])
    <3>1. TxnMod \in Nat /\ 1 < TxnMod
      BY MdFeedAssumption
    <3>2. udp[1].txn - txnId = 1
      BY <1>2, <2>5
    <3>3. 1 % TxnMod = 1
      BY <3>1
    <3> QED
      BY <3>2, <3>3 DEF Gap
  <2>7. /\ txnId' = txnId + 1
        /\ UNCHANGED <<nextTxn, request, response, recovering>>
    BY <1>1, <1>5, <2>1, <2>5, <2>6 DEF Receive, ApplyNow, Deliver, snapshot
  <2>8. /\ Len(udp') = Len(udp) - 1 /\ Len(udp') \in Nat
        /\ DOMAIN udp' = 1..Len(udp')
        /\ \A j \in 1..Len(udp') : udp'[j] = udp[j + 1] /\ j + 1 \in DOMAIN udp
    BY <1>2, <2>3, <2>4 DEF OneLess
  <2>9. \A j \in DOMAIN udp' : udp'[j].txn = txnId + 1 + j
    <3> TAKE j \in DOMAIN udp'
    <3>1. j \in Nat /\ udp'[j] = udp[j + 1] /\ j + 1 \in DOMAIN udp
      BY <2>8
    <3>2. udp[j + 1].txn = txnId + (j + 1)
      BY <1>1, <3>1
    <3>3. txnId \in Int /\ j \in Int
      BY <1>2, <3>1
    <3> QED
      BY ONLY <3>1, <3>2, <3>3
  <2>10. \A t \in Symbols : nextTxn'[t] = txnId' + Len(udp') + 1
    BY <1>1, <1>2, <2>7, <2>8
  <2>11. \A j \in DOMAIN udp' : udp'[j].txn = txnId' + j
    BY <2>7, <2>9
  <2> QED
    BY <1>1, <2>7, <2>10, <2>11 DEF InSequence
<1>6. CASE UNCHANGED vars \/ Accept \/ AcceptOrders
  BY <1>3, <1>6 DEF vars, Accept, AcceptOrders, network, md
<1>7. ~Lose /\ ~Duplicate /\ ~Answer /\ ~Disconnect /\ ~OnSnapshot
  BY <1>1 DEF Lose, Duplicate, Answer, Disconnect, OnSnapshot
<1> QED
  BY <1>4, <1>5, <1>6, <1>7 DEF Next

\* What the run two_symbols refutes for two symbols holds for one: on a network
\* without faults Md never recovers.
THEOREM NoNeedlessRecovery ==
  ASSUME OneSymbol
  PROVE  Spec => []NeverRecoversWithoutLoss
<1>1. Init => InSequence
  <2>1. Len(<<>>) = 0 /\ DOMAIN <<>> = {}
    OBVIOUS
  <2> QED
    BY <2>1 DEF Init, InSequence
<1>2. TypeOK /\ InSequence /\ [Next]_vars => InSequence'
  BY InSequenceStep
<1>3. InSequence => NeverRecoversWithoutLoss
  BY DEF InSequence, NeverRecoversWithoutLoss
<1> QED
  BY <1>1, <1>2, <1>3, TypeCorrect, PTL DEF Spec
=============================================================================
