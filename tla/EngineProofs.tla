---------------------------- MODULE EngineProofs ----------------------------
(***************************************************************************)
(* Proofs about Engine and its observers, for any symbols, ids, prices and *)
(* quantities.                                                             *)
(*                                                                         *)
(* The inductive invariant IInv is the conjunction of the invariants TLC   *)
(* checks; they need one another.  A fill drops the head of a level: that  *)
(* its id leaves orders_ and nothing else does follows from the index, the *)
(* index from ids being unique, and that a level has a head from no level  *)
(* being empty.                                                            *)
(*                                                                         *)
(* The totals of EngineAudit agree.  What rests under an id is a sum over  *)
(* all places of all books; IInv says that there is at most one such       *)
(* place, so that a step is followed by following that order: it leaves    *)
(* its level, gets smaller, comes to rest, or stays.                       *)
(*                                                                         *)
(* The engine implements the feed: every step is a step of Ladder or none. *)
(* What a level adds up to is a fold over its queue; the steps of the      *)
(* engine take one order out of a queue, append one, or make the first one *)
(* smaller, and all three compare a queue with the queue that lacks one    *)
(* order.                                                                  *)
(*                                                                         *)
(* The engine implements PriceTime: a submit settles the outcome, the loop *)
(* only carries it out.  What is settled is computed from the books and    *)
(* the incoming order as they are: the shares, the remainder and the lines *)
(* still to come.  When the loop takes the first order of the other side   *)
(* whole (Devours), every other order has that much less ahead of it and   *)
(* the taker wants that much less, so every other share is what it was;    *)
(* when it takes a part (Nibbles), no other order has a share; when no     *)
(* price is acceptable none has, and the taker rests.  In each case what   *)
(* is settled is the same before and after.  The shares are sums over the  *)
(* places ahead of an order, so this needs Bounded: finitely many orders   *)
(* rest.  Outcome and Market are instances of the same module for          *)
(* different variables; their operators are shown equal.                   *)
(***************************************************************************)
EXTENDS EngineAudit, EngineImplements, SequenceLemmas

BookOK ==
  /\ book = [s \in Symbols |-> [side \in Sides |-> book[s][side]]]
  /\ \A s \in Symbols, side \in Sides : IsLevelMap(book[s][side])

IInv == TypeOK /\ Uncrossed /\ NoEmptyEntries /\ IndexMatchesBook

-----------------------------------------------------------------------------
(* Levels.                                                                  *)

\* What a level map is.
LEMMA LevelMapFacts ==
  ASSUME NEW levels, IsLevelMap(levels)
  PROVE  /\ DOMAIN levels \subseteq Prices
         /\ levels = [r \in DOMAIN levels |-> levels[r]]
         /\ \A r \in DOMAIN levels : levels[r] \in Seq(Order)
BY DEF IsLevelMap

\* PutLevel changes one key, or erases it with its last order.
LEMMA PutLevelFacts ==
  ASSUME NEW levels, IsLevelMap(levels), NEW p \in Prices, NEW q \in Seq(Order)
  PROVE  /\ IsLevelMap(PutLevel(levels, p, q))
         /\ p \in DOMAIN PutLevel(levels, p, q) <=> q # <<>>
         /\ q # <<>> => PutLevel(levels, p, q)[p] = q
         /\ \A r : r # p =>
              /\ r \in DOMAIN PutLevel(levels, p, q) <=> r \in DOMAIN levels
              /\ r \in DOMAIN levels => PutLevel(levels, p, q)[r] = levels[r]
<1> DEFINE D == IF q = <<>> THEN DOMAIN levels \ {p} ELSE DOMAIN levels \cup {p}
<1>1. /\ DOMAIN levels \subseteq Prices
      /\ \A r \in DOMAIN levels : levels[r] \in Seq(Order)
  BY LevelMapFacts
<1>2. PutLevel(levels, p, q) = [r \in D |-> IF r = p THEN q ELSE levels[r]]
  BY DEF PutLevel
<1>3. D \in SUBSET Prices
  BY <1>1
<1>4. \A r \in D : (IF r = p THEN q ELSE levels[r]) \in Seq(Order)
  BY <1>1
<1>5. PutLevel(levels, p, q) \in [D -> Seq(Order)]
  BY <1>2, <1>4
<1>6. IsLevelMap(PutLevel(levels, p, q))
  BY <1>3, <1>5 DEF IsLevelMap
<1> QED
  BY <1>2, <1>6

\* Every handler that changes a book stores one level of it.
Edit(s, d, p, q) == book' = [book EXCEPT ![s][d] = PutLevel(@, p, q)]

LEMMA EditFacts ==
  ASSUME BookOK, NEW s \in Symbols, NEW d \in Sides, NEW p \in Prices,
         NEW q \in Seq(Order), Edit(s, d, p, q)
  PROVE  /\ BookOK'
         /\ p \in DOMAIN book'[s][d] <=> q # <<>>
         /\ q # <<>> => book'[s][d][p] = q
         /\ \A t \in Symbols, e \in Sides, r \in Prices :
              t # s \/ e # d \/ r # p =>
                /\ r \in DOMAIN book'[t][e] <=> r \in DOMAIN book[t][e]
                /\ r \in DOMAIN book[t][e] => book'[t][e][r] = book[t][e][r]
<1> DEFINE L == PutLevel(book[s][d], p, q)
<1>1. IsLevelMap(book[s][d])
  BY DEF BookOK
<1>2. /\ IsLevelMap(L)
      /\ p \in DOMAIN L <=> q # <<>>
      /\ q # <<>> => L[p] = q
      /\ \A r : r # p =>
           /\ r \in DOMAIN L <=> r \in DOMAIN book[s][d]
           /\ r \in DOMAIN book[s][d] => L[r] = book[s][d][r]
  BY <1>1, PutLevelFacts
<1>3. book' = [t \in Symbols |-> [e \in Sides |->
                 IF t = s /\ e = d THEN L ELSE book[t][e]]]
  BY DEF Edit, BookOK
<1> HIDE DEF L
<1>4. \A t \in Symbols, e \in Sides :
        book'[t][e] = IF t = s /\ e = d THEN L ELSE book[t][e]
  BY <1>3
<1>5. BookOK'
  BY <1>2, <1>3, <1>4 DEF BookOK
<1> QED
  BY <1>2, <1>4, <1>5

\* A level in a book: its price, its queue and what the orders in it are.
LEMMA LevelFacts ==
  ASSUME BookOK, NEW s \in Symbols, NEW d \in Sides, NEW p \in DOMAIN book[s][d]
  PROVE  /\ p \in Prices
         /\ book[s][d][p] \in Seq(Order)
         /\ \A i \in DOMAIN book[s][d][p] : book[s][d][p][i] \in Order
BY LevelMapFacts DEF BookOK

\* Where the index points for an order that rests.
LEMMA IndexedFacts ==
  ASSUME RestingIsIndexed, NEW s \in Symbols, NEW d \in Sides,
         NEW p \in DOMAIN book[s][d], NEW i \in DOMAIN book[s][d][p]
  PROVE  /\ IndexedAt(orders, book[s][d][p][i], s, d, p)
         /\ orders[book[s][d][p][i].id].sym = s
         /\ orders[book[s][d][p][i].id].side = d
         /\ orders[book[s][d][p][i].id].price = p
<1>1. IndexedAt(orders, book[s][d][p][i], s, d, p)
  BY DEF RestingIsIndexed
<1> QED
  BY <1>1 DEF IndexedAt

\* No id twice in a level.
LEMMA UniqueIds ==
  ASSUME RestingIsIndexed, NEW s \in Symbols, NEW d \in Sides,
         NEW p \in DOMAIN book[s][d],
         NEW i \in DOMAIN book[s][d][p], NEW j \in DOMAIN book[s][d][p],
         book[s][d][p][i].id = book[s][d][p][j].id
  PROVE  i = j
BY DEF RestingIsIndexed

-----------------------------------------------------------------------------
(* Taking one order out of a level.                                         *)

\* q is Q without its i-th order.
Drops(Q, i, q) ==
  /\ q \in Seq(Order)
  /\ Len(q) = Len(Q) - 1
  /\ \A j \in 1..Len(q) :
       /\ j < i => q[j] = Q[j]
       /\ j >= i => q[j] = Q[j + 1]

LEMMA TailDrops ==
  ASSUME NEW Q \in Seq(Order), Q # <<>>
  PROVE  Drops(Q, 1, Tail(Q))
BY DEF Drops

LEMMA RemoveAtDrops ==
  ASSUME NEW Q \in Seq(Order), NEW i \in DOMAIN Q
  PROVE  Drops(Q, i, RemoveAt(Q, i))
<1>1. Len(Q) \in Nat /\ i \in Nat
  OBVIOUS
<1>2. RemoveAt(Q, i) \in Seq(Order) /\ OneLess(Q, i, RemoveAt(Q, i))
  BY RemoveAtIsWithout
<1> HIDE DEF RemoveAt
<1> QED
  BY <1>1, <1>2 DEF OneLess, Drops

\* The order leaves the level and the index together, and nothing else moves.
LEMMA DropPreserves ==
  ASSUME BookOK, Uncrossed, NoEmptyEntries, RestingIsIndexed, IndexIsResting,
         \E D \in SUBSET OrderIds : orders \in [D -> OrderRef],
         NEW s \in Symbols, NEW d \in Sides, NEW p \in DOMAIN book[s][d],
         NEW i \in DOMAIN book[s][d][p], NEW q,
         Drops(book[s][d][p], i, q), Edit(s, d, p, q),
         orders' = Without(orders, book[s][d][p][i].id)
  PROVE  /\ BookOK' /\ Uncrossed' /\ RestingIsIndexed' /\ IndexIsResting'
         /\ \A t \in Symbols, e \in Sides : \A r \in DOMAIN book'[t][e] :
              /\ book'[t][e][r] # <<>>
              /\ \A j \in DOMAIN book'[t][e][r] : book'[t][e][r][j].qty > 0
<1> DEFINE Q == book[s][d][p]
           gone == Q[i].id
<1>1. /\ p \in Prices
      /\ Q \in Seq(Order)
      /\ i \in 1..Len(Q)
      /\ q \in Seq(Order)
  BY LevelFacts DEF Drops
<1>2. /\ BookOK'
      /\ p \in DOMAIN book'[s][d] <=> q # <<>>
      /\ q # <<>> => book'[s][d][p] = q
      /\ \A t \in Symbols, e \in Sides, r \in Prices :
           t # s \/ e # d \/ r # p =>
             /\ r \in DOMAIN book'[t][e] <=> r \in DOMAIN book[t][e]
             /\ r \in DOMAIN book[t][e] => book'[t][e][r] = book[t][e][r]
  BY <1>1, EditFacts
<1>3. \A t \in Symbols, e \in Sides : \A r \in DOMAIN book'[t][e] :
        r \in Prices /\ r \in DOMAIN book[t][e]
  BY <1>2, LevelMapFacts DEF BookOK
\* Every order of the new book is an order of the old one, one place further
\* back if it was behind the one that left.
<1>4. ASSUME NEW j \in DOMAIN q
      PROVE  /\ j < i => j \in DOMAIN Q /\ q[j] = Q[j]
             /\ j >= i => j + 1 \in DOMAIN Q /\ q[j] = Q[j + 1]
  BY <1>1 DEF Drops
<1>5. Uncrossed'
  BY <1>3 DEF Uncrossed, Sides
<1>6. ASSUME NEW t \in Symbols, NEW e \in Sides, NEW r \in DOMAIN book'[t][e]
      PROVE  /\ book'[t][e][r] # <<>>
             /\ \A j \in DOMAIN book'[t][e][r] : book'[t][e][r][j].qty > 0
  <2>1. CASE t = s /\ e = d /\ r = p
    BY <1>1, <1>2, <1>4, <2>1 DEF NoEmptyEntries
  <2>2. CASE ~(t = s /\ e = d /\ r = p)
    BY <1>2, <1>3, <2>2 DEF NoEmptyEntries
  <2> QED
    BY <2>1, <2>2
<1>7. IndexedAt(orders, Q[i], s, d, p)
  BY IndexedFacts
<1>8. /\ gone \in DOMAIN orders
      /\ orders[gone].sym = s /\ orders[gone].side = d /\ orders[gone].price = p
  BY <1>7 DEF IndexedAt
<1>9. \A a, b \in DOMAIN Q : Q[a].id = Q[b].id => a = b
  BY UniqueIds
<1>10. /\ DOMAIN orders' = DOMAIN orders \ {gone}
      /\ \A id \in DOMAIN orders' : orders'[id] = orders[id]
  BY DEF Without
<1>11. ASSUME NEW t \in Symbols, NEW e \in Sides, NEW r \in DOMAIN book'[t][e]
      PROVE  /\ \A j \in DOMAIN book'[t][e][r] :
                  IndexedAt(orders', book'[t][e][r][j], t, e, r)
             /\ \A j, k \in DOMAIN book'[t][e][r] :
                  book'[t][e][r][j].id = book'[t][e][r][k].id => j = k
  <2>1. CASE t = s /\ e = d /\ r = p
    <3>1. book'[t][e][r] = q
      BY <1>2, <2>1
    <3>2. ASSUME NEW j \in DOMAIN q
          PROVE  IndexedAt(orders', q[j], s, d, p)
      <4>1. PICK k \in DOMAIN Q : q[j] = Q[k] /\ k # i
        BY <1>1, <1>4
      <4>2. IndexedAt(orders, Q[k], s, d, p) /\ Q[k].id # gone
        BY <1>9, <4>1, IndexedFacts
      <4> QED
        BY <1>10, <4>1, <4>2 DEF IndexedAt
    <3>3. ASSUME NEW j \in DOMAIN q, NEW k \in DOMAIN q, q[j].id = q[k].id
          PROVE  j = k
      <4>1. /\ j < i => j \in DOMAIN Q /\ q[j] = Q[j]
            /\ j >= i => j + 1 \in DOMAIN Q /\ q[j] = Q[j + 1]
            /\ k < i => k \in DOMAIN Q /\ q[k] = Q[k]
            /\ k >= i => k + 1 \in DOMAIN Q /\ q[k] = Q[k + 1]
        BY <1>4
      <4>2. j \in Nat /\ k \in Nat /\ i \in Nat
        BY <1>1
      <4> HIDE DEF Q
      <4> QED
        BY <1>9, <3>3, <4>1, <4>2
    <3> QED
      BY <2>1, <3>1, <3>2, <3>3
  <2>2. CASE ~(t = s /\ e = d /\ r = p)
    <3>1. r \in DOMAIN book[t][e] /\ book'[t][e][r] = book[t][e][r]
      BY <1>2, <1>3, <2>2
    <3>2. ASSUME NEW j \in DOMAIN book[t][e][r]
          PROVE  IndexedAt(orders', book[t][e][r][j], t, e, r)
      <4>1. IndexedAt(orders, book[t][e][r][j], t, e, r)
        BY <3>1, IndexedFacts
      <4>2. book[t][e][r][j].id # gone
        <5>1. orders[book[t][e][r][j].id] = [sym |-> t, side |-> e, price |-> r]
          BY <4>1 DEF IndexedAt
        <5> HIDE DEF gone
        <5> QED
          BY ONLY <1>8, <2>2, <5>1
      <4> QED
        BY Zenon, <1>10, <4>1, <4>2 DEF IndexedAt
    <3>3. \A j, k \in DOMAIN book[t][e][r] :
            book[t][e][r][j].id = book[t][e][r][k].id => j = k
      BY <3>1, UniqueIds
    <3> QED
      BY <3>1, <3>2, <3>3
  <2> QED
    BY <2>1, <2>2
<1>12. RestingIsIndexed'
  BY <1>11 DEF RestingIsIndexed
<1>13. ASSUME NEW id \in DOMAIN orders'
       PROVE  RestsAt(book', id, orders'[id])
  <2> DEFINE t == orders[id].sym
             e == orders[id].side
             r == orders[id].price
  <2>1. /\ id \in DOMAIN orders /\ id # gone
        /\ orders'[id] = orders[id]
        /\ t \in Symbols /\ e \in Sides /\ r \in Prices
    BY <1>10 DEF OrderRef
  <2>2. /\ r \in DOMAIN book[t][e]
        /\ \E j \in DOMAIN book[t][e][r] : book[t][e][r][j].id = id
    BY <2>1 DEF IndexIsResting, RestsAt
  <2>3. CASE t = s /\ e = d /\ r = p
    <3>1. PICK j \in DOMAIN Q : Q[j].id = id
      BY <2>2, <2>3
    <3>2. j # i
      BY <2>1, <3>1
    <3>3. \E k \in DOMAIN q : q[k] = Q[j]
      <4>1. CASE j < i
        BY <1>1, <1>4, <4>1 DEF Drops
      <4>2. CASE j > i
        <5> DEFINE k == j - 1
        <5>1. k \in 1..Len(q) /\ k >= i /\ k + 1 = j
          BY <1>1, <4>2 DEF Drops
        <5>2. k \in DOMAIN q /\ q[k] = Q[j]
          BY <1>1, <5>1 DEF Drops
        <5> QED
          BY <5>2
      <4> QED
        BY <1>1, <3>2, <4>1, <4>2
    <3>4. q # <<>>
      BY <1>1, <3>3
    <3> QED
      BY <1>2, <2>1, <2>3, <3>1, <3>3, <3>4 DEF RestsAt
  <2>4. CASE ~(t = s /\ e = d /\ r = p)
    <3>1. r \in DOMAIN book'[t][e] /\ book'[t][e][r] = book[t][e][r]
      BY <1>2, <2>1, <2>2, <2>4
    <3> QED
      BY Zenon, <2>1, <2>2, <3>1 DEF RestsAt
  <2> QED
    BY <2>3, <2>4
<1>14. IndexIsResting'
  BY <1>13 DEF IndexIsResting
<1> QED
  BY <1>2, <1>5, <1>6, <1>12, <1>14

-----------------------------------------------------------------------------
(* Reducing the order at the front of a level.                              *)

LEMMA ShrinkFacts ==
  ASSUME NEW Q \in Seq(Order), Q # <<>>, NEW n \in Nat,
         n > 0, n < Q[1].qty
  PROVE  /\ [Q EXCEPT ![1].qty = @ - n] \in Seq(Order)
         /\ Len([Q EXCEPT ![1].qty = @ - n]) = Len(Q)
         /\ \A j \in 1..Len(Q) :
              /\ [Q EXCEPT ![1].qty = @ - n][j].id = Q[j].id
              /\ [Q EXCEPT ![1].qty = @ - n][j].sym = Q[j].sym
              /\ [Q EXCEPT ![1].qty = @ - n][j].side = Q[j].side
              /\ [Q EXCEPT ![1].qty = @ - n][j].price = Q[j].price
              /\ Q[j].qty > 0 => [Q EXCEPT ![1].qty = @ - n][j].qty > 0
<1> DEFINE first == [Q[1] EXCEPT !.qty = @ - n]
           q == [Q EXCEPT ![1] = first]
<1>1. 1 \in 1..Len(Q) /\ Q[1] \in Order
  OBVIOUS
<1>2. first.qty = Q[1].qty - n
  BY <1>1 DEF Order
<1>3. Q[1].qty - n \in 0..(QtyMod - 1) /\ Q[1].qty - n > 0
  BY <1>1, EngineAssumption DEF Order
<1>4. /\ first \in Order
      /\ first.id = Q[1].id /\ first.sym = Q[1].sym
      /\ first.side = Q[1].side /\ first.price = Q[1].price
  BY <1>1, <1>3 DEF Order
<1>5. q \in Seq(Order) /\ Len(q) = Len(Q)
  BY <1>1, <1>4
<1>6. \A j \in 1..Len(Q) : q[j] = IF j = 1 THEN first ELSE Q[j]
  BY <1>1
<1>7. [Q EXCEPT ![1].qty = @ - n] = q
  OBVIOUS
<1> HIDE DEF first, q
<1> QED
  BY <1>2, <1>3, <1>4, <1>5, <1>6, <1>7

LEMMA ShrinkPreserves ==
  ASSUME BookOK, Uncrossed, NoEmptyEntries, RestingIsIndexed, IndexIsResting,
         \E D \in SUBSET OrderIds : orders \in [D -> OrderRef],
         NEW s \in Symbols, NEW d \in Sides, NEW p \in DOMAIN book[s][d],
         NEW n \in Nat, n > 0, n < book[s][d][p][1].qty,
         Edit(s, d, p, [book[s][d][p] EXCEPT ![1].qty = @ - n]),
         orders' = orders
  PROVE  /\ BookOK' /\ Uncrossed' /\ RestingIsIndexed' /\ IndexIsResting'
         /\ \A t \in Symbols, e \in Sides : \A r \in DOMAIN book'[t][e] :
              /\ book'[t][e][r] # <<>>
              /\ \A j \in DOMAIN book'[t][e][r] : book'[t][e][r][j].qty > 0
<1> DEFINE Q == book[s][d][p]
           q == [Q EXCEPT ![1].qty = @ - n]
<1>1. /\ p \in Prices
      /\ Q \in Seq(Order)
      /\ Q # <<>>
      /\ \A j \in 1..Len(Q) : Q[j].qty > 0
  BY LevelFacts DEF NoEmptyEntries
<1>2. /\ q \in Seq(Order)
      /\ Len(q) = Len(Q)
      /\ \A j \in 1..Len(Q) :
           /\ q[j].id = Q[j].id /\ q[j].sym = Q[j].sym
           /\ q[j].side = Q[j].side /\ q[j].price = Q[j].price
           /\ q[j].qty > 0
  <2>1. n < Q[1].qty
    OBVIOUS
  <2> HIDE DEF Q
  <2> QED
    BY ONLY <1>1, <2>1, n \in Nat, n > 0, ShrinkFacts DEF q
<1>3. DOMAIN q = DOMAIN Q /\ q # <<>> /\ DOMAIN Q = 1..Len(Q)
  <2> HIDE DEF Q, q
  <2> QED
    BY ONLY <1>1, <1>2
<1>11. Edit(s, d, p, q)
  OBVIOUS
<1> HIDE DEF q
<1>4. /\ BookOK'
      /\ p \in DOMAIN book'[s][d]
      /\ book'[s][d][p] = q
      /\ \A t \in Symbols, e \in Sides, r \in Prices :
           t # s \/ e # d \/ r # p =>
             /\ r \in DOMAIN book'[t][e] <=> r \in DOMAIN book[t][e]
             /\ r \in DOMAIN book[t][e] => book'[t][e][r] = book[t][e][r]
  <2> HIDE DEF Q
  <2> QED
    BY ONLY <1>1, <1>2, <1>3, <1>11, BookOK, s \in Symbols, d \in Sides, EditFacts
<1>5. \A t \in Symbols, e \in Sides : \A r \in DOMAIN book'[t][e] :
        r \in Prices /\ r \in DOMAIN book[t][e]
  BY <1>4, LevelMapFacts DEF BookOK
<1>6. Uncrossed'
  BY <1>5 DEF Uncrossed, Sides
<1>7. ASSUME NEW t \in Symbols, NEW e \in Sides, NEW r \in DOMAIN book'[t][e]
      PROVE  /\ book'[t][e][r] # <<>>
             /\ \A j \in DOMAIN book'[t][e][r] :
                  /\ book'[t][e][r][j].qty > 0
                  /\ IndexedAt(orders', book'[t][e][r][j], t, e, r)
             /\ \A j, k \in DOMAIN book'[t][e][r] :
                  book'[t][e][r][j].id = book'[t][e][r][k].id => j = k
  <2>1. /\ r \in DOMAIN book[t][e]
        /\ \A j \in DOMAIN book[t][e][r] : IndexedAt(orders, book[t][e][r][j], t, e, r)
        /\ \A j, k \in DOMAIN book[t][e][r] :
             book[t][e][r][j].id = book[t][e][r][k].id => j = k
    BY <1>5, IndexedFacts, UniqueIds
  <2>2. CASE t = s /\ e = d /\ r = p
    <3>1. book'[t][e][r] = q
      BY <1>4, <2>2
    <3>2. \A j \in DOMAIN q :
            q[j].qty > 0 /\ IndexedAt(orders', q[j], s, d, p)
      <4>1. \A j \in DOMAIN Q : IndexedAt(orders, Q[j], s, d, p)
        BY <2>1, <2>2
      <4> HIDE DEF Q, q
      <4> QED
        BY ONLY <1>2, <1>3, <4>1, orders' = orders DEF IndexedAt
    <3>3. \A j, k \in DOMAIN q : q[j].id = q[k].id => j = k
      <4>1. \A j, k \in DOMAIN Q : Q[j].id = Q[k].id => j = k
        BY <2>1, <2>2
      <4> HIDE DEF Q
      <4> QED
        BY ONLY <1>2, <1>3, <4>1
    <3> QED
      BY <1>3, <2>2, <3>1, <3>2, <3>3
  <2>3. CASE ~(t = s /\ e = d /\ r = p)
    <3>1. book'[t][e][r] = book[t][e][r]
      BY <1>4, <1>5, <2>3
    <3>2. /\ book[t][e][r] # <<>>
          /\ \A j \in DOMAIN book[t][e][r] : book[t][e][r][j].qty > 0
      BY <2>1 DEF NoEmptyEntries
    <3> QED
      BY <2>1, <3>1, <3>2
  <2> QED
    BY <2>2, <2>3
<1>8. RestingIsIndexed'
  BY <1>7 DEF RestingIsIndexed
<1>9. ASSUME NEW id \in DOMAIN orders'
      PROVE  RestsAt(book', id, orders'[id])
  <2> DEFINE t == orders[id].sym
             e == orders[id].side
             r == orders[id].price
  <2>1. /\ id \in DOMAIN orders /\ orders'[id] = orders[id]
        /\ t \in Symbols /\ e \in Sides /\ r \in Prices
    BY DEF OrderRef
  <2>2. /\ r \in DOMAIN book[t][e]
        /\ \E j \in DOMAIN book[t][e][r] : book[t][e][r][j].id = id
    BY <2>1 DEF IndexIsResting, RestsAt
  <2>3. CASE t = s /\ e = d /\ r = p
    <3>1. \E j \in DOMAIN q : q[j].id = id
      BY <1>2, <1>3, <2>2, <2>3
    <3> QED
      BY <1>4, <2>1, <2>3, <3>1 DEF RestsAt
  <2>4. CASE ~(t = s /\ e = d /\ r = p)
    <3>1. r \in DOMAIN book'[t][e] /\ book'[t][e][r] = book[t][e][r]
      BY <1>4, <2>1, <2>2, <2>4
    <3> QED
      BY Zenon, <2>1, <2>2, <3>1 DEF RestsAt
  <2> QED
    BY <2>3, <2>4
<1>10. IndexIsResting'
  BY <1>9 DEF IndexIsResting
<1> QED
  BY <1>4, <1>6, <1>7, <1>8, <1>10

-----------------------------------------------------------------------------
(* Adding an order to the end of its level.                                 *)

\* q is the level at p, if there is one, with o behind it.
Appended(levels, p, o, q) ==
  /\ q \in Seq(Order) /\ q # <<>>
  /\ q[Len(q)] = o /\ Len(q) \in DOMAIN q
  /\ \A j \in DOMAIN q : j # Len(q) =>
       p \in DOMAIN levels /\ j \in DOMAIN levels[p] /\ q[j] = levels[p][j]
  /\ p \in DOMAIN levels =>
       \A j \in DOMAIN levels[p] : j \in DOMAIN q /\ q[j] = levels[p][j]

LEMMA AppendFacts ==
  ASSUME NEW levels, IsLevelMap(levels), NEW p \in Prices, NEW o \in Order
  PROVE  Appended(levels, p, o, Append(LevelAt(levels, p), o))
<1> DEFINE q == Append(LevelAt(levels, p), o)
<1> SUFFICES Appended(levels, p, o, q)
  OBVIOUS
<1>1. CASE p \in DOMAIN levels
  <2> DEFINE Q == levels[p]
  <2>1. Q \in Seq(Order) /\ q = Append(Q, o)
    BY <1>1, LevelMapFacts DEF LevelAt
  <2> HIDE DEF Q
  <2>2. /\ q \in Seq(Order) /\ Len(q) = Len(Q) + 1 /\ Len(Q) \in Nat
        /\ q[Len(q)] = o
        /\ \A j \in 1..Len(Q) : q[j] = Q[j]
        /\ DOMAIN q = 1..Len(q) /\ DOMAIN Q = 1..Len(Q)
    BY <2>1
  <2>3. /\ q # <<>> /\ Len(q) \in DOMAIN q
        /\ \A j \in DOMAIN q : j # Len(q) => j \in DOMAIN Q /\ q[j] = Q[j]
        /\ \A j \in DOMAIN Q : j \in DOMAIN q /\ q[j] = Q[j]
    BY <2>2
  <2> HIDE DEF q
  <2> QED
    BY <1>1, <2>2, <2>3 DEF Q, Appended
<1>2. CASE p \notin DOMAIN levels
  <2>1. q = <<o>>
    BY <1>2 DEF LevelAt
  <2> HIDE DEF q
  <2> QED
    BY <1>2, <2>1 DEF Appended
<1> QED
  BY <1>1, <1>2

LEMMA RestPreserves ==
  ASSUME BookOK, Uncrossed, NoEmptyEntries, RestingIsIndexed, IndexIsResting,
         \E D \in SUBSET OrderIds : orders \in [D -> OrderRef],
         NEW o \in Order, o.qty > 0, o.id \notin DOMAIN orders,
         \A r \in DOMAIN book[o.sym][Opposite(o.side)] : ~Crosses(o, r),
         Edit(o.sym, o.side, o.price, Append(LevelAt(book[o.sym][o.side], o.price), o)),
         orders' = [id \in DOMAIN orders \cup {o.id} |->
                      IF id = o.id
                      THEN [sym |-> o.sym, side |-> o.side, price |-> o.price]
                      ELSE orders[id]]
  PROVE  /\ BookOK' /\ Uncrossed' /\ RestingIsIndexed' /\ IndexIsResting'
         /\ \A t \in Symbols, e \in Sides : \A r \in DOMAIN book'[t][e] :
              /\ book'[t][e][r] # <<>>
              /\ \A j \in DOMAIN book'[t][e][r] : book'[t][e][r][j].qty > 0
<1> DEFINE s == o.sym
           d == o.side
           p == o.price
<1>1. s \in Symbols /\ d \in Sides /\ p \in Prices
  BY DEF Order
<1>2. PICK q : q = Append(LevelAt(book[s][d], p), o)
  OBVIOUS
<1>3. /\ q \in Seq(Order) /\ q # <<>>
      /\ q[Len(q)] = o /\ Len(q) \in DOMAIN q
      /\ \A j \in DOMAIN q : j # Len(q) =>
           p \in DOMAIN book[s][d] /\ j \in DOMAIN book[s][d][p] /\ q[j] = book[s][d][p][j]
      /\ p \in DOMAIN book[s][d] =>
           \A j \in DOMAIN book[s][d][p] : j \in DOMAIN q /\ q[j] = book[s][d][p][j]
  <2>1. IsLevelMap(book[s][d])
    BY <1>1 DEF BookOK
  <2>2. Appended(book[s][d], p, o, q)
    BY <1>1, <1>2, <2>1, AppendFacts
  <2> HIDE DEF s, d, p
  <2> QED
    BY <2>2 DEF Appended
<1>4. /\ BookOK'
      /\ p \in DOMAIN book'[s][d]
      /\ book'[s][d][p] = q
      /\ \A t \in Symbols, e \in Sides, r \in Prices :
           t # s \/ e # d \/ r # p =>
             /\ r \in DOMAIN book'[t][e] <=> r \in DOMAIN book[t][e]
             /\ r \in DOMAIN book[t][e] => book'[t][e][r] = book[t][e][r]
  <2>1. Edit(s, d, p, q)
    BY <1>2
  <2> HIDE DEF s, d, p
  <2> QED
    BY <1>1, <1>3, <2>1, EditFacts
<1>5. \A t \in Symbols, e \in Sides : \A r \in DOMAIN book'[t][e] :
        /\ r \in Prices
        /\ t # s \/ e # d \/ r # p => r \in DOMAIN book[t][e]
  BY <1>4, LevelMapFacts DEF BookOK
<1>6. Uncrossed'
  <2> SUFFICES ASSUME NEW t \in Symbols,
                      NEW bid \in DOMAIN book'[t]["B"], NEW ask \in DOMAIN book'[t]["S"]
               PROVE  bid < ask
    BY DEF Uncrossed
  <2>1. bid \in Int /\ ask \in Int /\ p \in Int
    BY <1>1, <1>5, EngineAssumption DEF Sides
  <2>2. CASE t = s /\ d = "B" /\ bid = p
    <3>1. ask \in DOMAIN book[s]["S"]
      BY <1>5, <2>2 DEF Sides
    <3> QED
      BY <2>1, <2>2, <3>1 DEF Crosses, Opposite
  <2>3. CASE t = s /\ d = "S" /\ ask = p
    <3>1. bid \in DOMAIN book[s]["B"]
      BY <1>5, <2>3 DEF Sides
    <3> QED
      BY <2>1, <2>3, <3>1 DEF Crosses, Opposite
  <2>4. CASE ~(t = s /\ d = "B" /\ bid = p) /\ ~(t = s /\ d = "S" /\ ask = p)
    BY <1>5, <2>4 DEF Uncrossed, Sides
  <2> QED
    BY <2>2, <2>3, <2>4
<1>7. /\ DOMAIN orders' = DOMAIN orders \cup {o.id}
      /\ orders'[o.id] = [sym |-> s, side |-> d, price |-> p]
      /\ \A id \in DOMAIN orders : orders'[id] = orders[id]
  OBVIOUS
<1>8. ASSUME NEW t \in Symbols, NEW e \in Sides, NEW r \in DOMAIN book[t][e]
      PROVE  /\ book[t][e][r] # <<>>
             /\ \A j \in DOMAIN book[t][e][r] :
                  /\ book[t][e][r][j].qty > 0
                  /\ book[t][e][r][j].id # o.id
                  /\ IndexedAt(orders', book[t][e][r][j], t, e, r)
             /\ \A j, k \in DOMAIN book[t][e][r] :
                  book[t][e][r][j].id = book[t][e][r][k].id => j = k
  <2>1. \A j \in DOMAIN book[t][e][r] : IndexedAt(orders, book[t][e][r][j], t, e, r)
    BY IndexedFacts
  <2>2. \A j \in DOMAIN book[t][e][r] :
          book[t][e][r][j].id # o.id /\ IndexedAt(orders', book[t][e][r][j], t, e, r)
    BY <1>7, <2>1 DEF IndexedAt
  <2>3. \A j, k \in DOMAIN book[t][e][r] :
          book[t][e][r][j].id = book[t][e][r][k].id => j = k
    BY UniqueIds
  <2> QED
    BY <2>2, <2>3 DEF NoEmptyEntries
<1>9. ASSUME NEW t \in Symbols, NEW e \in Sides, NEW r \in DOMAIN book'[t][e]
      PROVE  /\ book'[t][e][r] # <<>>
             /\ \A j \in DOMAIN book'[t][e][r] :
                  /\ book'[t][e][r][j].qty > 0
                  /\ IndexedAt(orders', book'[t][e][r][j], t, e, r)
             /\ \A j, k \in DOMAIN book'[t][e][r] :
                  book'[t][e][r][j].id = book'[t][e][r][k].id => j = k
  <2>1. CASE t = s /\ e = d /\ r = p
    <3>1. book'[t][e][r] = q
      BY <1>4, <2>1
    <3>2. IndexedAt(orders', o, s, d, p)
      BY <1>7 DEF IndexedAt
    <3>3. ASSUME NEW j \in DOMAIN q
          PROVE  q[j].qty > 0 /\ IndexedAt(orders', q[j], s, d, p)
      <4>1. CASE j = Len(q)
        BY <1>3, <3>2, <4>1
      <4>2. CASE j # Len(q)
        <5>1. /\ p \in DOMAIN book[s][d] /\ j \in DOMAIN book[s][d][p]
              /\ q[j] = book[s][d][p][j]
          BY <1>3, <4>2
        <5> QED
          BY <1>1, <1>8, <5>1
      <4> QED
        BY <4>1, <4>2
    <3>4. \A j, k \in DOMAIN q : q[j].id = q[k].id => j = k
      <4> SUFFICES ASSUME NEW j \in DOMAIN q, NEW k \in DOMAIN q, q[j].id = q[k].id
                   PROVE  j = k
        OBVIOUS
      <4>5. ASSUME NEW a \in DOMAIN q, a # Len(q)
            PROVE  q[a].id # o.id
        <5>1. p \in DOMAIN book[s][d] /\ a \in DOMAIN book[s][d][p] /\ q[a] = book[s][d][p][a]
          BY <1>3, <4>5
        <5>2. book[s][d][p][a].id # o.id
          BY <1>1, <1>8, <5>1
        <5> QED
          BY <5>1, <5>2
      <4>1. CASE j = Len(q) /\ k # Len(q)
        BY <1>3, <4>1, <4>5
      <4>2. CASE j # Len(q) /\ k = Len(q)
        BY <1>3, <4>2, <4>5
      <4>3. CASE j # Len(q) /\ k # Len(q)
        <5>1. /\ p \in DOMAIN book[s][d]
              /\ j \in DOMAIN book[s][d][p] /\ q[j] = book[s][d][p][j]
              /\ k \in DOMAIN book[s][d][p] /\ q[k] = book[s][d][p][k]
          BY <1>3, <4>3
        <5>2. s \in Symbols /\ d \in Sides
          BY <1>1
        <5>3. \A a, b \in DOMAIN book[s][d][p] :
                book[s][d][p][a].id = book[s][d][p][b].id => a = b
          BY Zenon, <1>8, <5>1, <5>2
        <5> HIDE DEF s, d, p
        <5> QED
          BY ONLY <5>1, <5>3, q[j].id = q[k].id
      <4> QED
        BY <4>1, <4>2, <4>3
    <3>5. q # <<>>
      BY <1>3
    <3>6. \A j \in DOMAIN q : q[j].qty > 0 /\ IndexedAt(orders', q[j], t, e, r)
      BY <2>1, <3>3
    <3>7. /\ \A j \in DOMAIN book'[t][e][r] :
               book'[t][e][r][j].qty > 0 /\ IndexedAt(orders', book'[t][e][r][j], t, e, r)
          /\ \A j, k \in DOMAIN book'[t][e][r] :
               book'[t][e][r][j].id = book'[t][e][r][k].id => j = k
          /\ book'[t][e][r] # <<>>
      BY ONLY <3>1, <3>4, <3>5, <3>6
    <3> QED
      BY ONLY <3>7
  <2>2. CASE ~(t = s /\ e = d /\ r = p)
    <3>1. r \in DOMAIN book[t][e] /\ book'[t][e][r] = book[t][e][r]
      BY <1>4, <1>5, <2>2
    <3> QED
      BY <1>8, <3>1
  <2> QED
    BY <2>1, <2>2
<1>10. RestingIsIndexed'
  BY <1>9 DEF RestingIsIndexed
<1>11. ASSUME NEW id \in DOMAIN orders'
       PROVE  RestsAt(book', id, orders'[id])
  <2>1. CASE id = o.id
    <3>1. \E j \in DOMAIN q : q[j].id = id
      BY <1>3, <2>1
    <3> QED
      BY <1>4, <1>7, <2>1, <3>1 DEF RestsAt
  <2>2. CASE id # o.id
    <3> DEFINE t == orders[id].sym
               e == orders[id].side
               r == orders[id].price
    <3>1. /\ id \in DOMAIN orders /\ orders'[id] = orders[id]
          /\ t \in Symbols /\ e \in Sides /\ r \in Prices
      BY <1>7, <2>2 DEF OrderRef
    <3>2. PICK j \in DOMAIN book[t][e][r] :
            r \in DOMAIN book[t][e] /\ book[t][e][r][j].id = id
      BY <3>1 DEF IndexIsResting, RestsAt
    <3>3. r \in DOMAIN book'[t][e] /\ j \in DOMAIN book'[t][e][r]
          /\ book'[t][e][r][j] = book[t][e][r][j]
      <4>1. CASE t = s /\ e = d /\ r = p
        <5> HIDE DEF s, d, p, t, e, r
        <5>1. j \in DOMAIN book[s][d][p] /\ p \in DOMAIN book[s][d]
          BY ONLY <3>2, <4>1
        <5>2. j \in DOMAIN q /\ q[j] = book[s][d][p][j]
          BY ONLY <1>3, <5>1
        <5> QED
          BY ONLY <1>4, <4>1, <5>2
      <4>2. CASE ~(t = s /\ e = d /\ r = p)
        <5> HIDE DEF s, d, p, t, e, r
        <5> QED
          BY ONLY <1>4, <3>1, <3>2, <4>2
      <4> QED
        BY <4>1, <4>2
    <3> QED
      BY Zenon, <3>1, <3>2, <3>3 DEF RestsAt
  <2> QED
    BY <2>1, <2>2
<1>12. IndexIsResting'
  BY <1>11 DEF IndexIsResting
<1>13. \A t \in Symbols, e \in Sides : \A r \in DOMAIN book'[t][e] :
         /\ book'[t][e][r] # <<>>
         /\ \A j \in DOMAIN book'[t][e][r] : book'[t][e][r][j].qty > 0
  BY <1>9
<1> QED
  BY <1>4, <1>6, <1>10, <1>12, <1>13
-----------------------------------------------------------------------------
(* Every step of the handlers keeps the invariant.                          *)

LEMMA InitInv == Init => IInv
<1> SUFFICES ASSUME Init PROVE IInv
  OBVIOUS
<1>1. \A s \in Symbols, d \in Sides : book[s][d] = EmptyMap
  BY DEF Init
<1>2. DOMAIN EmptyMap = {} /\ IsLevelMap(EmptyMap)
  <2>1. EmptyMap \in [{} -> Seq(Order)]
    BY DEF EmptyMap
  <2> QED
    BY <2>1 DEF IsLevelMap, EmptyMap
<1>3. orders \in [{} -> OrderRef]
  BY DEF Init, EmptyMap
<1>4. TypeOK
  BY <1>1, <1>2, <1>3 DEF Init, TypeOK
<1>5. Uncrossed /\ NoEmptyEntries /\ RestingIsIndexed
  BY <1>1, <1>2 DEF Init, Uncrossed, NoEmptyEntries, RestingIsIndexed, Sides
<1>6. IndexIsResting /\ LiveNotCompleted
  BY <1>3 DEF Init, IndexIsResting, LiveNotCompleted
<1> QED
  BY <1>4, <1>5, <1>6 DEF IInv, IndexMatchesBook

\* Refusals, dumps and stuttering leave the engine's state alone.
LEMMA QuietStep ==
  ASSUME IInv, UNCHANGED <<book, orders, completed, txn, incoming>>,
         sent' \in Msg \cup {NoMsg}
  PROVE  IInv'
<1>1. TypeOK'
  BY DEF IInv, TypeOK
<1>2. Uncrossed' /\ NoEmptyEntries'
  BY DEF IInv, Uncrossed, NoEmptyEntries
<1>3. RestingIsIndexed' /\ IndexIsResting' /\ LiveNotCompleted'
  BY DEF IInv, IndexMatchesBook, RestingIsIndexed, IndexIsResting, LiveNotCompleted
<1> QED
  BY <1>1, <1>2, <1>3 DEF IInv, IndexMatchesBook

\* The datagram is well formed and uses up one transaction id of its book.
LEMMA PublishFacts ==
  ASSUME txn \in [Symbols -> Nat \ {0}],
         NEW type \in {"submit", "cancel", "trade"}, NEW s \in Symbols,
         NEW side \in Sides \cup {"N"}, NEW qty \in 0..(QtyMod - 1),
         NEW price \in Prices, Publish(type, s, side, qty, price)
  PROVE  txn' \in [Symbols -> Nat \ {0}] /\ sent' \in Msg
<1>1. txn[s] \in Nat \ {0} /\ txn[s] + 1 \in Nat \ {0}
  OBVIOUS
<1>2. txn' \in [Symbols -> Nat \ {0}]
  BY <1>1 DEF Publish
<1>3. sent' \in Msg
  BY <1>1 DEF Publish, Msg
<1> QED
  BY <1>2, <1>3

\* IInv after a step, from what the lemmas about the levels give.
LEMMA Assemble ==
  ASSUME BookOK', Uncrossed', RestingIsIndexed', IndexIsResting', LiveNotCompleted',
         \A t \in Symbols, e \in Sides : \A r \in DOMAIN book'[t][e] :
           /\ book'[t][e][r] # <<>>
           /\ \A j \in DOMAIN book'[t][e][r] : book'[t][e][r][j].qty > 0,
         \E D \in SUBSET OrderIds : orders' \in [D -> OrderRef],
         completed' \in SUBSET OrderIds,
         txn' \in [Symbols -> Nat \ {0}],
         sent' \in Msg \cup {NoMsg},
         incoming' \in Order \cup {NoOrder},
         incoming' # NoOrder => incoming'.qty > 0
  PROVE  IInv'
<1>1. TypeOK'
  BY DEF TypeOK, BookOK
<1>2. NoEmptyEntries'
  BY DEF NoEmptyEntries
<1> QED
  BY <1>1, <1>2 DEF IInv, IndexMatchesBook

\* IInv taken apart.
LEMMA Disassemble ==
  ASSUME IInv
  PROVE  /\ BookOK /\ Uncrossed /\ NoEmptyEntries /\ RestingIsIndexed
         /\ IndexIsResting /\ LiveNotCompleted
         /\ \E D \in SUBSET OrderIds : orders \in [D -> OrderRef]
         /\ completed \in SUBSET OrderIds
         /\ txn \in [Symbols -> Nat \ {0}]
         /\ incoming # NoOrder => incoming \in Order /\ incoming.qty > 0
BY DEF IInv, TypeOK, BookOK, IndexMatchesBook, NoEmptyEntries

\* An id taken out of the index.
LEMMA WithoutFacts ==
  ASSUME \E D \in SUBSET OrderIds : orders \in [D -> OrderRef], NEW id
  PROVE  /\ DOMAIN Without(orders, id) = DOMAIN orders \ {id}
         /\ \A x \in DOMAIN orders \ {id} : Without(orders, id)[x] = orders[x]
         /\ \E D \in SUBSET OrderIds : Without(orders, id) \in [D -> OrderRef]
<1>1. PICK D \in SUBSET OrderIds : orders \in [D -> OrderRef]
  OBVIOUS
<1>2. Without(orders, id) \in [D \ {id} -> OrderRef]
  BY <1>1 DEF Without
<1>3. D \ {id} \in SUBSET OrderIds
  OBVIOUS
<1> QED
  BY <1>2, <1>3 DEF Without
-----------------------------------------------------------------------------
(* The matching loop.                                                       *)

\* What the guard of an iteration says about the level it works on.
LEMMA MatchableFacts ==
  ASSUME IInv, NEW p \in Prices, Matchable(p)
  PROVE  /\ incoming \in Order /\ incoming # NoOrder /\ incoming.qty > 0
         /\ incoming.sym \in Symbols /\ Opposite(incoming.side) \in Sides
         /\ incoming.id \in OrderIds
         /\ incoming.id \notin DOMAIN orders \cup completed
         /\ p \in DOMAIN book[incoming.sym][Opposite(incoming.side)]
         /\ Queue(p) \in Seq(Order) /\ Queue(p) # <<>>
         /\ Head(Queue(p)) = Queue(p)[1] /\ 1 \in DOMAIN Queue(p)
         /\ Head(Queue(p)) \in Order /\ Head(Queue(p)).qty > 0
         /\ Head(Queue(p)).id \in DOMAIN orders
<1> DEFINE s == incoming.sym
           d == Opposite(incoming.side)
           Q == Queue(p)
<1>1. /\ incoming \in Order /\ incoming # NoOrder /\ incoming.qty > 0
      /\ incoming.id \notin DOMAIN orders \cup completed
  BY Disassemble DEF Matchable, LiveNotCompleted
<1>2. s \in Symbols /\ d \in Sides /\ incoming.id \in OrderIds
  BY <1>1 DEF Order, Opposite, Sides
<1>3. p \in DOMAIN book[s][d]
  BY DEF Matchable, IsBegin
<1>4. Q \in Seq(Order) /\ Q # <<>>
  BY <1>2, <1>3, Disassemble, LevelFacts DEF Queue, NoEmptyEntries
<1>5. Head(Q) = Q[1] /\ 1 \in DOMAIN Q /\ Head(Q) \in Order
  BY <1>4
<1>6. Q[1].qty > 0
  BY <1>2, <1>3, <1>5, Disassemble DEF Queue, NoEmptyEntries
<1>7. Q[1].id \in DOMAIN orders
  <2>1. Q = book[s][d][p] /\ RestingIsIndexed
    BY Disassemble DEF Queue
  <2> HIDE DEF s, d, Q
  <2>2. IndexedAt(orders, book[s][d][p][1], s, d, p)
    BY <1>2, <1>3, <1>5, <2>1, IndexedFacts
  <2> QED
    BY <2>1, <2>2 DEF IndexedAt
<1> QED
  BY <1>1, <1>2, <1>3, <1>4, <1>5, <1>6, <1>7

LEMMA FillRestingInv ==
  ASSUME IInv, NEW p \in Prices, FillResting(p)
  PROVE  IInv'
<1> DEFINE s == incoming.sym
           d == Opposite(incoming.side)
           Q == Queue(p)
           resting == Head(Q)
<1>1. /\ incoming \in Order /\ incoming # NoOrder /\ incoming.qty > 0
      /\ s \in Symbols /\ d \in Sides
      /\ incoming.id \notin DOMAIN orders \cup completed
      /\ p \in DOMAIN book[s][d]
      /\ Q \in Seq(Order) /\ Q # <<>>
      /\ resting = Q[1] /\ 1 \in DOMAIN Q
      /\ resting \in Order /\ resting.qty > 0
      /\ resting.id \in DOMAIN orders
  BY MatchableFacts DEF FillResting
<1>2. /\ Edit(s, d, p, Tail(Q))
      /\ orders' = Without(orders, book[s][d][p][1].id)
      /\ Q = book[s][d][p]
  BY Zenon, <1>1 DEF FillResting, Edit, Queue
<1>3. Drops(book[s][d][p], 1, Tail(Q))
  BY <1>1, <1>2, TailDrops
<1>4. /\ BookOK' /\ Uncrossed' /\ RestingIsIndexed' /\ IndexIsResting'
      /\ \A t \in Symbols, e \in Sides : \A r \in DOMAIN book'[t][e] :
           /\ book'[t][e][r] # <<>>
           /\ \A j \in DOMAIN book'[t][e][r] : book'[t][e][r][j].qty > 0
  <2> HIDE DEF s, d, Q
  <2> QED
    BY <1>1, <1>2, <1>3, Disassemble, DropPreserves
<1>5. /\ DOMAIN orders' = DOMAIN orders \ {resting.id}
      /\ \E D \in SUBSET OrderIds : orders' \in [D -> OrderRef]
  BY Zenon, <1>1, <1>2, Disassemble, WithoutFacts
<1>6. completed' = completed \cup {resting.id} /\ completed' \in SUBSET OrderIds
  BY <1>1, Disassemble DEF FillResting, Order
<1>7. /\ incoming' \in Order \cup {NoOrder}
      /\ incoming' # NoOrder => incoming'.id = incoming.id /\ incoming'.qty > 0
  <2>1. CASE incoming.qty = resting.qty
    BY <2>1 DEF FillResting, Reduced
  <2>2. CASE incoming.qty # resting.qty
    <3>1. /\ incoming.qty \in 0..(QtyMod - 1) /\ resting.qty \in 0..(QtyMod - 1)
          /\ incoming.qty >= resting.qty
      BY <1>1 DEF FillResting, Order
    <3>2. incoming.qty - resting.qty \in 0..(QtyMod - 1) /\ incoming.qty - resting.qty > 0
      BY <1>1, <2>2, <3>1, EngineAssumption
    <3>3. incoming' = [incoming EXCEPT !.qty = @ - resting.qty]
      BY <2>2 DEF FillResting, Reduced
    <3> HIDE DEF resting
    <3> QED
      BY <1>1, <3>2, <3>3 DEF Order
  <2> QED
    BY <2>1, <2>2
<1>8. LiveNotCompleted'
  BY <1>1, <1>5, <1>6, <1>7, Disassemble DEF LiveNotCompleted
<1>9. txn' \in [Symbols -> Nat \ {0}] /\ sent' \in Msg
  <2>1. resting.qty \in 0..(QtyMod - 1)
    BY <1>1 DEF Order
  <2>2. Publish("trade", s, "N", resting.qty, p)
    BY DEF FillResting
  <2> QED
    BY <1>1, <2>1, <2>2, Disassemble, PublishFacts
<1> QED
  BY <1>4, <1>5, <1>6, <1>7, <1>8, <1>9, Assemble

LEMMA FillIncomingInv ==
  ASSUME IInv, NEW p \in Prices, FillIncoming(p)
  PROVE  IInv'
<1> DEFINE s == incoming.sym
           d == Opposite(incoming.side)
           Q == Queue(p)
           n == incoming.qty
<1>1. /\ incoming \in Order /\ incoming # NoOrder /\ n > 0
      /\ s \in Symbols /\ d \in Sides
      /\ incoming.id \in OrderIds
      /\ incoming.id \notin DOMAIN orders \cup completed
      /\ p \in DOMAIN book[s][d]
      /\ Q \in Seq(Order) /\ Q # <<>>
      /\ Head(Q) = Q[1]
  BY MatchableFacts DEF FillIncoming
<1>2. n \in Nat /\ n \in 0..(QtyMod - 1)
  BY <1>1, EngineAssumption DEF Order
<1>3. /\ Edit(s, d, p, [book[s][d][p] EXCEPT ![1].qty = @ - n])
      /\ n < book[s][d][p][1].qty
  BY Zenon, <1>1 DEF FillIncoming, Edit, Queue
<1>4. orders' = orders
  <2>1. PICK D \in SUBSET OrderIds : orders \in [D -> OrderRef]
    BY Disassemble
  <2>2. orders' = [y \in DOMAIN orders \ {incoming.id} |-> orders[y]]
    BY DEF FillIncoming, Without
  <2>3. DOMAIN orders \ {incoming.id} = DOMAIN orders
    BY <1>1
  <2> QED
    BY <2>1, <2>2, <2>3
<1>5. /\ BookOK' /\ Uncrossed' /\ RestingIsIndexed' /\ IndexIsResting'
      /\ \A t \in Symbols, e \in Sides : \A r \in DOMAIN book'[t][e] :
           /\ book'[t][e][r] # <<>>
           /\ \A j \in DOMAIN book'[t][e][r] : book'[t][e][r][j].qty > 0
  <2> HIDE DEF s, d, n
  <2> QED
    BY <1>1, <1>2, <1>3, <1>4, Disassemble, ShrinkPreserves
<1>6. /\ completed' = completed \cup {incoming.id} /\ completed' \in SUBSET OrderIds
      /\ incoming' = NoOrder
  BY <1>1, Disassemble DEF FillIncoming
<1>7. LiveNotCompleted'
  BY <1>1, <1>4, <1>6, Disassemble DEF LiveNotCompleted
<1>8. txn' \in [Symbols -> Nat \ {0}] /\ sent' \in Msg
  <2>1. Publish("trade", s, "N", n, p)
    BY DEF FillIncoming
  <2> QED
    BY <1>1, <1>2, <2>1, Disassemble, PublishFacts
<1>9. \E D \in SUBSET OrderIds : orders' \in [D -> OrderRef]
  BY <1>4, Disassemble
<1> QED
  BY <1>5, <1>6, <1>7, <1>8, <1>9, Assemble

\* If the best level of a side is not crossed, none is.
LEMMA NoneCrossed ==
  ASSUME NEW o \in Order, NEW levels, IsLevelMap(levels), NEW p \in Prices,
         IsBegin(Opposite(o.side), levels, p), ~Crosses(o, p)
  PROVE  \A r \in DOMAIN levels : ~Crosses(o, r)
<1> SUFFICES ASSUME NEW r \in DOMAIN levels PROVE ~Crosses(o, r)
  OBVIOUS
<1>1. r \in Int /\ p \in Int /\ o.price \in Int
  BY LevelMapFacts, EngineAssumption DEF Order
<1>2. ~Before(Opposite(o.side), r, p)
  BY DEF IsBegin
<1>3. CASE o.side = "B"
  BY <1>1, <1>2, <1>3 DEF Before, Opposite, Crosses
<1>4. CASE o.side = "S"
  BY <1>1, <1>2, <1>4 DEF Before, Opposite, Crosses
<1> QED
  BY <1>3, <1>4 DEF Order, Sides

LEMMA RestIncomingInv ==
  ASSUME IInv, RestIncoming
  PROVE  IInv'
<1>1. PICK o : o = incoming
  OBVIOUS
<1>2. /\ o \in Order /\ o.qty > 0
      /\ o.id \notin DOMAIN orders \cup completed
  BY <1>1, Disassemble DEF RestIncoming, LiveNotCompleted
<1>3. /\ o.sym \in Symbols /\ o.side \in Sides /\ Opposite(o.side) \in Sides
      /\ o.price \in Prices /\ o.qty \in 0..(QtyMod - 1) /\ o.id \in OrderIds
  BY <1>2 DEF Order, Sides, Opposite
<1>4. \A r \in DOMAIN book[o.sym][Opposite(o.side)] : ~Crosses(o, r)
  <2>1. IsLevelMap(book[o.sym][Opposite(o.side)])
    BY <1>3, Disassemble DEF BookOK
  <2>2. CASE DOMAIN book[o.sym][Opposite(o.side)] = {}
    BY <2>2
  <2>3. CASE \E p \in Prices :
               /\ IsBegin(Opposite(o.side), book[o.sym][Opposite(o.side)], p)
               /\ ~Crosses(o, p)
    BY <1>2, <2>1, <2>3, NoneCrossed
  <2> QED
    BY <1>1, <2>2, <2>3 DEF RestIncoming
<1>5. Edit(o.sym, o.side, o.price, Append(LevelAt(book[o.sym][o.side], o.price), o))
  BY <1>1 DEF RestIncoming, Edit, Enqueue
<1>6. orders' = [id \in DOMAIN orders \cup {o.id} |->
                   IF id = o.id
                   THEN [sym |-> o.sym, side |-> o.side, price |-> o.price]
                   ELSE orders[id]]
  BY <1>1 DEF RestIncoming
<1>7. /\ BookOK' /\ Uncrossed' /\ RestingIsIndexed' /\ IndexIsResting'
      /\ \A t \in Symbols, e \in Sides : \A r \in DOMAIN book'[t][e] :
           /\ book'[t][e][r] # <<>>
           /\ \A j \in DOMAIN book'[t][e][r] : book'[t][e][r][j].qty > 0
  BY <1>2, <1>4, <1>5, <1>6, Disassemble, RestPreserves
<1>8. \E D \in SUBSET OrderIds : orders' \in [D -> OrderRef]
  <2>1. PICK D \in SUBSET OrderIds : orders \in [D -> OrderRef]
    BY Disassemble
  <2>2. orders' \in [D \cup {o.id} -> OrderRef]
    BY <1>3, <1>6, <2>1 DEF OrderRef
  <2> QED
    BY <1>3, <2>2
<1>9. incoming' = NoOrder /\ completed' = completed
  BY DEF RestIncoming
<1>10. LiveNotCompleted'
  BY <1>2, <1>6, <1>9, Disassemble DEF LiveNotCompleted
<1>11. txn' \in [Symbols -> Nat \ {0}] /\ sent' \in Msg
  <2>1. Publish("submit", o.sym, o.side, o.qty, o.price)
    BY <1>1 DEF RestIncoming
  <2> QED
    BY <1>3, <2>1, Disassemble, PublishFacts
<1> QED
  BY <1>7, <1>8, <1>9, <1>10, <1>11, Disassemble, Assemble

-----------------------------------------------------------------------------
(* The other requests.                                                      *)

LEMMA AcceptSubmitInv ==
  ASSUME IInv, NEW o \in Requests, AcceptSubmit(o)
  PROVE  IInv'
<1>1. o \in Order
  <2>1. PICK id \in OrderIds, sym \in Symbols, side \in Sides,
             text \in QtyTexts, price \in Prices :
          o = Deserialized(id, sym, side, text, price)
    BY DEF Requests
  <2>2. text % QtyMod \in 0..(QtyMod - 1)
    BY EngineAssumption
  <2> QED
    BY <2>1, <2>2 DEF Deserialized, Order
<1>2. o.qty > 0 /\ o.id \notin DOMAIN orders \cup completed
  BY <1>1, EngineAssumption DEF AcceptSubmit, Refused, Order
<1>3. /\ UNCHANGED <<book, orders, completed, txn>>
      /\ incoming' = o /\ sent' = NoMsg
  BY DEF AcceptSubmit
<1>4. TypeOK'
  BY <1>1, <1>3 DEF IInv, TypeOK
<1>5. Uncrossed' /\ NoEmptyEntries'
  BY <1>2, <1>3 DEF IInv, Uncrossed, NoEmptyEntries
<1>6. RestingIsIndexed' /\ IndexIsResting'
  BY <1>3 DEF IInv, IndexMatchesBook, RestingIsIndexed, IndexIsResting
<1>7. LiveNotCompleted'
  BY <1>2, <1>3 DEF IInv, IndexMatchesBook, LiveNotCompleted
<1> QED
  BY <1>4, <1>5, <1>6, <1>7 DEF IInv, IndexMatchesBook

LEMMA AcceptCancelInv ==
  ASSUME IInv, NEW id \in OrderIds, AcceptCancel(id)
  PROVE  IInv'
<1> DEFINE s == orders[id].sym
           d == orders[id].side
           p == orders[id].price
           Q == book[s][d][p]
<1>1. id \in DOMAIN orders
  BY Zenon DEF AcceptCancel
<1>2. s \in Symbols /\ d \in Sides /\ p \in DOMAIN book[s][d]
  BY <1>1, Disassemble DEF OrderRef, IndexIsResting, RestsAt
<1>3. PICK i \in DOMAIN Q :
        /\ Q[i].id = id
        /\ Edit(s, d, p, RemoveAt(Q, i))
        /\ Publish("cancel", s, "N", Q[i].qty, Q[i].price)
  BY Zenon DEF AcceptCancel, Edit
<1>4. Q \in Seq(Order) /\ Q[i] \in Order
  BY <1>2, Disassemble, LevelFacts
<1>5. Drops(Q, i, RemoveAt(Q, i))
  BY <1>4, RemoveAtDrops
<1>6. orders' = Without(orders, Q[i].id)
  BY Zenon, <1>3 DEF AcceptCancel
<1>7. /\ BookOK' /\ Uncrossed' /\ RestingIsIndexed' /\ IndexIsResting'
      /\ \A t \in Symbols, e \in Sides : \A r \in DOMAIN book'[t][e] :
           /\ book'[t][e][r] # <<>>
           /\ \A j \in DOMAIN book'[t][e][r] : book'[t][e][r][j].qty > 0
  <2> HIDE DEF s, d, p
  <2> QED
    BY <1>2, <1>3, <1>5, <1>6, Disassemble, DropPreserves
<1>8. /\ DOMAIN orders' = DOMAIN orders \ {id}
      /\ \E D \in SUBSET OrderIds : orders' \in [D -> OrderRef]
  BY Zenon, <1>3, <1>6, Disassemble, WithoutFacts
<1>9. /\ completed' = completed \cup {id} /\ completed' \in SUBSET OrderIds
      /\ incoming' = incoming /\ incoming = NoOrder
  BY Zenon, Disassemble DEF AcceptCancel, TakeRequest
<1>10. LiveNotCompleted'
  BY <1>8, <1>9, Disassemble DEF LiveNotCompleted
<1>11. txn' \in [Symbols -> Nat \ {0}] /\ sent' \in Msg
  <2>1. Q[i].qty \in 0..(QtyMod - 1) /\ Q[i].price \in Prices
    BY Zenon, <1>4 DEF Order
  <2> QED
    BY Zenon, <1>2, <1>3, <2>1, Disassemble, PublishFacts
<1> QED
  BY Zenon, <1>7, <1>8, <1>9, <1>10, <1>11, Assemble

-----------------------------------------------------------------------------
LEMMA StepInv == IInv /\ [Next]_vars => IInv'
<1> SUFFICES ASSUME IInv, [Next]_vars PROVE IInv'
  OBVIOUS
<1>1. CASE InvalidLine
  BY <1>1, QuietStep DEF InvalidLine
<1>2. ASSUME NEW o \in Requests, RefuseSubmit(o) PROVE IInv'
  BY <1>2, QuietStep DEF RefuseSubmit
<1>3. ASSUME NEW o \in Requests, AcceptSubmit(o) PROVE IInv'
  BY <1>3, AcceptSubmitInv
<1>4. ASSUME NEW p \in Prices, FillResting(p) PROVE IInv'
  BY <1>4, FillRestingInv
<1>5. ASSUME NEW p \in Prices, FillIncoming(p) PROVE IInv'
  BY <1>5, FillIncomingInv
<1>6. CASE RestIncoming
  BY <1>6, RestIncomingInv
<1>7. ASSUME NEW id \in OrderIds, RefuseCancel(id) PROVE IInv'
  BY <1>7, QuietStep DEF RefuseCancel
<1>8. ASSUME NEW id \in OrderIds, AcceptCancel(id) PROVE IInv'
  BY <1>8, AcceptCancelInv
<1>9. CASE PrintBooks
  BY <1>9, QuietStep DEF PrintBooks
<1>10. CASE UNCHANGED vars
  <2>1. sent \in Msg \cup {NoMsg}
    BY DEF IInv, TypeOK
  <2> QED
    BY <1>10, <2>1, QuietStep DEF vars
<1> QED
  BY <1>1, <1>2, <1>3, <1>4, <1>5, <1>6, <1>7, <1>8, <1>9, <1>10
     DEF Next, Submit, Match, Cancel

LEMMA Invariance == Spec => []IInv
  BY InitInv, StepInv, PTL DEF Spec

\* The engine's data keep their types: in particular a quantity never leaves
\* the 16 bits of OrderInfo::qty_, whatever is subtracted in Engine::match.
THEOREM TypeCorrect == Spec => []TypeOK
<1>1. IInv => TypeOK
  BY DEF IInv
<1> QED
  BY <1>1, Invariance, PTL

\* Engine::match and Book::add_order never leave a crossed or locked book, not
\* even between two fills.
THEOREM NeverCrossed == Spec => []Uncrossed
<1>1. IInv => Uncrossed
  BY DEF IInv
<1> QED
  BY <1>1, Invariance, PTL

\* No empty level is left behind for front() to be called on, and no order of
\* quantity 0 for the loop of match to fill for ever.
THEOREM NeverEmpty == Spec => []NoEmptyEntries
<1>1. IInv => NoEmptyEntries
  BY DEF IInv
<1> QED
  BY <1>1, Invariance, PTL

\* Engine::orders_ holds exactly the orders in the books, each with a valid
\* iterator, and none that has been completed.
THEOREM IndexCorrect == Spec => []IndexMatchesBook
<1>1. IInv => IndexMatchesBook
  BY DEF IInv
<1> QED
  BY <1>1, Invariance, PTL

\* An iteration of the loop of match that does not end the handler leaves the
\* incoming order strictly smaller: the loop cannot run for ever.
THEOREM Progress == Spec => HandlerProgress
<1> DEFINE Shrinks == incoming # NoOrder /\ incoming' # NoOrder => incoming'.qty < incoming.qty
<1>1. IInv /\ [Next]_vars => [Shrinks]_vars
  <2> SUFFICES ASSUME IInv, Next, incoming # NoOrder, incoming' # NoOrder
               PROVE  incoming'.qty < incoming.qty
    BY DEF HandlerProgress
  <2>1. PICK p \in Prices : FillResting(p)
    BY Zenon DEF Next, InvalidLine, Submit, RefuseSubmit, AcceptSubmit, TakeRequest, Match,
           FillIncoming, RestIncoming, Cancel, RefuseCancel, AcceptCancel, PrintBooks
  <2>2. /\ incoming \in Order
        /\ Head(Queue(p)) \in Order /\ Head(Queue(p)).qty > 0
    BY <2>1, MatchableFacts DEF FillResting
  <2>3. incoming' = [incoming EXCEPT !.qty = @ - Head(Queue(p)).qty]
    BY <2>1 DEF FillResting, Reduced
  <2>4. /\ incoming.qty \in Int /\ Head(Queue(p)).qty \in Int
        /\ incoming'.qty = incoming.qty - Head(Queue(p)).qty
    BY <2>2, <2>3, EngineAssumption DEF Order
  <2> QED
    BY <2>2, <2>4
<1> QED
  BY <1>1, Invariance, PTL DEF Spec, HandlerProgress

-----------------------------------------------------------------------------
(* Sums.                                                                    *)

LEMMA TotalIsWeight ==
  ASSUME NEW w
  PROVE  Total(w) = TotalWeight(w)
BY DEF Total, FoldFunction, FoldFunctionOnSet, MapThenFoldSet, TotalWeight, Weighs

LEMMA NoneTotal ==
  ASSUME NEW w \in [{} -> Nat]
  PROVE  Total(w) = 0
BY TotalIsWeight, TotalEmpty

LEMMA OneTotal ==
  ASSUME NEW x, NEW w \in [{x} -> Nat]
  PROVE  Total(w) = w[x]
BY TotalIsWeight, TotalSingle

LEMMA RaisedTotal ==
  ASSUME NEW D, IsFiniteSet(D), NEW w \in [D -> Nat], NEW x \in D, NEW n \in Nat,
         NEW u \in [D -> Nat], u[x] = w[x] + n, \A y \in D \ {x} : u[y] = w[y]
  PROVE  Total(u) = Total(w) + n
<1>1. TotalWeight(u) = TotalWeight(w) + n
  BY TotalRaised
<1> QED
  BY <1>1, TotalIsWeight

LEMMA ZeroTotal ==
  ASSUME NEW D, IsFiniteSet(D), NEW w \in [D -> Nat], \A x \in D : w[x] = 0
  PROVE  Total(w) = 0
<1> DEFINE c == [s \in SUBSET D |-> 0]
<1>1. c = [s \in SUBSET DOMAIN w |->
             IF s = {} THEN 0
             ELSE w[CHOOSE x \in s : TRUE] + c[s \ {CHOOSE x \in s : TRUE}]]
  <2>1. ASSUME NEW s \in SUBSET D, s # {}
        PROVE  0 = w[CHOOSE x \in s : TRUE] + c[s \ {CHOOSE x \in s : TRUE}]
    <3>1. (CHOOSE x \in s : TRUE) \in s
      BY <2>1
    <3>2. w[CHOOSE x \in s : TRUE] = 0 /\ c[s \ {CHOOSE x \in s : TRUE}] = 0
      BY <3>1
    <3> QED
      BY <3>2
  <2> QED
    BY <2>1
<1>2. Weighs(w, c)
  BY <1>1 DEF Weighs
<1>3. c[D] = 0
  OBVIOUS
<1> HIDE DEF c
<1> QED
  BY <1>2, <1>3, TotalBy, TotalIsWeight

-----------------------------------------------------------------------------
(* What rests under an id.                                                  *)

\* An order of this id and quantity is somewhere in the books.
InBook(id, q) ==
  \E s \in Symbols, d \in Sides : \E p \in DOMAIN book[s][d] : \E i \in DOMAIN book[s][d][p] :
    book[s][d][p][i].id = id /\ book[s][d][p][i].qty = q

RestKnown ==
  /\ \A id, q : InBook(id, q) => Resting(id) = q /\ q \in Nat
  /\ \A id : id \notin DOMAIN orders => Resting(id) = 0
  /\ \A id \in DOMAIN orders : \E q : InBook(id, q)

LEMMA PlaceFacts ==
  ASSUME IInv
  PROVE  /\ \A at \in Places : \E s \in Symbols, d \in Sides : \E p \in DOMAIN book[s][d] :
              \E i \in DOMAIN book[s][d][p] :
                at = <<s, d, p, i>> /\ OrderAt(at) = book[s][d][p][i]
         /\ \A s \in Symbols, d \in Sides : \A p \in DOMAIN book[s][d] :
              \A i \in DOMAIN book[s][d][p] :
                <<s, d, p, i>> \in Places /\ OrderAt(<<s, d, p, i>>) = book[s][d][p][i]
<1>1. \A s \in Symbols, d \in Sides : \A p \in DOMAIN book[s][d] : p \in Prices
  BY Disassemble, LevelFacts
<1>2. ASSUME NEW at \in Places
      PROVE  \E s \in Symbols, d \in Sides : \E p \in DOMAIN book[s][d] :
               \E i \in DOMAIN book[s][d][p] :
                 at = <<s, d, p, i>> /\ OrderAt(at) = book[s][d][p][i]
  <2>1. PICK s \in Symbols, d \in Sides, p \in Prices :
          at \in {s} \X {d} \X {p} \X DOMAIN LevelAt(book[s][d], p)
    BY DEF Places
  <2>2. PICK i \in DOMAIN LevelAt(book[s][d], p) : at = <<s, d, p, i>>
    BY <2>1
  <2>3. p \in DOMAIN book[s][d] /\ LevelAt(book[s][d], p) = book[s][d][p]
    BY <2>2 DEF LevelAt
  <2> QED
    BY <2>2, <2>3 DEF OrderAt
<1>3. ASSUME NEW s \in Symbols, NEW d \in Sides, NEW p \in DOMAIN book[s][d],
             NEW i \in DOMAIN book[s][d][p]
      PROVE  <<s, d, p, i>> \in Places /\ OrderAt(<<s, d, p, i>>) = book[s][d][p][i]
  <2>1. p \in Prices /\ LevelAt(book[s][d], p) = book[s][d][p]
    BY <1>1 DEF LevelAt
  <2> DEFINE here == <<s, d, p, i>>
  <2>2. here \in {s} \X {d} \X {p} \X DOMAIN LevelAt(book[s][d], p)
    BY <2>1
  <2>3. here[1] = s /\ here[2] = d /\ here[3] = p /\ here[4] = i
    OBVIOUS
  <2> HIDE DEF here
  <2> DEFINE level(t, e, r) == {t} \X {e} \X {r} \X DOMAIN LevelAt(book[t][e], r)
  <2>4. here \in Places
    <3>1. here \in level(s, d, p)
      BY <2>2
    <3>2. Places = UNION {level(t, e, r) : t \in Symbols, e \in Sides, r \in Prices}
      BY DEF Places
    <3> HIDE DEF level
    <3>3. level(s, d, p) \in {level(t, e, r) : t \in Symbols, e \in Sides, r \in Prices}
      BY <2>1
    <3> QED
      BY <3>1, <3>2, <3>3
  <2>5. OrderAt(here) = book[s][d][p][i]
    BY <2>3 DEF OrderAt
  <2> QED
    BY <2>4, <2>5 DEF here
<1> QED
  BY <1>2, <1>3

LEMMA PlaceOfId ==
  ASSUME RestingIsIndexed, NEW s \in Symbols, NEW d \in Sides,
         NEW p \in DOMAIN book[s][d], NEW i \in DOMAIN book[s][d][p],
         NEW id, id = book[s][d][p][i].id
  PROVE  orders[id] = [sym |-> s, side |-> d, price |-> p]
<1>1. IndexedAt(orders, book[s][d][p][i], s, d, p)
  BY DEF RestingIsIndexed
<1> QED
  BY <1>1 DEF IndexedAt

LEMMA RestFacts == IInv => RestKnown
<1> SUFFICES ASSUME IInv PROVE RestKnown
  OBVIOUS
<1>1. RestingIsIndexed /\ IndexIsResting /\ BookOK
      /\ \E D \in SUBSET OrderIds : orders \in [D -> OrderRef]
  BY Disassemble
<1>2. ASSUME NEW id, NEW q, InBook(id, q)
      PROVE  Resting(id) = q /\ q \in Nat
  <2>0. RestingIsIndexed
    BY <1>1
  <2>1. PICK s \in Symbols, d \in Sides : \E p \in DOMAIN book[s][d] :
               \E i \in DOMAIN book[s][d][p] :
                 book[s][d][p][i].id = id /\ book[s][d][p][i].qty = q
    BY <1>2 DEF InBook
  <2>2. PICK p \in DOMAIN book[s][d] : \E i \in DOMAIN book[s][d][p] :
          book[s][d][p][i].id = id /\ book[s][d][p][i].qty = q
    BY <2>1
  <2>3. PICK i \in DOMAIN book[s][d][p] :
          book[s][d][p][i].id = id /\ book[s][d][p][i].qty = q
    BY <2>2
  <2> DEFINE here == <<s, d, p, i>>
             K == {at \in Places : OrderAt(at).id = id}
             w == [place \in K |-> OrderAt(place).qty]
  <2>4. q \in Nat
    BY <1>1, <2>3, LevelFacts, EngineAssumption DEF Order
  <2>5. here \in K /\ OrderAt(here).qty = q
    BY <2>3, PlaceFacts
  <2>6. ASSUME NEW at \in K
        PROVE  at = here
    <3>1. PICK t \in Symbols, e \in Sides : \E r \in DOMAIN book[t][e] :
            \E j \in DOMAIN book[t][e][r] :
              at = <<t, e, r, j>> /\ OrderAt(at) = book[t][e][r][j]
      BY PlaceFacts
    <3>2. PICK r \in DOMAIN book[t][e] : \E j \in DOMAIN book[t][e][r] :
            at = <<t, e, r, j>> /\ OrderAt(at) = book[t][e][r][j]
      BY <3>1
    <3>3. PICK j \in DOMAIN book[t][e][r] :
            at = <<t, e, r, j>> /\ OrderAt(at) = book[t][e][r][j]
      BY <3>2
    <3>4. book[t][e][r][j].id = id
      BY <3>3
    <3>5. orders[id] = [sym |-> t, side |-> e, price |-> r]
      BY ONLY <2>0, <3>4, t \in Symbols, e \in Sides, r \in DOMAIN book[t][e],
              j \in DOMAIN book[t][e][r], PlaceOfId
    <3>6. orders[id] = [sym |-> s, side |-> d, price |-> p]
      BY ONLY <2>0, <2>3, s \in Symbols, d \in Sides, p \in DOMAIN book[s][d],
              i \in DOMAIN book[s][d][p], PlaceOfId
    <3>7. t = s /\ e = d /\ r = p
      BY ONLY <3>5, <3>6
    <3>8. j = i
      <4>1. j \in DOMAIN book[s][d][p] /\ book[s][d][p][i].id = book[s][d][p][j].id
        BY ONLY <2>3, <3>4, <3>7, j \in DOMAIN book[t][e][r]
      <4> QED
        BY ONLY <2>0, <4>1, s \in Symbols, d \in Sides, p \in DOMAIN book[s][d],
                i \in DOMAIN book[s][d][p], UniqueIds
    <3> QED
      BY <3>3, <3>7, <3>8
  <2>7. K = {here}
    BY <2>5, <2>6
  <2> HIDE DEF here, K
  <2>8. w \in [{here} -> Nat] /\ w[here] = q
    BY <2>4, <2>5, <2>7
  <2>9. Resting(id) = Total(w)
    BY DEF Resting, K
  <2> HIDE DEF w
  <2> QED
    BY <2>4, <2>8, <2>9, OneTotal
<1>3. ASSUME NEW id, id \notin DOMAIN orders
      PROVE  Resting(id) = 0
  <2> DEFINE K == {at \in Places : OrderAt(at).id = id}
             w == [place \in K |-> OrderAt(place).qty]
  <2>1. ASSUME NEW at \in K
        PROVE  FALSE
    <3>1. PICK t \in Symbols, e \in Sides : \E r \in DOMAIN book[t][e] :
            \E j \in DOMAIN book[t][e][r] : OrderAt(at) = book[t][e][r][j]
      BY PlaceFacts
    <3>2. PICK r \in DOMAIN book[t][e] : \E j \in DOMAIN book[t][e][r] :
            OrderAt(at) = book[t][e][r][j]
      BY <3>1
    <3>3. PICK j \in DOMAIN book[t][e][r] : OrderAt(at) = book[t][e][r][j]
      BY <3>2
    <3>4. IndexedAt(orders, book[t][e][r][j], t, e, r)
      BY <1>1, IndexedFacts
    <3> QED
      BY <1>3, <3>3, <3>4 DEF IndexedAt
  <2>2. K = {}
    BY <2>1
  <2> HIDE DEF K
  <2>3. w \in [{} -> Nat]
    BY <2>2
  <2>4. Resting(id) = Total(w)
    BY DEF Resting, K
  <2> HIDE DEF w
  <2> QED
    BY <2>3, <2>4, NoneTotal
<1>4. ASSUME NEW id \in DOMAIN orders
      PROVE  \E q : InBook(id, q)
  <2> DEFINE ref == orders[id]
  <2>1. ref.sym \in Symbols /\ ref.side \in Sides
    BY <1>1 DEF OrderRef
  <2>2. /\ ref.price \in DOMAIN book[ref.sym][ref.side]
        /\ \E i \in DOMAIN book[ref.sym][ref.side][ref.price] :
             book[ref.sym][ref.side][ref.price][i].id = id
    BY <1>1 DEF IndexIsResting, RestsAt
  <2> HIDE DEF ref
  <2> QED
    BY <2>1, <2>2 DEF InBook
<1> QED
  BY <1>2, <1>3, <1>4 DEF RestKnown

LEMMA RestFactsNext == IInv' => RestKnown'
BY RestFacts, PTL

\* An id keeps its quantity if its orders in the stored level come from the
\* level it replaces.
LEMMA SameRest ==
  ASSUME RestKnown, RestKnown', BookOK,
         NEW s \in Symbols, NEW d \in Sides, NEW p \in Prices, NEW q \in Seq(Order),
         Edit(s, d, p, q), NEW id \in DOMAIN orders',
         \A j \in DOMAIN q : q[j].id = id =>
           /\ p \in DOMAIN book[s][d]
           /\ \E k \in DOMAIN book[s][d][p] :
                book[s][d][p][k].id = id /\ book[s][d][p][k].qty = q[j].qty
  PROVE  Resting(id)' = Resting(id)
<1>1. PICK n : InBook(id, n)' /\ Resting(id)' = n
  BY DEF RestKnown
<1>2. PICK t \in Symbols, e \in Sides : \E r \in DOMAIN book'[t][e] :
        \E j \in DOMAIN book'[t][e][r] :
          book'[t][e][r][j].id = id /\ book'[t][e][r][j].qty = n
  BY <1>1 DEF InBook
<1>3. PICK r \in DOMAIN book'[t][e] : \E j \in DOMAIN book'[t][e][r] :
        book'[t][e][r][j].id = id /\ book'[t][e][r][j].qty = n
  BY <1>2
<1>4. PICK j \in DOMAIN book'[t][e][r] :
        book'[t][e][r][j].id = id /\ book'[t][e][r][j].qty = n
  BY <1>3
<1>5. /\ BookOK'
      /\ p \in DOMAIN book'[s][d] <=> q # <<>>
      /\ q # <<>> => book'[s][d][p] = q
      /\ \A a \in Symbols, b \in Sides, c \in Prices :
           a # s \/ b # d \/ c # p =>
             /\ c \in DOMAIN book'[a][b] <=> c \in DOMAIN book[a][b]
             /\ c \in DOMAIN book[a][b] => book'[a][b][c] = book[a][b][c]
  BY EditFacts
<1>6. InBook(id, n)
  <2>1. CASE t = s /\ e = d /\ r = p
    <3>1. j \in DOMAIN q /\ q[j].id = id /\ q[j].qty = n
      BY <1>4, <1>5, <2>1
    <3>2. p \in DOMAIN book[s][d]
          /\ \E k \in DOMAIN book[s][d][p] :
               book[s][d][p][k].id = id /\ book[s][d][p][k].qty = n
      BY <3>1
    <3> QED
      BY <3>2 DEF InBook
  <2>2. CASE ~(t = s /\ e = d /\ r = p)
    <3>1. r \in Prices
      BY <1>5, LevelMapFacts DEF BookOK
    <3>2. r \in DOMAIN book[t][e] /\ book'[t][e][r] = book[t][e][r]
      BY <1>5, <2>2, <3>1
    <3> QED
      BY <1>4, <3>2 DEF InBook
  <2> QED
    BY <2>1, <2>2
<1>7. Resting(id) = n
  BY <1>6 DEF RestKnown
<1> QED
  BY <1>1, <1>7

\* The order that leaves its level takes its quantity with it.
LEMMA DropRests ==
  ASSUME IInv, IInv', RestKnown, RestKnown',
         NEW s \in Symbols, NEW d \in Sides, NEW p \in DOMAIN book[s][d],
         NEW i \in DOMAIN book[s][d][p], NEW q,
         Drops(book[s][d][p], i, q), Edit(s, d, p, q),
         NEW gone, gone = book[s][d][p][i].id, orders' = Without(orders, gone)
  PROVE  /\ Resting(gone) = book[s][d][p][i].qty
         /\ Resting(gone)' = 0
         /\ \A id : id # gone => Resting(id)' = Resting(id)
<1> DEFINE Q == book[s][d][p]
<1>1. gone = Q[i].id
  OBVIOUS
<1>2. BookOK /\ p \in Prices /\ Q \in Seq(Order) /\ q \in Seq(Order)
  BY Disassemble, LevelFacts DEF Drops
<1>3. DOMAIN orders' = DOMAIN orders \ {gone}
  BY <1>1 DEF Without
<1>4. Resting(gone) = Q[i].qty
  <2>1. InBook(gone, Q[i].qty)
    BY <1>1 DEF InBook
  <2> QED
    BY <2>1 DEF RestKnown
<1>5. Resting(gone)' = 0
  BY <1>3 DEF RestKnown
<1>6. ASSUME NEW id, id # gone
      PROVE  Resting(id)' = Resting(id)
  <2>1. CASE id \notin DOMAIN orders
    BY <1>3, <2>1 DEF RestKnown
  <2>2. CASE id \in DOMAIN orders
    <3>1. id \in DOMAIN orders'
      BY <1>3, <1>6, <2>2
    <3>2. ASSUME NEW j \in DOMAIN q, q[j].id = id
          PROVE  \E k \in DOMAIN Q : Q[k].id = id /\ Q[k].qty = q[j].qty
      <4>1. /\ i \in 1..Len(Q) /\ j \in 1..Len(q) /\ Len(q) = Len(Q) - 1 /\ Len(Q) \in Nat
            /\ j < i => q[j] = Q[j]
            /\ j >= i => q[j] = Q[j + 1]
        BY <1>2 DEF Drops
      <4> HIDE DEF Q
      <4>2. \E k \in 1..Len(Q) : q[j] = Q[k]
        <5>1. CASE j < i
          BY ONLY <4>1, <5>1
        <5>2. CASE j >= i
          <6>1. j + 1 \in 1..Len(Q)
            BY ONLY <4>1
          <6>2. q[j] = Q[j + 1]
            BY ONLY <4>1, <5>2
          <6> QED
            BY ONLY <6>1, <6>2
        <5> QED
          BY ONLY <4>1, <5>1, <5>2
      <4> QED
        BY <1>2, <3>2, <4>2
    <3> HIDE DEF Q
    <3>3. \A j \in DOMAIN q : q[j].id = id =>
            /\ p \in DOMAIN book[s][d]
            /\ \E k \in DOMAIN book[s][d][p] :
                 book[s][d][p][k].id = id /\ book[s][d][p][k].qty = q[j].qty
      BY <3>2 DEF Q
    <3> QED
      BY ONLY <1>2, <3>1, <3>3, <2>2, s \in Symbols, d \in Sides, IInv, IInv', RestKnown, RestKnown',
              Edit(s, d, p, q), SameRest
  <2> QED
    BY <2>1, <2>2
<1> QED
  BY <1>1, <1>4, <1>5, <1>6

\* Queue q is queue Q with n off the order at its front.
Shrinks(Q, n, q) == q = [Q EXCEPT ![1].qty = @ - n]

\* The order at the front gets smaller, and it alone.
LEMMA ShrinkRests ==
  ASSUME IInv, IInv', RestKnown, RestKnown',
         NEW s \in Symbols, NEW d \in Sides, NEW p \in DOMAIN book[s][d],
         NEW n \in Nat, n > 0, n < book[s][d][p][1].qty,
         NEW q, Shrinks(book[s][d][p], n, q), Edit(s, d, p, q),
         orders' = orders, NEW first, first = book[s][d][p][1].id
  PROVE  /\ Resting(first) = book[s][d][p][1].qty
         /\ Resting(first)' = book[s][d][p][1].qty - n
         /\ \A id : id # first => Resting(id)' = Resting(id)
<1> DEFINE Q == book[s][d][p]
<1>1. first = Q[1].id
  OBVIOUS
<1>2. q = [Q EXCEPT ![1].qty = @ - n]
  BY DEF Shrinks
<1>3. BookOK /\ p \in Prices /\ Q \in Seq(Order) /\ Q # <<>>
  BY Disassemble, LevelFacts DEF NoEmptyEntries
<1>4. /\ q \in Seq(Order)
      /\ Len(q) = Len(Q)
      /\ \A j \in 1..Len(Q) : q[j].id = Q[j].id
  <2>1. n < Q[1].qty
    OBVIOUS
  <2> HIDE DEF Q
  <2> QED
    BY ONLY <1>2, <1>3, <2>1, n \in Nat, n > 0, ShrinkFacts
<1>5. /\ 1 \in DOMAIN Q /\ 1 \in DOMAIN q
      /\ q[1].qty = Q[1].qty - n
      /\ \A j \in DOMAIN q : j # 1 => j \in DOMAIN Q /\ q[j] = Q[j]
  <2> HIDE DEF Q
  <2>1. 1 \in 1..Len(Q) /\ Q[1] \in Order /\ DOMAIN Q = 1..Len(Q) /\ DOMAIN q = 1..Len(Q)
    BY ONLY <1>3, <1>4
  <2>2. q = [Q EXCEPT ![1] = [Q[1] EXCEPT !.qty = @ - n]]
    BY <1>2
  <2>3. [Q[1] EXCEPT !.qty = @ - n].qty = Q[1].qty - n
    BY <2>1 DEF Order
  <2> QED
    BY <2>1, <2>2, <2>3
<1>11. q[1].id = first
  <2> HIDE DEF Q
  <2>1. 1 \in 1..Len(Q)
    BY ONLY <1>3, <1>5
  <2> QED
    BY ONLY <1>1, <1>4, <2>1
<1>6. Edit(s, d, p, q)
  OBVIOUS
<1>7. p \in DOMAIN book'[s][d] /\ book'[s][d][p] = q
  <2>1. q # <<>>
    BY ONLY <1>5
  <2> QED
    BY ONLY <1>3, <1>4, <1>6, <2>1, s \in Symbols, d \in Sides, EditFacts
<1>8. Resting(first) = Q[1].qty
  <2>1. InBook(first, Q[1].qty)
    BY <1>1, <1>5 DEF InBook
  <2> QED
    BY <2>1 DEF RestKnown
<1>9. Resting(first)' = Q[1].qty - n
  <2> HIDE DEF Q
  <2>2. InBook(first, q[1].qty)'
    <3>1. 1 \in DOMAIN book'[s][d][p] /\ book'[s][d][p][1].id = first
          /\ book'[s][d][p][1].qty = q[1].qty
      BY ONLY <1>5, <1>7, <1>11
    <3> QED
      BY ONLY <1>7, <3>1, s \in Symbols, d \in Sides DEF InBook
  <2>3. Resting(first)' = q[1].qty
    BY <2>2 DEF RestKnown
  <2> QED
    BY <1>5, <2>3
<1>10. ASSUME NEW id, id # first
       PROVE  Resting(id)' = Resting(id)
  <2>1. CASE id \notin DOMAIN orders
    BY <2>1 DEF RestKnown
  <2>2. CASE id \in DOMAIN orders
    <3>1. ASSUME NEW j \in DOMAIN q, q[j].id = id
          PROVE  \E k \in DOMAIN Q : Q[k].id = id /\ Q[k].qty = q[j].qty
      <4>2. j # 1
        BY ONLY <1>10, <3>1, <1>11
      <4> QED
        BY ONLY <1>5, <3>1, <4>2
    <3> HIDE DEF Q
    <3>2. \A j \in DOMAIN q : q[j].id = id =>
            /\ p \in DOMAIN book[s][d]
            /\ \E k \in DOMAIN book[s][d][p] :
                 book[s][d][p][k].id = id /\ book[s][d][p][k].qty = q[j].qty
      BY <3>1 DEF Q
    <3> QED
      BY ONLY <1>3, <1>4, <1>6, <2>2, <3>2, s \in Symbols, d \in Sides, orders' = orders,
              RestKnown, RestKnown', SameRest
  <2> QED
    BY <2>1, <2>2
<1> QED
  BY <1>1, <1>8, <1>9, <1>10

\* An order comes to rest, and no other order moves.
LEMMA AppendRests ==
  ASSUME IInv, IInv', RestKnown, RestKnown', NEW o \in Order, o.id \notin DOMAIN orders,
         Edit(o.sym, o.side, o.price, Append(LevelAt(book[o.sym][o.side], o.price), o)),
         DOMAIN orders' = DOMAIN orders \cup {o.id}
  PROVE  /\ Resting(o.id) = 0
         /\ Resting(o.id)' = o.qty
         /\ \A id : id # o.id => Resting(id)' = Resting(id)
<1>1. PICK s, d, p : s = o.sym /\ d = o.side /\ p = o.price
  OBVIOUS
<1>2. BookOK /\ s \in Symbols /\ d \in Sides /\ p \in Prices /\ IsLevelMap(book[s][d])
  BY <1>1, Disassemble DEF Order, BookOK
<1>3. PICK q : q = Append(LevelAt(book[s][d], p), o)
  OBVIOUS
<1>4. /\ q \in Seq(Order) /\ q # <<>>
      /\ q[Len(q)] = o /\ Len(q) \in DOMAIN q
      /\ \A j \in DOMAIN q : j # Len(q) =>
           p \in DOMAIN book[s][d] /\ j \in DOMAIN book[s][d][p] /\ q[j] = book[s][d][p][j]
  BY <1>2, <1>3, AppendFacts DEF Appended
<1>5. Edit(s, d, p, q)
  BY <1>1, <1>3
<1>6. p \in DOMAIN book'[s][d] /\ book'[s][d][p] = q
  BY <1>2, <1>4, <1>5, EditFacts
<1>7. Resting(o.id) = 0
  BY DEF RestKnown
<1>8. Resting(o.id)' = o.qty
  <2>1. InBook(o.id, o.qty)'
    BY <1>2, <1>4, <1>6 DEF InBook
  <2> QED
    BY <2>1 DEF RestKnown
<1>9. ASSUME NEW id, id # o.id
      PROVE  Resting(id)' = Resting(id)
  <2>1. CASE id \notin DOMAIN orders
    BY <1>9, <2>1 DEF RestKnown
  <2>2. CASE id \in DOMAIN orders
    <3>1. \A j \in DOMAIN q : q[j].id = id =>
            /\ p \in DOMAIN book[s][d]
            /\ \E k \in DOMAIN book[s][d][p] :
                 book[s][d][p][k].id = id /\ book[s][d][p][k].qty = q[j].qty
      BY <1>4, <1>9
    <3> QED
      BY <1>2, <1>4, <1>5, <2>2, <3>1, SameRest
  <2> QED
    BY <2>1, <2>2
<1> QED
  BY <1>7, <1>8, <1>9

\* No book is touched.
LEMMA NoneRests ==
  ASSUME RestKnown, RestKnown', UNCHANGED <<book, orders>>
  PROVE  \A id : Resting(id)' = Resting(id)
<1> SUFFICES ASSUME NEW id PROVE Resting(id)' = Resting(id)
  OBVIOUS
<1>1. CASE id \notin DOMAIN orders
  BY <1>1 DEF RestKnown
<1>2. CASE id \in DOMAIN orders
  <2>1. PICK n : InBook(id, n)
    BY <1>2 DEF RestKnown
  <2>2. InBook(id, n)'
    BY <2>1 DEF InBook
  <2> QED
    BY <2>1, <2>2 DEF RestKnown
<1> QED
  BY <1>1, <1>2

LEMMA RestNat ==
  ASSUME RestKnown, NEW id
  PROVE  Resting(id) \in Nat
<1>1. CASE id \notin DOMAIN orders
  BY <1>1 DEF RestKnown
<1>2. CASE id \in DOMAIN orders
  BY <1>2 DEF RestKnown
<1> QED
  BY <1>1, <1>2

-----------------------------------------------------------------------------
(* What a step adds to the totals.                                          *)

FillRecs == [type : {"F"}, id : OrderIds, qty : Nat, price : Prices]

Accounts ==
  /\ entered \in [OrderIds -> Nat]
  /\ reported \in [OrderIds -> Nat]
  /\ withdrawn \in [OrderIds -> Nat]
  /\ tape \in Nat

LEMMA NothingEntered ==
  ASSUME Accounts, Audit, incoming # NoOrder \/ incoming' = NoOrder
  PROVE  entered' = entered
BY DEF Accounts, Audit

LEMMA NothingReported ==
  ASSUME Accounts, Audit, \A k \in DOMAIN NewResults : NewResults[k].type # "F"
  PROVE  reported' = reported
<1>1. ASSUME NEW id \in OrderIds
      PROVE  Total([k \in NewRecords("F", id) |-> NewResults[k].qty]) = 0
  <2> DEFINE w == [k \in NewRecords("F", id) |-> NewResults[k].qty]
  <2>1. NewRecords("F", id) = {}
    BY DEF NewRecords
  <2>2. w \in [{} -> Nat]
    BY <2>1
  <2> HIDE DEF w
  <2>3. Total(w) = 0
    BY <2>2, NoneTotal
  <2> QED
    BY <2>3 DEF w
<1>2. reported' = [id \in OrderIds |-> reported[id] +
                     Total([k \in NewRecords("F", id) |-> NewResults[k].qty])]
  BY DEF Audit
<1>3. reported' = [id \in OrderIds |-> reported[id] + 0]
  BY <1>1, <1>2
<1> QED
  BY <1>3 DEF Accounts

LEMMA NothingWithdrawn ==
  ASSUME Accounts, Audit, \A k \in DOMAIN NewResults : NewResults[k].type # "X"
  PROVE  withdrawn' = withdrawn
<1>1. \A id \in OrderIds : NewRecords("X", id) = {}
  BY DEF NewRecords
<1>2. withdrawn' = [id \in OrderIds |-> withdrawn[id] +
                      IF NewRecords("X", id) # {} THEN sent'.qty ELSE 0]
  BY DEF Audit
<1>3. withdrawn' = [id \in OrderIds |-> withdrawn[id] + 0]
  BY <1>1, <1>2
<1> QED
  BY <1>3 DEF Accounts

LEMMA NothingOnTape ==
  ASSUME Accounts, Audit, sent' = NoMsg \/ sent'.type # "trade"
  PROVE  tape' = tape
<1>1. tape' = tape + 0
  BY DEF Audit
<1> QED
  BY <1>1 DEF Accounts

LEMMA BackOfConcat ==
  ASSUME NEW S, NEW p \in Seq(S), NEW q \in Seq(S)
  PROVE  SubSeq(p \o q, Len(p) + 1, Len(p \o q)) = q
<1> DEFINE all == p \o q
           back == SubSeq(all, Len(p) + 1, Len(all))
<1>1. /\ all \in Seq(S) /\ Len(all) = Len(p) + Len(q)
      /\ \A j \in 1..Len(q) : all[Len(p) + j] = q[j]
      /\ Len(p) \in Nat /\ Len(q) \in Nat
  BY Concat
<1> HIDE DEF all
<1>2. back = [j \in 1..Len(q) |-> all[Len(p) + j]]
  <2>1. back = [j \in 1..(Len(all) - (Len(p) + 1) + 1) |-> all[j + (Len(p) + 1) - 1]]
    BY <1>1
  <2>2. Len(all) - (Len(p) + 1) + 1 = Len(q)
    BY <1>1
  <2>3. \A j \in 1..Len(q) : j + (Len(p) + 1) - 1 = Len(p) + j
    BY <1>1
  <2> HIDE DEF back
  <2> QED
    BY <2>1, <2>2, <2>3
<1> HIDE DEF back
<1>3. back = [j \in 1..Len(q) |-> q[j]]
  BY <1>1, <1>2
<1>4. back = q
  BY <1>3
<1> QED
  BY <1>4 DEF back, all

\* The records of a fill are the last two.
LEMMA FillRecords ==
  ASSUME results \in Seq(FillRecs), incoming # NoOrder,
         NEW small \in Order, NEW large \in Order, NEW price \in Prices,
         results' = results \o FillReport(small, large, price)
  PROVE  /\ results' \in Seq(FillRecs)
         /\ NewResults = FillReport(small, large, price)
<1> DEFINE pair == FillReport(small, large, price)
<1>1. pair[1] \in FillRecs /\ pair[2] \in FillRecs
  BY EngineAssumption DEF FillReport, Rec, FillRecs, Order
<1>2. PICK a \in FillRecs, b \in FillRecs : pair = <<a, b>>
  BY <1>1 DEF FillReport
<1>3. pair \in Seq(FillRecs)
  <2> HIDE DEF pair
  <2> QED
    BY <1>2
<1>4. NewResults = SubSeq(results \o pair, Len(results) + 1, Len(results \o pair))
  BY DEF NewResults
<1> HIDE DEF pair
<1>5. results \o pair \in Seq(FillRecs)
  BY <1>3
<1>6. SubSeq(results \o pair, Len(results) + 1, Len(results \o pair)) = pair
  BY <1>3, BackOfConcat
<1> QED
  BY <1>4, <1>5, <1>6 DEF pair

\* A fill is reported to both orders and put on the tape once.
LEMMA FillAudited ==
  ASSUME Accounts, Audit, results \in Seq(FillRecs), incoming # NoOrder,
         NEW small \in Order, NEW large \in Order, NEW price \in Prices,
         small.id # large.id,
         results' = results \o FillReport(small, large, price),
         sent' \in Msg, sent'.type = "trade", sent'.qty = small.qty
  PROVE  /\ results' \in Seq(FillRecs)
         /\ entered' = entered
         /\ withdrawn' = withdrawn
         /\ tape' = tape + small.qty
         /\ reported' = [[reported EXCEPT ![small.id] = @ + small.qty]
                            EXCEPT ![large.id] = @ + small.qty]
<1> DEFINE pair == FillReport(small, large, price)
<1>1. results' \in Seq(FillRecs) /\ NewResults = pair
  BY FillRecords
<1>2. PICK n \in Nat : n = small.qty
  BY EngineAssumption DEF Order
<1>3. small.id \in OrderIds /\ large.id \in OrderIds
  BY DEF Order
<1>4. /\ DOMAIN pair = {1, 2}
      /\ pair[1].type = "F" /\ pair[1].id = small.id /\ pair[1].qty = n
      /\ pair[2].type = "F" /\ pair[2].id = large.id /\ pair[2].qty = n
  BY <1>2 DEF FillReport, Rec
<1> HIDE DEF pair
<1>5. entered' = entered
  BY NothingEntered
<1>6. withdrawn' = withdrawn
  BY <1>1, <1>4, NothingWithdrawn
<1>7. tape' = tape + n
  BY <1>2, EngineAssumption DEF Audit
<1>8. ASSUME NEW id \in OrderIds
      PROVE  Total([k \in NewRecords("F", id) |-> NewResults[k].qty]) =
               IF id = small.id \/ id = large.id THEN n ELSE 0
  <2> DEFINE w == [k \in NewRecords("F", id) |-> NewResults[k].qty]
  <2>1. NewRecords("F", id) = {k \in {1, 2} : pair[k].id = id}
    BY <1>1, <1>4 DEF NewRecords
  <2>2. CASE id = small.id
    <3>1. w \in [{1} -> Nat] /\ w[1] = n
      BY <1>1, <1>4, <2>1, <2>2
    <3> HIDE DEF w
    <3>2. Total(w) = n
      BY <3>1, OneTotal
    <3> QED
      BY <2>2, <3>2 DEF w
  <2>3. CASE id = large.id
    <3>1. w \in [{2} -> Nat] /\ w[2] = n
      BY <1>1, <1>4, <2>1, <2>3
    <3> HIDE DEF w
    <3>2. Total(w) = n
      BY <3>1, OneTotal
    <3> QED
      BY <2>3, <3>2 DEF w
  <2>4. CASE id # small.id /\ id # large.id
    <3>1. w \in [{} -> Nat]
      BY <1>4, <2>1, <2>4
    <3> HIDE DEF w
    <3>2. Total(w) = 0
      BY <3>1, NoneTotal
    <3> QED
      BY <2>4, <3>2 DEF w
  <2> QED
    BY <2>2, <2>3, <2>4
<1>9. reported' = [id \in OrderIds |-> reported[id] +
                     IF id = small.id \/ id = large.id THEN n ELSE 0]
  <2>1. reported' = [id \in OrderIds |-> reported[id] +
                       Total([k \in NewRecords("F", id) |-> NewResults[k].qty])]
    BY DEF Audit
  <2> QED
    BY <1>8, <2>1
<1>10. reported' = [[reported EXCEPT ![small.id] = @ + n] EXCEPT ![large.id] = @ + n]
  <2>0. PICK a \in OrderIds, b \in OrderIds : a = small.id /\ b = large.id
    BY <1>3
  <2> DEFINE once == [reported EXCEPT ![a] = @ + n]
             twice == [once EXCEPT ![b] = @ + n]
  <2>5. reported = [id \in OrderIds |-> reported[id]] /\ \A id \in OrderIds : reported[id] \in Nat
    BY DEF Accounts
  <2>6. \A id \in OrderIds : once[id] = reported[id] + IF id = a THEN n ELSE 0
    BY ONLY <1>2, <2>5 DEF once
  <2>1. once = [id \in OrderIds |-> reported[id] + IF id = small.id THEN n ELSE 0]
    <3>1. once = [id \in OrderIds |-> once[id]]
      BY <2>5
    <3> HIDE DEF once
    <3> QED
      BY <2>0, <2>6, <3>1
  <2> HIDE DEF once
  <2>2. twice = [id \in OrderIds |-> IF id = large.id THEN once[id] + n ELSE once[id]]
    BY <2>0, <2>1
  <2>3. \A id \in OrderIds :
          (IF id = large.id THEN once[id] + n ELSE once[id]) =
            reported[id] + IF id = small.id \/ id = large.id THEN n ELSE 0
    <3>1. a # b
      BY <2>0
    <3> QED
      BY ONLY <1>2, <2>0, <2>5, <2>6, <3>1
  <2> HIDE DEF twice
  <2>4. reported' = twice
    BY <1>9, <2>2, <2>3
  <2> QED
    BY <2>0, <2>4 DEF twice, once
<1> QED
  BY <1>1, <1>2, <1>5, <1>6, <1>7, <1>10

-----------------------------------------------------------------------------
(* The totals agree after every step.                                       *)

AuditInv ==
  /\ IInv
  /\ Accounts
  /\ incoming # NoOrder => results \in Seq(FillRecs)
  /\ QuantityConserved
  /\ TapeMatchesReports
  /\ \A id \in OrderIds : withdrawn[id] > 0 => id \in completed

LEMMA AuditInitInv == AuditInit => AuditInv
<1> SUFFICES ASSUME AuditInit PROVE AuditInv
  OBVIOUS
<1>1. IInv
  BY InitInv DEF AuditInit
<1>2. RestKnown
  BY <1>1, RestFacts
<1>3. Accounts
  BY DEF AuditInit, Accounts
<1>4. \A id : Resting(id) = 0
  BY <1>2 DEF AuditInit, Init, EmptyMap, RestKnown
<1>5. QuantityConserved
  BY <1>4 DEF AuditInit, Init, QuantityConserved, Remaining
<1>6. TapeMatchesReports
  <2>1. Total(reported) = 0
    BY <1>3, AuditAssumption, ZeroTotal DEF AuditInit, Accounts
  <2> QED
    BY <2>1 DEF AuditInit, TapeMatchesReports
<1> QED
  BY <1>1, <1>3, <1>5, <1>6 DEF AuditInit, Init, AuditInv

\* A step of no consequence for the orders.
LEMMA QuietAudit ==
  ASSUME AuditInv, IInv', UNCHANGED <<book, orders, completed, incoming>>,
         UNCHANGED auditVars, incoming # NoOrder => results' = results
  PROVE  AuditInv'
<1>1. RestKnown /\ RestKnown'
  BY RestFacts, RestFactsNext DEF AuditInv
<1>2. \A id : Resting(id)' = Resting(id)
  BY <1>1, NoneRests
<1>3. QuantityConserved'
  BY <1>2 DEF AuditInv, QuantityConserved, Remaining, auditVars
<1>4. TapeMatchesReports' /\ Accounts'
  BY DEF AuditInv, TapeMatchesReports, Accounts, auditVars
<1> QED
  BY <1>3, <1>4 DEF AuditInv, auditVars

\* A refusal, an invalid line or a dump: nothing is filled or cancelled.
LEMMA RefusedAudit ==
  ASSUME AuditInv, IInv', Audit, UNCHANGED <<book, orders, completed, incoming>>,
         incoming = NoOrder, sent' = NoMsg,
         \A k \in DOMAIN results' : results'[k].type \notin {"F", "X"}
  PROVE  AuditInv'
<1>1. Accounts
  BY DEF AuditInv
<1>2. \A k \in DOMAIN NewResults : NewResults[k].type # "F" /\ NewResults[k].type # "X"
  BY DEF NewResults
<1>3. UNCHANGED auditVars
  BY <1>1, <1>2, NothingEntered, NothingReported, NothingWithdrawn, NothingOnTape DEF auditVars
<1> QED
  BY <1>3, QuietAudit

LEMMA AcceptSubmitAudit ==
  ASSUME AuditInv, IInv', Audit, NEW o \in Requests, AcceptSubmit(o)
  PROVE  AuditInv'
<1>1. Accounts /\ RestKnown /\ RestKnown'
  BY RestFacts, RestFactsNext DEF AuditInv
<1>2. /\ incoming = NoOrder /\ incoming' = o /\ results' = <<>> /\ sent' = NoMsg
      /\ UNCHANGED <<book, orders, completed>>
  BY DEF AcceptSubmit, TakeRequest
<1>3. o \in Order /\ o # NoOrder
  <2>1. PICK id \in OrderIds, sym \in Symbols, side \in Sides,
             text \in QtyTexts, price \in Prices :
          o = Deserialized(id, sym, side, text, price)
    BY DEF Requests
  <2>2. text % QtyMod \in 0..(QtyMod - 1)
    BY EngineAssumption
  <2>3. o \in Order
    BY <2>1, <2>2 DEF Deserialized, Order
  <2> QED
    BY <2>3, EngineAssumption
<1>4. o.id \in OrderIds /\ o.qty \in Nat
  BY <1>3, EngineAssumption DEF Order
<1>5. NewResults = <<>>
  BY <1>2 DEF NewResults
<1>6. reported' = reported /\ withdrawn' = withdrawn /\ tape' = tape
  BY <1>1, <1>2, <1>5, NothingReported, NothingWithdrawn, NothingOnTape
<1>7. entered' = [id \in OrderIds |-> entered[id] + IF o.id = id THEN o.qty ELSE 0]
  BY <1>2, <1>3 DEF Audit
<1>8. Accounts'
  <2>1. entered' \in [OrderIds -> Nat]
    BY <1>1, <1>4, <1>7 DEF Accounts
  <2> QED
    BY <1>1, <1>6, <2>1 DEF Accounts
<1>9. \A id : Resting(id)' = Resting(id)
  BY <1>1, <1>2, NoneRests
<1>10. QuantityConserved'
  <2> SUFFICES ASSUME NEW id \in OrderIds
               PROVE  entered'[id] = reported'[id] + withdrawn'[id] + Remaining(id)'
    BY DEF QuantityConserved
  <2>1. entered[id] = reported[id] + withdrawn[id] + Resting(id)
    <3>1. Remaining(id) = Resting(id)
      BY <1>1, <1>2, RestNat DEF Remaining
    <3> QED
      BY <3>1 DEF AuditInv, QuantityConserved
  <2>2. Remaining(id)' = Resting(id) + IF o.id = id THEN o.qty ELSE 0
    BY <1>2, <1>3, <1>9 DEF Remaining
  <2>3. entered'[id] = entered[id] + IF o.id = id THEN o.qty ELSE 0
    BY <1>7
  <2>4. Resting(id) \in Nat /\ entered[id] \in Nat /\ reported[id] \in Nat /\ withdrawn[id] \in Nat
    BY <1>1, RestNat DEF Accounts
  <2> QED
    BY <1>4, <1>6, <2>1, <2>2, <2>3, <2>4
<1>11. TapeMatchesReports'
  BY <1>6 DEF AuditInv, TapeMatchesReports
<1> QED
  BY <1>2, <1>6, <1>8, <1>10, <1>11 DEF AuditInv

\* What a fill of n does, whichever of the two orders it completes.
LEMMA FillKeeps ==
  ASSUME AuditInv, NEW a \in OrderIds, NEW b \in OrderIds, a # b, NEW n \in Nat,
         entered' = entered, withdrawn' = withdrawn, tape' = tape + n,
         reported' = [[reported EXCEPT ![a] = @ + n] EXCEPT ![b] = @ + n],
         \A id \in OrderIds :
           Remaining(id) = Remaining(id)' + IF id = a \/ id = b THEN n ELSE 0,
         \A id \in OrderIds : Remaining(id)' \in Nat
  PROVE  Accounts' /\ QuantityConserved' /\ TapeMatchesReports'
<1> DEFINE once == [reported EXCEPT ![a] = @ + n]
<1>1. Accounts
  BY DEF AuditInv
<1>2. /\ once \in [OrderIds -> Nat] /\ Total(once) = Total(reported) + n
  <2>1. reported \in [OrderIds -> Nat]
    BY <1>1 DEF Accounts
  <2>2. /\ once \in [OrderIds -> Nat] /\ once[a] = reported[a] + n
        /\ \A y \in OrderIds \ {a} : once[y] = reported[y]
    BY <2>1
  <2> HIDE DEF once
  <2>3. Total(once) = Total(reported) + n
    BY <2>1, <2>2, AuditAssumption, RaisedTotal
  <2> QED
    BY <2>2, <2>3
<1>3. once[b] = reported[b]
  BY <1>1 DEF Accounts
<1>4. \A id \in OrderIds : once[id] = reported[id] + IF id = a THEN n ELSE 0
  BY <1>1 DEF Accounts
<1>5. reported' = [once EXCEPT ![b] = @ + n]
  OBVIOUS
<1> HIDE DEF once
<1>6. reported' \in [OrderIds -> Nat] /\ Total(reported') = Total(once) + n
  <2>1. /\ reported' \in [OrderIds -> Nat] /\ reported'[b] = once[b] + n
        /\ \A y \in OrderIds \ {b} : reported'[y] = once[y]
    BY <1>2, <1>5
  <2>2. PICK u : u = reported'
    OBVIOUS
  <2>3. /\ u \in [OrderIds -> Nat] /\ u[b] = once[b] + n
        /\ \A y \in OrderIds \ {b} : u[y] = once[y]
    BY <2>1, <2>2
  <2>4. Total(u) = Total(once) + n
    BY ONLY <1>2, <2>3, AuditAssumption, b \in OrderIds, n \in Nat, RaisedTotal
  <2> QED
    BY <2>1, <2>2, <2>4
<1>7. Accounts'
  BY <1>1, <1>6 DEF Accounts
<1>8. TapeMatchesReports'
  <2>1. 2 * tape = Total(reported) /\ tape \in Nat
    BY <1>1 DEF AuditInv, TapeMatchesReports, Accounts
  <2>2. Total(reported) \in Nat
    BY <2>1
  <2>3. 2 * tape' = Total(reported')
    BY <1>2, <1>6, <2>1, <2>2
  <2> QED
    BY <2>3 DEF TapeMatchesReports
<1>9. QuantityConserved'
  <2> SUFFICES ASSUME NEW id \in OrderIds
               PROVE  entered'[id] = reported'[id] + withdrawn'[id] + Remaining(id)'
    BY DEF QuantityConserved
  <2>1. entered[id] = reported[id] + withdrawn[id] + Remaining(id)
    BY DEF AuditInv, QuantityConserved
  <2>2. reported'[id] = reported[id] + IF id = a \/ id = b THEN n ELSE 0
    BY <1>1, <1>2, <1>4, <1>5 DEF Accounts
  <2>3. Remaining(id) = Remaining(id)' + IF id = a \/ id = b THEN n ELSE 0
    OBVIOUS
  <2>4. Remaining(id)' \in Nat /\ reported[id] \in Nat /\ withdrawn[id] \in Nat
    BY <1>1 DEF Accounts
  <2> HIDE DEF Remaining
  <2> QED
    BY <2>1, <2>2, <2>3, <2>4
<1> QED
  BY <1>7, <1>8, <1>9

LEMMA FillRestingAudit ==
  ASSUME AuditInv, IInv', Audit, NEW p \in Prices, FillResting(p)
  PROVE  AuditInv'
<1> DEFINE s == incoming.sym
           d == Opposite(incoming.side)
           Q == Queue(p)
<1>1. IInv /\ Accounts /\ RestKnown /\ RestKnown'
  BY RestFacts, RestFactsNext DEF AuditInv
<1>2. PICK resting : resting = Head(Q)
  OBVIOUS
<1>3. /\ incoming \in Order /\ incoming # NoOrder /\ incoming.qty > 0
      /\ s \in Symbols /\ d \in Sides
      /\ incoming.id \in OrderIds
      /\ incoming.id \notin DOMAIN orders
      /\ p \in DOMAIN book[s][d]
      /\ Q \in Seq(Order) /\ Q # <<>>
      /\ resting = Q[1] /\ 1 \in DOMAIN Q
      /\ resting \in Order /\ resting.qty > 0
      /\ resting.id \in DOMAIN orders
  BY <1>1, <1>2, MatchableFacts DEF FillResting
<1>4. /\ Q = book[s][d][p]
      /\ Edit(s, d, p, Tail(Q))
      /\ orders' = Without(orders, resting.id)
      /\ completed' = completed \cup {resting.id}
      /\ results' = results \o FillReport(resting, incoming, p)
      /\ Publish("trade", s, "N", resting.qty, p)
      /\ incoming' = Reduced(incoming, resting.qty)
      /\ incoming.qty >= resting.qty
  BY Zenon, <1>2 DEF FillResting, Edit, Queue
<1>5. Drops(Q, 1, Tail(Q))
  BY <1>3, TailDrops
<1> DEFINE n == resting.qty
<1>6. /\ resting.id # incoming.id /\ resting.id \in OrderIds
      /\ n \in Nat /\ incoming.qty \in Nat
  BY <1>3, EngineAssumption DEF Order
<1> HIDE DEF Q, s, d
<1>7. /\ Resting(resting.id) = n
      /\ Resting(resting.id)' = 0
      /\ \A id : id # resting.id => Resting(id)' = Resting(id)
  <2>1. Drops(book[s][d][p], 1, Tail(Q)) /\ 1 \in DOMAIN book[s][d][p]
        /\ resting.id = book[s][d][p][1].id /\ n = book[s][d][p][1].qty
    BY <1>3, <1>4, <1>5
  <2>2. PICK gone, q : gone = resting.id /\ q = Tail(Q)
    OBVIOUS
  <2>3. /\ Resting(gone) = book[s][d][p][1].qty
        /\ Resting(gone)' = 0
        /\ \A id : id # gone => Resting(id)' = Resting(id)
    <3>1. gone = book[s][d][p][1].id /\ orders' = Without(orders, gone)
          /\ Drops(book[s][d][p], 1, q) /\ Edit(s, d, p, q) /\ 1 \in DOMAIN book[s][d][p]
      BY <1>4, <2>1, <2>2
    <3> QED
      BY <1>1, <1>3, <3>1, DropRests
  <2> QED
    BY <2>1, <2>2, <2>3
<1>8. sent' \in Msg /\ sent'.type = "trade" /\ sent'.qty = n
  <2>1. n \in 0..(QtyMod - 1)
    BY <1>3 DEF Order
  <2>2. sent' \in Msg
    BY <1>1, <1>3, <1>4, <2>1, Disassemble, PublishFacts
  <2>3. sent'.type = "trade" /\ sent'.qty = n
    BY <1>4 DEF Publish
  <2> QED
    BY <2>2, <2>3
<1>9. results \in Seq(FillRecs)
  BY <1>3 DEF AuditInv
<1>10. /\ results' \in Seq(FillRecs)
       /\ entered' = entered
       /\ withdrawn' = withdrawn
       /\ tape' = tape + n
       /\ reported' = [[reported EXCEPT ![resting.id] = @ + n] EXCEPT ![incoming.id] = @ + n]
  BY Zenon, <1>1, <1>3, <1>4, <1>6, <1>8, <1>9, FillAudited
<1>11. Resting(incoming.id) = 0
  BY <1>1, <1>3 DEF RestKnown
<1>12. /\ incoming' # NoOrder => incoming'.id = incoming.id /\ incoming'.qty = incoming.qty - n
       /\ incoming' = NoOrder => incoming.qty = n
  <2>1. CASE incoming.qty = n
    BY <1>4, <2>1 DEF Reduced
  <2>2. CASE incoming.qty # n
    <3>1. incoming' = [incoming EXCEPT !.qty = @ - n]
      BY <1>4, <2>2 DEF Reduced
    <3>2. incoming' \in Order \cup {NoOrder} /\ incoming'.id = incoming.id
          /\ incoming'.qty = incoming.qty - n
      BY <1>3, <3>1 DEF Order, IInv, TypeOK
    <3>3. incoming' # NoOrder
      <4>1. n \in 0..(QtyMod - 1) /\ incoming.qty \in 0..(QtyMod - 1)
        BY <1>3 DEF Order
      <4>2. incoming.qty - n \in 0..(QtyMod - 1)
        BY <1>4, <4>1, EngineAssumption
      <4>3. incoming' \in Order
        BY <1>3, <3>1, <4>2 DEF Order
      <4> QED
        BY <4>3, EngineAssumption
    <3> QED
      BY <3>2, <3>3
  <2> QED
    BY <2>1, <2>2
<1>13. ASSUME NEW id \in OrderIds
       PROVE  /\ Remaining(id) = Remaining(id)' + IF id = resting.id \/ id = incoming.id THEN n ELSE 0
              /\ Remaining(id)' \in Nat
  <2>0. Resting(id) \in Nat /\ Resting(id)' \in Nat
    BY <1>1, <1>7, RestNat
  <2>1. CASE id = resting.id
    <3>1. Remaining(id) = n + 0 /\ Remaining(id)' = 0 + 0
      BY <1>6, <1>7, <1>12, <2>1 DEF Remaining
    <3> QED
      BY <1>6, <2>1, <3>1
  <2>2. CASE id = incoming.id
    <3>1. Remaining(id) = 0 + incoming.qty
      BY <1>3, <1>11, <2>2 DEF Remaining
    <3>2. Resting(id)' = 0
      BY <1>6, <1>7, <1>11, <2>2
    <3>3. Remaining(id)' = IF incoming' = NoOrder THEN 0 ELSE incoming.qty - n
      <4>1. CASE incoming' = NoOrder
        BY <3>2, <4>1 DEF Remaining
      <4>2. CASE incoming' # NoOrder
        <5>1. Remaining(id)' = 0 + (incoming.qty - n)
          BY <1>12, <2>2, <3>2, <4>2 DEF Remaining
        <5> QED
          BY <1>6, <4>2, <5>1
      <4> QED
        BY <4>1, <4>2
    <3> QED
      BY <1>4, <1>6, <1>12, <2>2, <3>1, <3>3
  <2>3. CASE id # resting.id /\ id # incoming.id
    <3>1. Remaining(id) = Resting(id) + 0 /\ Remaining(id)' = Resting(id) + 0
      BY <1>7, <1>12, <2>3 DEF Remaining
    <3> QED
      BY <2>0, <2>3, <3>1
  <2> QED
    BY <2>1, <2>2, <2>3
<1>14. Accounts' /\ QuantityConserved' /\ TapeMatchesReports'
  <2>1. PICK a, b, m : a = resting.id /\ b = incoming.id /\ m = n
    OBVIOUS
  <2>2. a \in OrderIds /\ b \in OrderIds /\ a # b /\ m \in Nat
    BY <1>3, <1>6, <2>1
  <2>3. /\ entered' = entered /\ withdrawn' = withdrawn /\ tape' = tape + m
        /\ reported' = [[reported EXCEPT ![a] = @ + m] EXCEPT ![b] = @ + m]
    BY <1>10, <2>1
  <2>4. /\ \A id \in OrderIds :
             Remaining(id) = Remaining(id)' + IF id = a \/ id = b THEN m ELSE 0
        /\ \A id \in OrderIds : Remaining(id)' \in Nat
    BY <1>13, <2>1
  <2> QED
    BY <2>2, <2>3, <2>4, FillKeeps
<1> QED
  BY <1>4, <1>10, <1>14 DEF AuditInv

LEMMA FillIncomingAudit ==
  ASSUME AuditInv, IInv', Audit, NEW p \in Prices, FillIncoming(p)
  PROVE  AuditInv'
<1> DEFINE s == incoming.sym
           d == Opposite(incoming.side)
           Q == Queue(p)
           n == incoming.qty
<1>1. IInv /\ Accounts /\ RestKnown /\ RestKnown'
  BY RestFacts, RestFactsNext DEF AuditInv
<1>2. PICK resting : resting = Head(Q)
  OBVIOUS
<1>3. /\ incoming \in Order /\ incoming # NoOrder /\ n > 0
      /\ s \in Symbols /\ d \in Sides
      /\ incoming.id \in OrderIds
      /\ incoming.id \notin DOMAIN orders
      /\ p \in DOMAIN book[s][d]
      /\ Q \in Seq(Order) /\ Q # <<>>
      /\ resting = Q[1]
      /\ resting \in Order
      /\ resting.id \in DOMAIN orders
  BY <1>1, <1>2, MatchableFacts DEF FillIncoming
<1>4. /\ Q = book[s][d][p]
      /\ Edit(s, d, p, [book[s][d][p] EXCEPT ![1].qty = @ - n])
      /\ n < resting.qty
      /\ completed' = completed \cup {incoming.id}
      /\ results' = results \o FillReport(incoming, resting, p)
      /\ Publish("trade", s, "N", n, p)
      /\ incoming' = NoOrder
  BY Zenon, <1>2 DEF FillIncoming, Edit, Queue
<1>5. orders' = orders
  <2>1. PICK D \in SUBSET OrderIds : orders \in [D -> OrderRef]
    BY <1>1, Disassemble
  <2>2. orders' = [y \in DOMAIN orders \ {incoming.id} |-> orders[y]]
    BY DEF FillIncoming, Without
  <2>3. DOMAIN orders \ {incoming.id} = DOMAIN orders
    BY <1>3
  <2> QED
    BY <2>1, <2>2, <2>3
<1>6. /\ resting.id # incoming.id /\ resting.id \in OrderIds
      /\ n \in Nat /\ resting.qty \in Nat
  BY <1>3, EngineAssumption DEF Order
<1> HIDE DEF Q, s, d
<1>7. /\ Resting(resting.id) = resting.qty
      /\ Resting(resting.id)' = resting.qty - n
      /\ \A id : id # resting.id => Resting(id)' = Resting(id)
  <2>1. PICK first, m : first = resting.id /\ m = n
    OBVIOUS
  <2>2. /\ first = book[s][d][p][1].id
        /\ m \in Nat /\ m > 0 /\ m < book[s][d][p][1].qty
    BY <1>3, <1>4, <1>6, <2>1
  <2> HIDE DEF n
  <2>4. PICK q : q = [book[s][d][p] EXCEPT ![1].qty = @ - m]
    OBVIOUS
  <2>5. Edit(s, d, p, q)
    BY <1>4, <2>1, <2>4
  <2>6. Shrinks(book[s][d][p], m, q)
    BY <2>4 DEF Shrinks
  <2>3. /\ Resting(first) = book[s][d][p][1].qty
        /\ Resting(first)' = book[s][d][p][1].qty - m
        /\ \A id : id # first => Resting(id)' = Resting(id)
    <3>1. IInv /\ IInv' /\ RestKnown /\ RestKnown'
      BY ONLY <1>1, IInv'
    <3>2. s \in Symbols /\ d \in Sides /\ p \in DOMAIN book[s][d]
      BY ONLY <1>3
    <3> QED
      BY ONLY <3>1, <3>2, <1>5, <2>2, <2>5, <2>6, ShrinkRests
  <2> QED
    BY <1>3, <1>4, <2>1, <2>3
<1>8. sent' \in Msg /\ sent'.type = "trade" /\ sent'.qty = n
  <2>1. n \in 0..(QtyMod - 1)
    BY <1>3 DEF Order
  <2>2. sent' \in Msg
    BY <1>1, <1>3, <1>4, <2>1, Disassemble, PublishFacts
  <2>3. sent'.type = "trade" /\ sent'.qty = n
    BY <1>4 DEF Publish
  <2> QED
    BY <2>2, <2>3
<1>9. results \in Seq(FillRecs)
  BY <1>3 DEF AuditInv
<1>10. /\ results' \in Seq(FillRecs)
       /\ entered' = entered
       /\ withdrawn' = withdrawn
       /\ tape' = tape + n
       /\ reported' = [[reported EXCEPT ![incoming.id] = @ + n] EXCEPT ![resting.id] = @ + n]
  BY <1>1, <1>3, <1>4, <1>6, <1>8, <1>9, FillAudited
<1>11. Resting(incoming.id) = 0
  BY <1>1, <1>3 DEF RestKnown
<1>12. ASSUME NEW id \in OrderIds
       PROVE  /\ Remaining(id) = Remaining(id)' + IF id = incoming.id \/ id = resting.id THEN n ELSE 0
              /\ Remaining(id)' \in Nat
  <2>1. Resting(id) \in Nat /\ Resting(id)' \in Nat
    <3>1. Resting(id) \in Nat
      BY <1>1, RestNat
    <3>2. CASE id = resting.id
      <4>1. Resting(id)' = resting.qty - n /\ n < resting.qty
        BY <1>4, <1>7, <3>2
      <4> QED
        BY <1>6, <3>1, <4>1
    <3>3. CASE id # resting.id
      BY <1>7, <3>1, <3>3
    <3> QED
      BY <3>1, <3>2, <3>3
  <2>2. Remaining(id)' = Resting(id)' + 0
    BY <1>4 DEF Remaining
  <2>3. CASE id = resting.id
    <3>1. Remaining(id) = resting.qty + 0
      BY <1>6, <1>7, <2>3 DEF Remaining
    <3> QED
      BY <1>4, <1>6, <1>7, <2>2, <2>3, <3>1
  <2>4. CASE id = incoming.id
    <3>1. Remaining(id) = 0 + n
      BY <1>3, <1>11, <2>4 DEF Remaining
    <3>2. Resting(id)' = 0
      BY <1>6, <1>7, <1>11, <2>4
    <3> QED
      BY <1>6, <2>2, <2>4, <3>1, <3>2
  <2>5. CASE id # resting.id /\ id # incoming.id
    <3>1. Remaining(id) = Resting(id) + 0 /\ Resting(id)' = Resting(id)
      BY <1>7, <2>5 DEF Remaining
    <3> QED
      BY <2>1, <2>2, <2>5, <3>1
  <2> QED
    BY <2>3, <2>4, <2>5
<1>13. Accounts' /\ QuantityConserved' /\ TapeMatchesReports'
  <2>1. PICK a, b, m : a = incoming.id /\ b = resting.id /\ m = n
    OBVIOUS
  <2>2. a \in OrderIds /\ b \in OrderIds /\ a # b /\ m \in Nat
    BY <1>3, <1>6, <2>1
  <2>3. /\ entered' = entered /\ withdrawn' = withdrawn /\ tape' = tape + m
        /\ reported' = [[reported EXCEPT ![a] = @ + m] EXCEPT ![b] = @ + m]
    BY <1>10, <2>1
  <2>4. /\ \A id \in OrderIds :
             Remaining(id) = Remaining(id)' + IF id = a \/ id = b THEN m ELSE 0
        /\ \A id \in OrderIds : Remaining(id)' \in Nat
    BY <1>12, <2>1
  <2> QED
    BY <2>2, <2>3, <2>4, FillKeeps
<1> QED
  BY <1>4, <1>10, <1>13 DEF AuditInv

\* What was incoming comes to rest.
LEMMA RestIncomingAudit ==
  ASSUME AuditInv, IInv', Audit, RestIncoming
  PROVE  AuditInv'
<1>1. IInv /\ Accounts /\ RestKnown /\ RestKnown'
  BY RestFacts, RestFactsNext DEF AuditInv
<1>2. PICK o : o = incoming
  OBVIOUS
<1>3. /\ o \in Order /\ o # NoOrder /\ o.id \notin DOMAIN orders
      /\ results \in Seq(FillRecs)
  BY <1>1, <1>2, Disassemble DEF RestIncoming, LiveNotCompleted, AuditInv
<1>4. /\ Edit(o.sym, o.side, o.price, Append(LevelAt(book[o.sym][o.side], o.price), o))
      /\ DOMAIN orders' = DOMAIN orders \cup {o.id}
      /\ incoming' = NoOrder /\ results' = results /\ completed' = completed
      /\ sent'.type = "submit"
  BY <1>2 DEF RestIncoming, Edit, Enqueue, Publish
<1>5. o.id \in OrderIds /\ o.qty \in Nat
  BY <1>3, EngineAssumption DEF Order
<1>6. /\ Resting(o.id) = 0
      /\ Resting(o.id)' = o.qty
      /\ \A id : id # o.id => Resting(id)' = Resting(id)
  BY <1>1, <1>3, <1>4, AppendRests
<1>7. DOMAIN NewResults = {}
  <2>1. NewResults = SubSeq(results, Len(results) + 1, Len(results))
    BY <1>2, <1>3, <1>4 DEF NewResults
  <2> QED
    BY <1>3, <2>1
<1>8. UNCHANGED auditVars
  BY <1>1, <1>4, <1>7, NothingEntered, NothingReported, NothingWithdrawn, NothingOnTape
     DEF auditVars
<1>9. ASSUME NEW id \in OrderIds
      PROVE  Remaining(id)' = Remaining(id)
  <2>1. Resting(id) \in Nat /\ Resting(id)' \in Nat
    BY <1>1, <1>5, <1>6, RestNat
  <2>2. Remaining(id)' = Resting(id)' + 0
    BY <1>4 DEF Remaining
  <2>3. Remaining(id) = Resting(id) + IF o.id = id THEN o.qty ELSE 0
    BY <1>2, <1>3 DEF Remaining
  <2>4. CASE id = o.id
    BY <1>5, <1>6, <2>2, <2>3, <2>4
  <2>5. CASE id # o.id
    BY <1>6, <2>1, <2>2, <2>3, <2>5
  <2> QED
    BY <2>4, <2>5
<1>10. QuantityConserved'
  BY <1>8, <1>9 DEF AuditInv, QuantityConserved, auditVars
<1>11. Accounts' /\ TapeMatchesReports'
  BY <1>1, <1>8 DEF AuditInv, Accounts, TapeMatchesReports, auditVars
<1> QED
  BY <1>4, <1>8, <1>10, <1>11 DEF AuditInv, auditVars

\* What rested is withdrawn.
LEMMA AcceptCancelAudit ==
  ASSUME AuditInv, IInv', Audit, NEW gone \in OrderIds, AcceptCancel(gone)
  PROVE  AuditInv'
<1> DEFINE s == orders[gone].sym
           d == orders[gone].side
           p == orders[gone].price
           Q == book[s][d][p]
<1>1. IInv /\ Accounts /\ RestKnown /\ RestKnown'
  BY RestFacts, RestFactsNext DEF AuditInv
<1>2. gone \in DOMAIN orders
  BY Zenon DEF AcceptCancel
<1>3. s \in Symbols /\ d \in Sides /\ p \in DOMAIN book[s][d]
  BY <1>1, <1>2, Disassemble DEF OrderRef, IndexIsResting, RestsAt
<1>4. PICK i \in DOMAIN Q :
        /\ Q[i].id = gone
        /\ Edit(s, d, p, RemoveAt(Q, i))
        /\ Publish("cancel", s, "N", Q[i].qty, Q[i].price)
  BY Zenon DEF AcceptCancel, Edit
<1>5. /\ orders' = Without(orders, gone)
      /\ incoming = NoOrder /\ incoming' = NoOrder
      /\ completed' = completed \cup {gone}
      /\ results' = <<Rec("X", gone, 0, 0)>>
  BY Zenon DEF AcceptCancel, TakeRequest
<1>6. Q \in Seq(Order) /\ Q[i] \in Order
  BY <1>1, <1>3, Disassemble, LevelFacts
<1>7. Drops(Q, i, RemoveAt(Q, i))
  BY <1>6, RemoveAtDrops
<1>8. PICK n \in Nat : n = Q[i].qty
  <2>1. PICK o \in Order : o = Q[i]
    BY <1>6
  <2>2. o.qty \in Nat
    BY EngineAssumption DEF Order
  <2> QED
    BY <2>1, <2>2
<1>9. /\ Resting(gone) = n
      /\ Resting(gone)' = 0
      /\ \A id : id # gone => Resting(id)' = Resting(id)
  <2>1. PICK q : q = RemoveAt(Q, i)
    OBVIOUS
  <2> HIDE DEF s, d, p
  <2>2. /\ Resting(gone) = book[s][d][p][i].qty
        /\ Resting(gone)' = 0
        /\ \A id : id # gone => Resting(id)' = Resting(id)
    BY <1>1, <1>3, <1>4, <1>5, <1>7, <2>1, DropRests
  <2> QED
    BY <1>8, <2>2
<1>10. sent'.type = "cancel" /\ sent'.qty = n
  BY Zenon, <1>4, <1>8 DEF Publish
<1>11. NewResults = <<Rec("X", gone, 0, 0)>>
  BY <1>5 DEF NewResults
<1> HIDE DEF Q, s, d, p
<1>12. entered' = entered /\ reported' = reported /\ tape' = tape
  <2>1. \A k \in DOMAIN NewResults : NewResults[k].type # "F"
    BY <1>11 DEF Rec
  <2> QED
    BY <1>1, <1>5, <1>10, <2>1, NothingEntered, NothingReported, NothingOnTape
<1>13. withdrawn' = [id \in OrderIds |-> withdrawn[id] + IF id = gone THEN n ELSE 0]
  <2>1. \A id \in OrderIds : NewRecords("X", id) # {} <=> id = gone
    BY <1>11 DEF NewRecords, Rec
  <2>2. withdrawn' = [id \in OrderIds |-> withdrawn[id] +
                        IF NewRecords("X", id) # {} THEN sent'.qty ELSE 0]
    BY DEF Audit
  <2> QED
    BY <1>10, <2>1, <2>2
<1>14. Accounts'
  <2>1. withdrawn' \in [OrderIds -> Nat]
    BY <1>1, <1>13 DEF Accounts
  <2> QED
    BY <1>1, <1>12, <2>1 DEF Accounts
<1>15. QuantityConserved'
  <2> SUFFICES ASSUME NEW id \in OrderIds
               PROVE  entered'[id] = reported'[id] + withdrawn'[id] + Remaining(id)'
    BY DEF QuantityConserved
  <2>1. entered[id] = reported[id] + withdrawn[id] + Remaining(id)
    BY DEF AuditInv, QuantityConserved
  <2>2. Remaining(id) = Resting(id) + 0 /\ Remaining(id)' = Resting(id)' + 0
    BY <1>5 DEF Remaining
  <2>3. Resting(id) = Resting(id)' + (IF id = gone THEN n ELSE 0) /\ Resting(id)' \in Nat
    <3>1. Resting(id) \in Nat
      BY <1>1, RestNat
    <3> QED
      BY <1>9, <3>1
  <2>4. withdrawn'[id] = withdrawn[id] + IF id = gone THEN n ELSE 0
    BY <1>13
  <2>5. reported[id] \in Nat /\ withdrawn[id] \in Nat
    BY <1>1 DEF Accounts
  <2> HIDE DEF Remaining
  <2> QED
    BY <1>12, <2>1, <2>2, <2>3, <2>4, <2>5
<1>16. TapeMatchesReports'
  BY <1>12 DEF AuditInv, TapeMatchesReports
<1>17. \A id \in OrderIds : withdrawn'[id] > 0 => id \in completed'
  BY <1>1, <1>5, <1>13 DEF AuditInv, Accounts
<1> QED
  BY <1>5, <1>14, <1>15, <1>16, <1>17 DEF AuditInv

LEMMA AuditStepInv ==
  AuditInv /\ [AuditNext]_<<vars, auditVars>> => AuditInv'
<1> SUFFICES ASSUME AuditInv, [AuditNext]_<<vars, auditVars>> PROVE AuditInv'
  OBVIOUS
<1>1. IInv'
  BY StepInv DEF AuditInv, AuditNext
<1>2. CASE UNCHANGED <<vars, auditVars>>
  BY <1>1, <1>2, QuietAudit DEF vars
<1>3. ASSUME Audit, InvalidLine PROVE AuditInv'
  BY <1>1, <1>3, RefusedAudit DEF InvalidLine, TakeRequest, Error, Rec
<1>4. ASSUME Audit, NEW o \in Requests, RefuseSubmit(o) PROVE AuditInv'
  BY <1>1, <1>4, RefusedAudit DEF RefuseSubmit, TakeRequest, Error, Rec
<1>5. ASSUME Audit, NEW o \in Requests, AcceptSubmit(o) PROVE AuditInv'
  BY <1>1, <1>5, AcceptSubmitAudit
<1>6. ASSUME Audit, NEW p \in Prices, FillResting(p) PROVE AuditInv'
  BY <1>1, <1>6, FillRestingAudit
<1>7. ASSUME Audit, NEW p \in Prices, FillIncoming(p) PROVE AuditInv'
  BY <1>1, <1>7, FillIncomingAudit
<1>8. ASSUME Audit, RestIncoming PROVE AuditInv'
  BY <1>1, <1>8, RestIncomingAudit
<1>9. ASSUME Audit, NEW id \in OrderIds, RefuseCancel(id) PROVE AuditInv'
  BY <1>1, <1>9, RefusedAudit DEF RefuseCancel, TakeRequest, Error, Rec
<1>10. ASSUME Audit, NEW id \in OrderIds, AcceptCancel(id) PROVE AuditInv'
  BY <1>1, <1>10, AcceptCancelAudit
<1>11. ASSUME Audit, PrintBooks PROVE AuditInv'
  <2>1. PICK shown : results' = Printed(shown)
    BY <1>11 DEF PrintBooks
  <2>2. \A k \in DOMAIN results' : results'[k].type = "P"
    BY <2>1 DEF Printed, Rec
  <2> QED
    BY <1>1, <1>11, <2>2, RefusedAudit DEF PrintBooks, TakeRequest
<1> QED
  BY <1>2, <1>3, <1>4, <1>5, <1>6, <1>7, <1>8, <1>9, <1>10, <1>11
     DEF AuditNext, Next, Submit, Match, Cancel

LEMMA AuditInvariance == AuditSpec => []AuditInv
BY AuditInitInv, AuditStepInv, PTL DEF AuditSpec

-----------------------------------------------------------------------------
\* What the clients handed in under an id is accounted for to the unit, after
\* any requests and between any two fills: Engine::match, Book::add_order and
\* Engine::cancel_order lose nothing and report nothing twice.
THEOREM Conserved == AuditSpec => []QuantityConserved
<1>1. AuditInv => QuantityConserved
  BY DEF AuditInv
<1> QED
  BY <1>1, AuditInvariance, PTL

\* The trade datagrams of Engine::match add up to half of what its result
\* lines report: each fill is seen once by the market and once by each party.
THEOREM TapeCorrect == AuditSpec => []TapeMatchesReports
<1>1. AuditInv => TapeMatchesReports
  BY DEF AuditInv
<1> QED
  BY <1>1, AuditInvariance, PTL

\* An id that Engine::submit_order accepts a second time names an order that
\* was filled to the last unit and never cancelled.
THEOREM OnlyFilledReturn == AuditSpec => OnlyFilledIdsReturn
<1> DEFINE Returns == \A id \in OrderIds : entered'[id] > entered[id] =>
                        /\ entered[id] = reported[id]
                        /\ withdrawn[id] = 0
<1>1. AuditInv /\ [AuditNext]_<<vars, auditVars>> => [Returns]_auditVars
  <2> SUFFICES ASSUME AuditInv, AuditNext, NEW id \in OrderIds, entered'[id] > entered[id]
               PROVE  entered[id] = reported[id] /\ withdrawn[id] = 0
    BY DEF auditVars
  <2>1. IInv /\ Accounts /\ RestKnown /\ Audit /\ Next
    BY RestFacts DEF AuditInv, AuditNext
  <2>2. incoming = NoOrder /\ incoming' # NoOrder /\ incoming'.id = id
    <3>1. entered'[id] = entered[id] +
            IF incoming = NoOrder /\ incoming' # NoOrder /\ incoming'.id = id
            THEN incoming'.qty ELSE 0
      BY <2>1 DEF Audit
    <3>2. entered[id] \in Nat
      BY <2>1 DEF Accounts
    <3> QED
      BY <3>1, <3>2
  <2>3. PICK o \in Requests : AcceptSubmit(o)
    BY Zenon, <2>1, <2>2
       DEF Next, InvalidLine, Submit, RefuseSubmit, TakeRequest, Match, Matchable,
           FillResting, FillIncoming, RestIncoming, Cancel, RefuseCancel, AcceptCancel,
           PrintBooks
  <2>4. id \notin DOMAIN orders /\ id \notin completed
    BY <2>2, <2>3 DEF AcceptSubmit, Refused
  <2>5. Resting(id) = 0
    BY <2>1, <2>4 DEF RestKnown
  <2>6. withdrawn[id] = 0
    BY <2>1, <2>4 DEF AuditInv, Accounts
  <2>7. entered[id] = reported[id] + 0 + (0 + 0)
    BY <2>2, <2>5, <2>6 DEF AuditInv, QuantityConserved, Remaining
  <2> QED
    BY <2>1, <2>6, <2>7 DEF Accounts
<1> QED
  BY <1>1, AuditInvariance, PTL DEF AuditSpec, OnlyFilledIdsReturn

-----------------------------------------------------------------------------
(* The quantity of a queue.                                                 *)

QtySum(q) == FoldSeq(LAMBDA o, sum : o.qty + sum, 0, q)

Qtys(q) == [i \in DOMAIN q |-> q[i].qty]

LEMMA OrderQty ==
  ASSUME NEW q \in Seq(Order)
  PROVE  /\ Len(q) \in Nat /\ DOMAIN q = 1..Len(q) /\ IsFiniteSet(1..Len(q))
         /\ \A i \in 1..Len(q) : q[i].qty \in Nat /\ q[i] \in Order
         /\ Qtys(q) \in [1..Len(q) -> Nat]
<1>1. Len(q) \in Nat /\ DOMAIN q = 1..Len(q)
  OBVIOUS
<1>2. \A i \in 1..Len(q) : q[i] \in Order
  BY <1>1
<1>3. \A o \in Order : o.qty \in Nat
  BY EngineAssumption DEF Order
<1>4. IsFiniteSet(1..Len(q))
  BY <1>1, FS_Interval
<1> QED
  BY <1>1, <1>2, <1>3, <1>4 DEF Qtys

LEMMA SumIsTotal ==
  ASSUME NEW q \in Seq(Order)
  PROVE  QtySum(q) = TotalWeight(Qtys(q))
<1> DEFINE D == 1..Len(q)
           w == Qtys(q)
           Folds(iter) == iter = [s \in SUBSET D |->
                                    IF s = {} THEN 0
                                    ELSE q[CHOOSE x \in s : TRUE].qty + iter[s \ {CHOOSE x \in s : TRUE}]]
           c == CHOOSE iter : Folds(iter)
<1>1. DOMAIN q = D /\ IsFiniteSet(D) /\ w \in [D -> Nat] /\ DOMAIN w = D
  BY OrderQty DEF Qtys
<1>2. \A s \in SUBSET D : s # {} => w[CHOOSE x \in s : TRUE] = q[CHOOSE x \in s : TRUE].qty
  BY <1>1 DEF Qtys
<1>3. ASSUME NEW iter
      PROVE  Folds(iter) <=> Weighs(w, iter)
  <2> DEFINE f == [s \in SUBSET D |-> IF s = {} THEN 0
                     ELSE q[CHOOSE x \in s : TRUE].qty + iter[s \ {CHOOSE x \in s : TRUE}]]
             g == [s \in SUBSET D |-> IF s = {} THEN 0
                     ELSE w[CHOOSE x \in s : TRUE] + iter[s \ {CHOOSE x \in s : TRUE}]]
  <2>1. f = g
    BY <1>2
  <2>2. Folds(iter) <=> iter = f
    OBVIOUS
  <2>3. Weighs(w, iter) <=> iter = g
    BY <1>1 DEF Weighs
  <2> HIDE DEF f, g, Folds
  <2> QED
    BY <2>1, <2>2, <2>3
<1>4. \A iter : Folds(iter) <=> Weighs(w, iter)
  <2> HIDE DEF Folds, w
  <2> QED
    BY <1>3
<1>5. \E iter : Folds(iter)
  <2> HIDE DEF Folds, w, D
  <2> QED
    BY <1>1, <1>4, WeighsExists
<1>6. Folds(c)
  BY <1>5
<1>7. QtySum(q) = c[D]
  BY <1>1 DEF QtySum, FoldSeq, FoldFunction, FoldFunctionOnSet, MapThenFoldSet
<1> HIDE DEF c, Folds, w, D
<1>8. Weighs(w, c)
  BY <1>4, <1>6
<1>9. TotalWeight(w) = c[D]
  BY <1>1, <1>8, TotalBy
<1> QED
  BY <1>7, <1>9 DEF w

LEMMA SumType ==
  ASSUME NEW q \in Seq(Order)
  PROVE  QtySum(q) \in Nat
BY SumIsTotal, OrderQty, TotalType

LEMMA SumEmpty == QtySum(<<>>) = 0
<1>1. <<>> \in Seq(Order) /\ Qtys(<<>>) \in [{} -> Nat]
  BY DEF Qtys
<1> QED
  BY <1>1, SumIsTotal, TotalEmpty

\* Q holds the i-th order more than q.
LEMMA SumDrops ==
  ASSUME NEW Q \in Seq(Order), NEW i \in DOMAIN Q, NEW q, Drops(Q, i, q)
  PROVE  QtySum(Q) = Q[i].qty + QtySum(q)
<1> DEFINE D == 1..Len(Q)
           E == 1..Len(q)
           v == [j \in D \ {i} |-> Qtys(Q)[j]]
           b == [j \in E |-> IF j < i THEN j ELSE j + 1]
<1>1. /\ q \in Seq(Order) /\ Len(q) = Len(Q) - 1 /\ i \in D /\ Len(Q) \in Nat
      /\ \A j \in E : (j < i => q[j] = Q[j]) /\ (j >= i => q[j] = Q[j + 1])
  BY DEF Drops
<1>2. /\ IsFiniteSet(D) /\ Qtys(Q) \in [D -> Nat] /\ IsFiniteSet(E) /\ Qtys(q) \in [E -> Nat]
      /\ DOMAIN Q = D /\ DOMAIN q = E
  BY <1>1, OrderQty
<1>3. IsFiniteSet(D \ {i}) /\ v \in [D \ {i} -> Nat] /\ \A j \in D \ {i} : v[j] = Qtys(Q)[j]
  BY <1>2, FS_RemoveElement
<1>4. b \in Bijection(E, D \ {i})
  <2>1. \A j \in E : b[j] \in D \ {i}
    BY <1>1
  <2>2. \A j, k \in E : b[j] = b[k] => j = k
    BY <1>1
  <2>3. \A d \in D \ {i} : \E j \in E : b[j] = d
    <3> SUFFICES ASSUME NEW d \in D \ {i}
                 PROVE  \E j \in E : b[j] = d
      OBVIOUS
    <3>1. CASE d < i
      BY <1>1, <3>1
    <3>2. CASE d > i
      <4>1. d - 1 \in E /\ ~(d - 1 < i) /\ (d - 1) + 1 = d
        BY <1>1, <3>2
      <4> QED
        BY <4>1
    <3> QED
      BY <1>1, <3>1, <3>2
  <2>4. b \in [E -> D \ {i}]
    BY <2>1
  <2> HIDE DEF b, D, E
  <2> QED
    BY <2>2, <2>3, <2>4 DEF Bijection, Injection, Surjection, IsInjective
<1>5. \A j \in E : Qtys(q)[j] = v[b[j]]
  <2> SUFFICES ASSUME NEW j \in E
               PROVE  Qtys(q)[j] = v[b[j]]
    OBVIOUS
  <2>1. b[j] \in D \ {i} /\ q[j] = Q[b[j]]
    BY <1>1
  <2>2. v[b[j]] = Q[b[j]].qty
    <3> HIDE DEF b
    <3> QED
      BY <1>2, <2>1 DEF Qtys
  <2> QED
    BY <1>2, <2>1, <2>2 DEF Qtys
<1> HIDE DEF D, E, v, b
<1>6. TotalWeight(Qtys(q)) = TotalWeight(v)
  BY <1>2, <1>3, <1>4, <1>5, TotalRenamed
<1>7. TotalWeight(Qtys(Q)) = Qtys(Q)[i] + TotalWeight(v)
  <2> DEFINE w == Qtys(Q)
  <2>1. i \in D /\ IsFiniteSet(D) /\ w \in [D -> Nat]
    BY <1>1, <1>2
  <2>2. v = [j \in D \ {i} |-> w[j]]
    BY DEF v
  <2> HIDE DEF w
  <2>3. TotalWeight(w) = w[i] + TotalWeight([j \in D \ {i} |-> w[j]])
    BY ONLY ZenonT(60), <2>1, TotalOneOut
  <2> QED
    BY <2>2, <2>3 DEF w
<1>8. Qtys(Q)[i] = Q[i].qty
  BY <1>1, <1>2 DEF Qtys
<1> QED
  BY <1>1, <1>6, <1>7, <1>8, SumIsTotal

LEMMA SumAppend ==
  ASSUME NEW q \in Seq(Order), NEW o \in Order
  PROVE  QtySum(Append(q, o)) = o.qty + QtySum(q)
<1> DEFINE Q == Append(q, o)
           n == Len(q) + 1
<1>1. /\ Q \in Seq(Order) /\ n \in DOMAIN Q /\ Q[n] = o
      /\ Len(q) = Len(Q) - 1 /\ \A j \in 1..Len(q) : q[j] = Q[j] /\ j < n
  OBVIOUS
<1>2. Drops(Q, n, q)
  BY <1>1 DEF Drops
<1> HIDE DEF Q, n
<1>3. QtySum(Q) = Q[n].qty + QtySum(q)
  BY <1>1, <1>2, SumDrops
<1> QED
  BY <1>1, <1>3 DEF Q

\* The first order gets smaller.
LEMMA SumShrinks ==
  ASSUME NEW q \in Seq(Order), q # <<>>, NEW n \in Nat, n < q[1].qty
  PROVE  /\ [q EXCEPT ![1].qty = @ - n] \in Seq(Order)
         /\ QtySum(q) = n + QtySum([q EXCEPT ![1].qty = @ - n])
<1> DEFINE first == [q[1] EXCEPT !.qty = @ - n]
           r == [q EXCEPT ![1] = first]
<1>1. /\ Len(q) \in Nat /\ Len(q) >= 1 /\ 1 \in DOMAIN q /\ q[1] \in Order /\ q[1].qty \in Nat
      /\ DOMAIN q = 1..Len(q)
  BY OrderQty
<1>2. first \in Order /\ first.qty = q[1].qty - n
  <2>1. q[1].qty - n \in 0..(QtyMod - 1)
    BY <1>1, EngineAssumption DEF Order
  <2> QED
    BY <1>1, <2>1 DEF Order
<1>3. r \in Seq(Order) /\ Len(r) = Len(q) /\ \A j \in 1..Len(q) : r[j] = IF j = 1 THEN first ELSE q[j]
  BY <1>1, <1>2
<1>0. [q EXCEPT ![1].qty = @ - n] = r
  OBVIOUS
<1> HIDE DEF first, r
<1>4. r \in Seq(Order) /\ Len(r) = Len(q) /\ r # <<>> /\ r[1].qty = q[1].qty - n
      /\ \A j \in 2..Len(q) : r[j] = q[j]
  BY <1>1, <1>2, <1>3
<1>5. Drops(q, 1, Tail(q))
  BY TailDrops
<1>6. Drops(r, 1, Tail(r))
  BY <1>4, TailDrops
<1>7. Tail(r) = Tail(q)
  <2>1. /\ Tail(q) \in Seq(Order) /\ Len(Tail(q)) = Len(q) - 1
        /\ \A j \in 1..Len(Tail(q)) : Tail(q)[j] = q[j + 1]
        /\ Tail(r) \in Seq(Order) /\ Len(Tail(r)) = Len(q) - 1
        /\ \A j \in 1..Len(Tail(r)) : Tail(r)[j] = r[j + 1]
    BY <1>1, <1>4
  <2>2. \A j \in 1..Len(Tail(q)) : Tail(r)[j] = Tail(q)[j]
    BY <1>1, <1>4, <2>1
  <2> QED
    BY <2>1, <2>2
<1>8. /\ QtySum(q) = q[1].qty + QtySum(Tail(q))
      /\ QtySum(r) = r[1].qty + QtySum(Tail(q))
      /\ QtySum(Tail(q)) \in Nat
  <2>1. 1 \in DOMAIN r /\ Tail(q) \in Seq(Order)
    BY <1>1, <1>4
  <2> QED
    BY <1>1, <1>4, <1>5, <1>6, <1>7, <2>1, SumDrops, SumType
<1>9. r \in Seq(Order) /\ QtySum(q) = n + QtySum(r)
  BY ONLY <1>1, <1>4, <1>8, n \in Nat
<1> QED
  BY ONLY <1>0, <1>9

-----------------------------------------------------------------------------
(* The table of the feed.                                                   *)

\* A level that is not there adds up to nothing.
LEMMA LadderFacts ==
  ASSUME BookOK, NEW s \in Symbols, NEW d \in Sides, NEW p \in Prices
  PROVE  /\ QtyAt(book[s][d], p) \in Nat
         /\ p \notin DOMAIN book[s][d] => QtyAt(book[s][d], p) = 0
         /\ p \in DOMAIN book[s][d] => QtyAt(book[s][d], p) = QtySum(book[s][d][p])
<1>1. p \in DOMAIN book[s][d] => book[s][d][p] \in Seq(Order)
  BY LevelFacts
<1>2. QtyAt(book[s][d], p) = QtySum(LevelAt(book[s][d], p))
  BY Zenon DEF QtyAt, QtySum
<1> QED
  BY <1>1, <1>2, SumType, SumEmpty DEF LevelAt

\* Storing a level changes one entry.
LEMMA LadderEdit ==
  ASSUME BookOK, NEW s \in Symbols, NEW d \in Sides, NEW p \in Prices,
         NEW q \in Seq(Order), Edit(s, d, p, q)
  PROVE  /\ QtyAt(book'[s][d], p) = QtySum(q)
         /\ \A t \in Symbols, e \in Sides, r \in Prices :
              t # s \/ e # d \/ r # p => QtyAt(book'[t][e], r) = QtyAt(book[t][e], r)
<1>1. /\ p \in DOMAIN book'[s][d] <=> q # <<>>
      /\ q # <<>> => book'[s][d][p] = q
      /\ \A t \in Symbols, e \in Sides, r \in Prices :
           t # s \/ e # d \/ r # p =>
             /\ r \in DOMAIN book'[t][e] <=> r \in DOMAIN book[t][e]
             /\ r \in DOMAIN book[t][e] => book'[t][e][r] = book[t][e][r]
  BY EditFacts
<1>2. LevelAt(book'[s][d], p) = q
  BY <1>1 DEF LevelAt
<1>3. \A t \in Symbols, e \in Sides, r \in Prices :
        t # s \/ e # d \/ r # p => LevelAt(book'[t][e], r) = LevelAt(book[t][e], r)
  BY <1>1 DEF LevelAt
<1> QED
  BY Zenon, <1>2, <1>3 DEF QtyAt, QtySum

Table == [s \in Symbols |-> [side \in Sides |-> [p \in Prices |-> QtyAt(book[s][side], p)]]]

LEMMA TableEdit ==
  ASSUME BookOK, NEW s \in Symbols, NEW d \in Sides, NEW p \in Prices,
         NEW q \in Seq(Order), Edit(s, d, p, q)
  PROVE  /\ Table[s][d][p] = QtyAt(book[s][d], p) /\ Table[s][d][p] \in Nat
         /\ Table' = [Table EXCEPT ![s][d][p] = QtySum(q)]
<1>1. Table' = [t \in Symbols |-> [e \in Sides |-> [r \in Prices |-> QtyAt(book'[t][e], r)]]]
  BY DEF Table
<1>2. \A t \in Symbols, e \in Sides, r \in Prices :
        QtyAt(book'[t][e], r) = IF t = s /\ e = d /\ r = p THEN QtySum(q) ELSE QtyAt(book[t][e], r)
  BY LadderEdit
<1>3. Table' = [t \in Symbols |-> [e \in Sides |-> [r \in Prices |->
                  IF t = s /\ e = d /\ r = p THEN QtySum(q) ELSE QtyAt(book[t][e], r)]]]
  BY <1>1, <1>2
<1>4. [Table EXCEPT ![s][d][p] = QtySum(q)] =
        [t \in Symbols |-> [e \in Sides |-> [r \in Prices |->
           IF t = s /\ e = d /\ r = p THEN QtySum(q) ELSE QtyAt(book[t][e], r)]]]
  BY DEF Table
<1> QED
  BY <1>3, <1>4, LadderFacts DEF Table

-----------------------------------------------------------------------------
(* The steps of the engine.                                                 *)

\* A fill is a trade at the best level of its side.
LEMMA TradeStep ==
  ASSUME IInv, NEW p \in Prices, Matchable(p), NEW n \in 1..(QtyMod - 1), NEW q \in Seq(Order),
         Edit(incoming.sym, Opposite(incoming.side), p, q),
         QtySum(Queue(p)) = n + QtySum(q),
         Publish("trade", incoming.sym, "N", n, p)
  PROVE  Feed!Next
<1>1. PICK s, d : s = incoming.sym /\ d = Opposite(incoming.side)
  OBVIOUS
<1>2. /\ BookOK /\ s \in Symbols /\ d \in Sides /\ p \in DOMAIN book[s][d]
      /\ Queue(p) = book[s][d][p]
  BY <1>1, MatchableFacts, Disassemble DEF Queue
<1>3. Edit(s, d, p, q) /\ Publish("trade", s, "N", n, p)
  BY <1>1
<1>4. /\ Table[s][d][p] = QtyAt(book[s][d], p) /\ Table[s][d][p] \in Nat
      /\ Table' = [Table EXCEPT ![s][d][p] = QtySum(q)]
  BY <1>2, <1>3, TableEdit
<1>5. Table[s][d][p] = n + QtySum(q) /\ QtySum(q) \in Nat /\ n \in Nat /\ n > 0
  <2>1. Table[s][d][p] = QtySum(book[s][d][p])
    BY <1>2, <1>4, LadderFacts
  <2>2. n \in Nat /\ n > 0
    BY EngineAssumption
  <2> QED
    BY <1>2, <2>1, <2>2, SumType
<1>6. n <= Table[s][d][p] /\ Table[s][d][p] > 0 /\ QtySum(q) = Table[s][d][p] - n
  BY ONLY <1>5
<1>7. Table' = [Table EXCEPT ![s][d][p] = Table[s][d][p] - n]
  BY ONLY <1>4, <1>6
<1>8. ASSUME NEW r \in Prices, Table[s][d][r] > 0
      PROVE  ~Before(d, r, p)
  <2>1. Table[s][d][r] = QtyAt(book[s][d], r)
    BY <1>2 DEF Table
  <2>2. r \in DOMAIN book[s][d]
    BY <1>2, <1>8, <2>1, LadderFacts
  <2> QED
    BY <1>1, <2>2 DEF Matchable, IsBegin
<1>9. Feed!Trade(s, d, n, p)
  <2>1. Feed!Announce("trade", s, "N", n, p)
    BY <1>3 DEF Feed!Announce, Publish
  <2>2. Feed!Best(s, d, p)
    BY <1>6, <1>8 DEF Feed!Best, Feed!Levels, Feed!Better, Before, Table
  <2>3. Feed!Reduce(s, d, n, p)
    BY <1>6, <1>7 DEF Feed!Reduce, Table
  <2> QED
    BY <2>1, <2>2, <2>3 DEF Feed!Trade
<1> QED
  BY <1>2, <1>9 DEF Feed!Next, Feed!Sides, Sides

LEMMA FillRestingStep ==
  ASSUME IInv, NEW p \in Prices, FillResting(p)
  PROVE  Feed!Next
<1> DEFINE Q == Queue(p)
           n == Head(Q).qty
<1>1. /\ Matchable(p)
      /\ Edit(incoming.sym, Opposite(incoming.side), p, Tail(Q))
      /\ Publish("trade", incoming.sym, "N", n, p)
  BY DEF FillResting, Edit
<1>2. /\ Q \in Seq(Order) /\ Q # <<>> /\ 1 \in DOMAIN Q /\ Head(Q) = Q[1]
      /\ Head(Q) \in Order /\ n > 0
  BY <1>1, MatchableFacts
<1>3. n \in 1..(QtyMod - 1)
  BY <1>2, EngineAssumption DEF Order
<1> HIDE DEF Q
<1>4. Tail(Q) \in Seq(Order) /\ Drops(Q, 1, Tail(Q))
  BY <1>2, TailDrops
<1>5. QtySum(Q) = Q[1].qty + QtySum(Tail(Q))
  BY <1>2, <1>4, SumDrops
<1>6. QtySum(Q) = n + QtySum(Tail(Q))
  BY <1>2, <1>5
<1> HIDE DEF n
<1> QED
  BY <1>1, <1>3, <1>4, <1>6, TradeStep DEF Q

LEMMA FillIncomingStep ==
  ASSUME IInv, NEW p \in Prices, FillIncoming(p)
  PROVE  Feed!Next
<1> DEFINE Q == Queue(p)
           n == incoming.qty
           q == [Q EXCEPT ![1].qty = @ - n]
<1>1. /\ Matchable(p)
      /\ Edit(incoming.sym, Opposite(incoming.side), p, q)
      /\ Publish("trade", incoming.sym, "N", n, p)
      /\ n < Head(Q).qty
  BY Zenon DEF FillIncoming, Edit, Queue
<1>2. /\ Q \in Seq(Order) /\ Q # <<>> /\ Head(Q) = Q[1]
      /\ incoming \in Order /\ n > 0
  BY <1>1, MatchableFacts
<1>3. n \in 1..(QtyMod - 1) /\ n \in Nat
  BY <1>2, EngineAssumption DEF Order
<1> HIDE DEF Q, n
<1>4. q \in Seq(Order) /\ QtySum(Q) = n + QtySum(q)
  BY <1>1, <1>2, <1>3, SumShrinks
<1> HIDE DEF q
<1> QED
  BY <1>1, <1>3, <1>4, TradeStep DEF Q

\* The remainder rests: its side gets a level, or a larger one, that nothing
\* on the other side reaches.
LEMMA RestIncomingStep ==
  ASSUME IInv, RestIncoming
  PROVE  Feed!Next
<1>1. PICK o : o = incoming
  OBVIOUS
<1>2. PICK s, d, p : s = o.sym /\ d = o.side /\ p = o.price
  OBVIOUS
<1>3. /\ o \in Order /\ o.qty > 0 /\ BookOK
      /\ s \in Symbols /\ d \in Sides /\ p \in Prices /\ Opposite(d) \in Sides
      /\ o.qty \in 1..(QtyMod - 1) /\ o.qty \in Nat
  <2>1. o \in Order /\ o.qty > 0 /\ BookOK
    BY <1>1, Disassemble DEF RestIncoming
  <2> QED
    BY <1>2, <2>1, EngineAssumption DEF Order, Sides, Opposite
<1>4. \A r \in DOMAIN book[s][Opposite(d)] : ~Crosses(o, r)
  <2>1. IsLevelMap(book[s][Opposite(d)])
    BY <1>3 DEF BookOK
  <2>2. CASE DOMAIN book[s][Opposite(d)] = {}
    BY <2>2
  <2>3. CASE \E r \in Prices : IsBegin(Opposite(d), book[s][Opposite(d)], r) /\ ~Crosses(o, r)
    BY <1>2, <1>3, <2>1, <2>3, NoneCrossed
  <2> QED
    BY <1>1, <1>2, <2>2, <2>3 DEF RestIncoming
<1> DEFINE L == LevelAt(book[s][d], p)
           q == Append(L, o)
<1>5. Edit(s, d, p, q) /\ Publish("submit", s, d, o.qty, p)
  BY <1>1, <1>2 DEF RestIncoming, Edit, Enqueue
<1>6. L \in Seq(Order) /\ q \in Seq(Order)
  <2>1. L \in Seq(Order)
    BY <1>3, LevelFacts, EmptyInSeq DEF LevelAt
  <2> QED
    BY <1>3, <2>1
<1>7. QtySum(q) = o.qty + QtySum(L) /\ QtyAt(book[s][d], p) = QtySum(L)
  <2>1. QtyAt(book[s][d], p) = QtySum(L)
    BY Zenon DEF QtyAt, QtySum
  <2> HIDE DEF L
  <2> QED
    BY <1>3, <1>6, <2>1, SumAppend
<1> HIDE DEF q, L
<1>8. /\ Table[s][d][p] = QtyAt(book[s][d], p) /\ Table[s][d][p] \in Nat
      /\ Table' = [Table EXCEPT ![s][d][p] = QtySum(q)]
  BY <1>3, <1>5, <1>6, TableEdit
<1>9. QtySum(q) = Table[s][d][p] + o.qty
  BY ONLY <1>3, <1>7, <1>8
<1>10. Table' = [Table EXCEPT ![s][d][p] = Table[s][d][p] + o.qty]
  BY ONLY <1>8, <1>9
<1>11. ASSUME NEW r \in Prices, Table[s][Opposite(d)][r] > 0
       PROVE  Before(d, r, p)
  <2>1. Table[s][Opposite(d)][r] = QtyAt(book[s][Opposite(d)], r)
    BY <1>3 DEF Table
  <2>2. r \in DOMAIN book[s][Opposite(d)]
    BY <1>3, <1>11, <2>1, LadderFacts
  <2> QED
    BY <1>2, <1>3, <1>4, <2>2, EngineAssumption DEF Crosses, Before, Sides
<1>12. Feed!Submit(s, d, o.qty, p)
  <2>1. Feed!Announce("submit", s, d, o.qty, p)
    BY <1>5 DEF Feed!Announce, Publish
  <2>2. Feed!Passive(s, d, p)
    BY <1>11 DEF Feed!Passive, Feed!Levels, Feed!Better, Feed!Opposite, Opposite, Before, Table
  <2> QED
    BY <1>10, <2>1, <2>2 DEF Feed!Submit, Table
<1> QED
  BY <1>3, <1>12 DEF Feed!Next, Feed!Sides, Sides

LEMMA AcceptCancelStep ==
  ASSUME IInv, NEW id \in OrderIds, AcceptCancel(id)
  PROVE  Feed!Next
<1>1. PICK s, d, p : s = orders[id].sym /\ d = orders[id].side /\ p = orders[id].price
  OBVIOUS
<1>2. /\ id \in DOMAIN orders /\ BookOK
      /\ s \in Symbols /\ d \in Sides /\ p \in DOMAIN book[s][d] /\ p \in Prices
  <2>1. id \in DOMAIN orders
    BY DEF AcceptCancel
  <2> QED
    BY <1>1, <2>1, Disassemble DEF OrderRef, IndexIsResting, RestsAt
<1> DEFINE Q == book[s][d][p]
<1>3. PICK i \in DOMAIN Q : Edit(s, d, p, RemoveAt(Q, i))
                            /\ Publish("cancel", s, "N", Q[i].qty, Q[i].price)
  BY Zenon, <1>1 DEF AcceptCancel, Edit
<1> DEFINE n == Q[i].qty
           q == RemoveAt(Q, i)
<1>4. Q \in Seq(Order) /\ Q[i] \in Order /\ Q[i].price = p /\ n > 0
  <2>1. Q[i].price = p
    <3>1. RestingIsIndexed
      BY Disassemble
    <3>2. IndexedAt(orders, book[s][d][p][i], s, d, p)
      BY ONLY <1>2, <1>3, <3>1, IndexedFacts
    <3> QED
      BY <3>2 DEF IndexedAt
  <2>2. n > 0
    BY <1>2, <1>3, Disassemble DEF NoEmptyEntries
  <2> QED
    BY <1>2, <1>3, <2>1, <2>2, LevelFacts
<1>5. n \in 1..(QtyMod - 1) /\ n \in Nat
  BY <1>4, EngineAssumption DEF Order
<1>6. QtyAt(book[s][d], p) = QtySum(Q)
  BY <1>2, LadderFacts
<1> HIDE DEF Q
<1>7. Drops(Q, i, q) /\ q \in Seq(Order)
  BY <1>3, <1>4, RemoveAtDrops DEF Drops
<1>8. QtySum(Q) = n + QtySum(q) /\ QtySum(q) \in Nat
  BY <1>3, <1>4, <1>7, SumDrops, SumType
<1> HIDE DEF q, n
<1>9. Edit(s, d, p, q) /\ Publish("cancel", s, "N", n, p)
  BY <1>3, <1>4 DEF q, n
<1>10. /\ Table[s][d][p] = QtyAt(book[s][d], p) /\ Table[s][d][p] \in Nat
       /\ Table' = [Table EXCEPT ![s][d][p] = QtySum(q)]
  BY <1>2, <1>7, <1>9, TableEdit
<1>11. n <= Table[s][d][p] /\ QtySum(q) = Table[s][d][p] - n
  BY ONLY <1>5, <1>6, <1>8, <1>10
<1>12. Table' = [Table EXCEPT ![s][d][p] = Table[s][d][p] - n]
  BY ONLY <1>10, <1>11
<1>13. Feed!Cancel(s, d, n, p)
  <2>1. Feed!Announce("cancel", s, "N", n, p)
    BY <1>9 DEF Feed!Announce, Publish
  <2>2. Feed!Reduce(s, d, n, p)
    BY <1>11, <1>12 DEF Feed!Reduce, Table
  <2> QED
    BY <2>1, <2>2 DEF Feed!Cancel
<1> QED
  BY <1>2, <1>5, <1>13 DEF Feed!Next, Feed!Sides, Sides

\* Refusals, dumps and the acceptance of a submit send nothing.
LEMMA SilentStep ==
  ASSUME sent' = NoMsg, UNCHANGED <<book, txn>>
  PROVE  Feed!Next
<1>1. Table' = Table
  BY DEF Table
<1>2. Feed!Quiet
  BY <1>1 DEF Feed!Quiet, Table
<1> QED
  BY <1>2 DEF Feed!Next

LEMMA FeedStep ==
  ASSUME IInv, [Next]_vars
  PROVE  Feed!Next \/ UNCHANGED Feed!ladderVars
<1>1. CASE InvalidLine
  BY <1>1, SilentStep DEF InvalidLine
<1>2. ASSUME NEW o \in Requests, RefuseSubmit(o) PROVE Feed!Next
  BY <1>2, SilentStep DEF RefuseSubmit
<1>3. ASSUME NEW o \in Requests, AcceptSubmit(o) PROVE Feed!Next
  BY <1>3, SilentStep DEF AcceptSubmit
<1>4. ASSUME NEW p \in Prices, FillResting(p) PROVE Feed!Next
  BY <1>4, FillRestingStep
<1>5. ASSUME NEW p \in Prices, FillIncoming(p) PROVE Feed!Next
  BY <1>5, FillIncomingStep
<1>6. CASE RestIncoming
  BY <1>6, RestIncomingStep
<1>7. ASSUME NEW id \in OrderIds, RefuseCancel(id) PROVE Feed!Next
  BY <1>7, SilentStep DEF RefuseCancel
<1>8. ASSUME NEW id \in OrderIds, AcceptCancel(id) PROVE Feed!Next
  BY <1>8, AcceptCancelStep
<1>9. CASE PrintBooks
  BY <1>9, SilentStep DEF PrintBooks
<1>10. CASE UNCHANGED vars
  <2>1. Table' = Table
    BY <1>10 DEF vars, Table
  <2> QED
    BY <1>10, <2>1 DEF vars, Feed!ladderVars, Table
<1> QED
  BY <1>1, <1>2, <1>3, <1>4, <1>5, <1>6, <1>7, <1>8, <1>9, <1>10
     DEF Next, Submit, Match, Cancel

LEMMA FeedInit == Init => Feed!Init
<1> SUFFICES ASSUME Init PROVE Feed!Init
  OBVIOUS
<1>1. \A s \in Symbols, d \in Sides : book[s][d] = EmptyMap
  BY DEF Init
<1>2. \A s \in Symbols, d \in Sides, p \in Prices : QtyAt(book[s][d], p) = 0
  BY Zenon, <1>1, SumEmpty DEF QtyAt, QtySum, LevelAt, EmptyMap
<1>3. Table = [s \in Symbols |-> [d \in Sides |-> [p \in Prices |-> 0]]]
  BY <1>2 DEF Table
<1> QED
  BY <1>3 DEF Feed!Init, Feed!Sides, Sides, Init, Table

\* Whatever requests come, each datagram handed to the multicast socket carries
\* the next transaction id of its book and tells the whole change of the one
\* level that changed, trades only ever at the best level of their side, and
\* between two datagrams no level changes: Publish in Engine::match,
\* Engine::add_order and Engine::handle_cancel.
THEOREM FeedImplemented == RequestSpec => ImplementsLadder
<1>1. Init => IInv /\ Feed!Init
  BY InitInv, FeedInit
<1>2. IInv /\ [RequestNext]_<<vars, request>> => [Next]_vars
  BY DEF RequestNext
<1>3. IInv /\ [Next]_vars => IInv'
  BY StepInv
<1>4. IInv /\ [Next]_vars => [Feed!Next]_(Feed!ladderVars)
  BY FeedStep
<1> QED
  BY <1>1, <1>2, <1>3, <1>4, PTL DEF RequestSpec, ImplementsLadder, Feed!Spec
-----------------------------------------------------------------------------
(* Places in price-time order.                                              *)

\* The places of a side are prices with positions in their queues.
LEMMA SidePlaces ==
  ASSUME NEW q \in [Prices -> Seq(Order)]
  PROVE  /\ \A at \in Outcome!Places(q) :
              \E r \in Prices : \E i \in 1..Len(q[r]) :
                /\ at = <<r, i>> /\ at[1] = r /\ at[2] = i /\ i \in Nat
                /\ Outcome!OrderAt(q, at) = q[r][i] /\ q[r][i] \in Order
         /\ \A r \in Prices : \A i \in 1..Len(q[r]) : <<r, i>> \in Outcome!Places(q)
         /\ Outcome!Places(q) \subseteq Prices \X Nat
<1>1. \A r \in Prices : q[r] \in Seq(Order) /\ DOMAIN q[r] = 1..Len(q[r])
                        /\ \A i \in 1..Len(q[r]) : q[r][i] \in Order /\ i \in Nat
  OBVIOUS
<1>2. ASSUME NEW at \in Outcome!Places(q)
      PROVE  \E r \in Prices : \E i \in 1..Len(q[r]) :
                /\ at = <<r, i>> /\ at[1] = r /\ at[2] = i /\ i \in Nat
                /\ Outcome!OrderAt(q, at) = q[r][i] /\ q[r][i] \in Order
  <2>1. PICK r \in Prices : at \in {r} \X DOMAIN q[r]
    BY DEF Outcome!Places
  <2>2. PICK i \in DOMAIN q[r] : at = <<r, i>>
    BY <2>1
  <2> QED
    BY <1>1, <2>2 DEF Outcome!OrderAt
<1>3. ASSUME NEW r \in Prices, NEW i \in 1..Len(q[r])
      PROVE  <<r, i>> \in Outcome!Places(q)
  <2>1. <<r, i>> \in {r} \X DOMAIN q[r]
    BY <1>1
  <2> QED
    BY <2>1 DEF Outcome!Places
<1>4. Outcome!Places(q) \subseteq Prices \X Nat
  BY <1>2
<1> QED
  BY <1>2, <1>3, <1>4

\* Price, then time, puts places in a row.
LEMMA EarlierIsOrder ==
  ASSUME NEW d, NEW T, T \subseteq Prices \X Nat
  PROVE  /\ \A a \in T : ~Outcome!Earlier(d, a, a)
         /\ \A a, b, c \in T :
              Outcome!Earlier(d, a, b) /\ Outcome!Earlier(d, b, c) => Outcome!Earlier(d, a, c)
         /\ \A a, b \in T : a = b \/ Outcome!Earlier(d, a, b) \/ Outcome!Earlier(d, b, a)
<1>1. \A a \in T : a[1] \in Int /\ a[2] \in Int /\ a = <<a[1], a[2]>>
  <2> SUFFICES ASSUME NEW a \in T
               PROVE  a[1] \in Int /\ a[2] \in Int /\ a = <<a[1], a[2]>>
    OBVIOUS
  <2>1. a \in Prices \X Nat
    OBVIOUS
  <2>2. PICK r \in Prices, i \in Nat : a = <<r, i>>
    BY <2>1
  <2> QED
    BY <2>2, EngineAssumption
<1>2. \A a \in T : ~Outcome!Earlier(d, a, a)
  BY <1>1 DEF Outcome!Earlier, Outcome!Better
<1>3. \A a, b, c \in T :
        Outcome!Earlier(d, a, b) /\ Outcome!Earlier(d, b, c) => Outcome!Earlier(d, a, c)
  <2> SUFFICES ASSUME NEW a \in T, NEW b \in T, NEW c \in T,
                      Outcome!Earlier(d, a, b), Outcome!Earlier(d, b, c)
               PROVE  Outcome!Earlier(d, a, c)
    OBVIOUS
  <2>1. /\ a[1] \in Int /\ a[2] \in Int /\ b[1] \in Int /\ b[2] \in Int
        /\ c[1] \in Int /\ c[2] \in Int
    BY <1>1
  <2> QED
    BY <2>1 DEF Outcome!Earlier, Outcome!Better
<1>4. \A a, b \in T : a = b \/ Outcome!Earlier(d, a, b) \/ Outcome!Earlier(d, b, a)
  <2> SUFFICES ASSUME NEW a \in T, NEW b \in T, ~Outcome!Earlier(d, a, b), ~Outcome!Earlier(d, b, a)
               PROVE  a = b
    OBVIOUS
  <2>1. /\ a[1] \in Int /\ a[2] \in Int /\ b[1] \in Int /\ b[2] \in Int
        /\ a = <<a[1], a[2]>> /\ b = <<b[1], b[2]>>
    BY <1>1
  <2>2. a[1] = b[1] /\ a[2] = b[2]
    BY <2>1 DEF Outcome!Earlier, Outcome!Better
  <2> QED
    BY <2>1, <2>2
<1> QED
  BY <1>2, <1>3, <1>4

\* The operators of a library are the same in the specification it is used in.
LEMMA OutcomeLibrary ==
  /\ \A S : Outcome!Cardinality(S) = Cardinality(S)
  /\ \A q : Outcome!FlattenSeq(q) = FlattenSeq(q)
<1>1. \A S : Outcome!Cardinality(S) = Cardinality(S)
  BY DEF Outcome!Cardinality, Cardinality
<1>2. \A q : Outcome!FlattenSeq(q) = FlattenSeq(q)
  BY DEF Outcome!FlattenSeq, FlattenSeq
<1> QED
  BY <1>1, <1>2

Rank(d, T, a) == Outcome!Cardinality({b \in T : Outcome!Earlier(d, b, a)})

\* Each place has its turn.
LEMMA TurnFacts ==
  ASSUME NEW d, NEW T, T \subseteq Prices \X Nat, IsFiniteSet(T)
  PROVE  /\ \A a, b \in T : Rank(d, T, a) = Rank(d, T, b) => a = b
         /\ Cardinality(T) \in Nat /\ DOMAIN Outcome!InTurn(d, T) = 1..Cardinality(T)
         /\ \A n \in 1..Cardinality(T) :
              Outcome!InTurn(d, T)[n] \in T /\ Rank(d, T, Outcome!InTurn(d, T)[n]) = n - 1
<1> DEFINE R == {c \in T \X T : Outcome!Earlier(d, c[1], c[2])}
<1>1. \A a, b \in T : <<a, b>> \in R <=> Outcome!Earlier(d, a, b)
  OBVIOUS
<1>2. InRow(R, T)
  <2> HIDE DEF R
  <2> QED
    BY <1>1, EarlierIsOrder DEF InRow
<1>3. \A a \in T : Cardinality(Preceding(R, T, a)) = Rank(d, T, a)
  <2> SUFFICES ASSUME NEW a \in T
               PROVE  Preceding(R, T, a) = {b \in T : Outcome!Earlier(d, b, a)}
    BY OutcomeLibrary DEF Rank
  <2> HIDE DEF R
  <2> QED
    BY <1>1 DEF Preceding
<1> HIDE DEF R
<1>4. /\ \A a, b \in T : Rank(d, T, a) = Rank(d, T, b) => a = b
      /\ \A n \in 1..Cardinality(T) : \E a \in T : Rank(d, T, a) = n - 1
  <2>1. /\ \A a, b \in T : Cardinality(Preceding(R, T, a)) = Cardinality(Preceding(R, T, b))
                             => a = b
        /\ \A n \in 1..Cardinality(T) : \E a \in T : Cardinality(Preceding(R, T, a)) = n - 1
    BY <1>2, Ranks
  <2> QED
    BY <1>3, <2>1
<1>5. Outcome!InTurn(d, T) = [n \in 1..Cardinality(T) |-> CHOOSE a \in T : Rank(d, T, a) = n - 1]
  <2>1. Outcome!InTurn(d, T) =
          [n \in 1..Outcome!Cardinality(T) |-> CHOOSE a \in T : Rank(d, T, a) = n - 1]
    BY DEF Outcome!InTurn, Rank
  <2> QED
    BY <2>1, OutcomeLibrary
<1>6. Cardinality(T) \in Nat
  BY FS_CardinalityType
<1>7. ASSUME NEW n \in 1..Cardinality(T)
      PROVE  Outcome!InTurn(d, T)[n] \in T /\ Rank(d, T, Outcome!InTurn(d, T)[n]) = n - 1
  <2>1. \E a \in T : Rank(d, T, a) = n - 1
    BY <1>4
  <2> DEFINE c == CHOOSE a \in T : Rank(d, T, a) = n - 1
  <2>2. c \in T /\ Rank(d, T, c) = n - 1
    BY <2>1
  <2>3. Outcome!InTurn(d, T)[n] = c
    BY <1>5
  <2> HIDE DEF c
  <2> QED
    BY <2>2, <2>3
<1> QED
  BY <1>4, <1>5, <1>6, <1>7

\* first is before all places of T, and the others of T are those of U under
\* other names, in the same order.
Leads(d, T, U, first, m) ==
  /\ first \in T
  /\ \A b \in T \ {first} : Outcome!Earlier(d, first, b)
  /\ m \in Bijection(U, T \ {first})
  /\ \A a, b \in U : Outcome!Earlier(d, a, b) <=> Outcome!Earlier(d, m[a], m[b])

\* The turns of T are first and those of U.
Follows(d, T, U, first, m) ==
  /\ Cardinality(T) = Cardinality(U) + 1
  /\ Outcome!InTurn(d, T)[1] = first
  /\ \A n \in 1..Cardinality(U) :
       Outcome!InTurn(d, T)[n + 1] = m[Outcome!InTurn(d, U)[n]]

\* The first place takes the first turn, and the others follow.
LEMMA TurnHead ==
  ASSUME NEW d, NEW T, T \subseteq Prices \X Nat, IsFiniteSet(T),
         NEW U, U \subseteq Prices \X Nat, IsFiniteSet(U),
         NEW first, NEW m, Leads(d, T, U, first, m)
  PROVE  Follows(d, T, U, first, m)
<1> DEFINE E(a, b) == Outcome!Earlier(d, a, b)
<1>1. /\ \A u \in U : m[u] \in T /\ m[u] # first
      /\ \A u, v \in U : m[u] = m[v] => u = v
      /\ \A t \in T : t # first => \E u \in U : m[u] = t
      /\ m \in Bijection(U, T \ {first})
      /\ first \in T
      /\ \A b \in T : b # first => E(first, b)
      /\ \A a, b \in U : E(a, b) <=> E(m[a], m[b])
  BY DEF Leads, Bijection, Injection, Surjection, IsInjective
<1>2. \A a, b \in T : E(a, b) => ~E(b, a)
  <2>1. /\ \A a \in T : ~Outcome!Earlier(d, a, a)
        /\ \A a, b, c \in T :
             Outcome!Earlier(d, a, b) /\ Outcome!Earlier(d, b, c) => Outcome!Earlier(d, a, c)
    BY EarlierIsOrder
  <2> QED
    BY <2>1
<1>3. Cardinality(T) = Cardinality(U) + 1 /\ Cardinality(U) \in Nat
  <2>1. Cardinality(T \ {first}) = Cardinality(U)
    BY <1>1, RenamedCardinality
  <2>2. Cardinality(T \ {first}) = Cardinality(T) - 1 /\ Cardinality(T) \in Nat
    BY <1>1, FS_RemoveElement, FS_CardinalityType
  <2>3. Cardinality(U) \in Nat
    BY FS_CardinalityType
  <2> QED
    BY <2>1, <2>2, <2>3
<1>4. Rank(d, T, first) = 0
  <2>1. {b \in T : E(b, first)} = {}
    BY <1>1, <1>2
  <2> QED
    BY <2>1, FS_EmptySet, OutcomeLibrary DEF Rank
<1>5. ASSUME NEW u \in U
      PROVE  Rank(d, T, m[u]) = Rank(d, U, u) + 1
  <2> DEFINE A == {b \in U : E(b, u)}
             B == {b \in T : E(b, m[u])}
             k == [b \in A |-> m[b]]
  <2> HIDE DEF E
  <2>1. \A b \in A : b \in U /\ m[b] \in B \ {first}
    BY <1>1
  <2>2. \A t \in B : t # first => \E b \in A : m[b] = t
    <3> SUFFICES ASSUME NEW t \in B, t # first
                 PROVE  \E b \in A : m[b] = t
      OBVIOUS
    <3>1. PICK b \in U : m[b] = t
      BY <1>1
    <3> QED
      BY <1>1, <3>1
  <2>3. k \in Bijection(A, B \ {first})
    <3>1. k \in [A -> B \ {first}] /\ \A b \in A : k[b] = m[b]
      BY <2>1
    <3> HIDE DEF k, A, B
    <3> QED
      BY <1>1, <2>1, <2>2, <3>1 DEF Bijection, Injection, Surjection, IsInjective
  <2>4. first \in B
    BY <1>1
  <2>5. IsFiniteSet(A) /\ IsFiniteSet(B)
    <3>1. A \in SUBSET U /\ B \in SUBSET T
      OBVIOUS
    <3> HIDE DEF A, B
    <3> QED
      BY <3>1, FS_Subset
  <2>6. Cardinality(B) = Cardinality(A) + 1
    <3> HIDE DEF k, A, B
    <3>1. Cardinality(B \ {first}) = Cardinality(A)
      BY <2>3, <2>5, RenamedCardinality
    <3>2. Cardinality(B \ {first}) = Cardinality(B) - 1 /\ Cardinality(B) \in Nat
      BY <2>4, <2>5, FS_RemoveElement, FS_CardinalityType
    <3>3. Cardinality(A) \in Nat
      BY <2>5, FS_CardinalityType
    <3> QED
      BY ONLY <3>1, <3>2, <3>3
  <2> QED
    BY <2>6, OutcomeLibrary DEF Rank, E
<1> HIDE DEF E
<1>6. /\ \A a, b \in T : Rank(d, T, a) = Rank(d, T, b) => a = b
      /\ \A n \in 1..Cardinality(T) :
           Outcome!InTurn(d, T)[n] \in T /\ Rank(d, T, Outcome!InTurn(d, T)[n]) = n - 1
  BY TurnFacts
<1>7. \A n \in 1..Cardinality(U) :
        Outcome!InTurn(d, U)[n] \in U /\ Rank(d, U, Outcome!InTurn(d, U)[n]) = n - 1
  BY TurnFacts
<1>8. Outcome!InTurn(d, T)[1] = first
  <2>1. 1 \in 1..Cardinality(T)
    BY <1>3
  <2>2. Outcome!InTurn(d, T)[1] \in T /\ Rank(d, T, Outcome!InTurn(d, T)[1]) = 1 - 1
    BY ONLY <1>6, <2>1
  <2> QED
    BY <1>1, <1>4, <1>6, <2>2
<1>9. ASSUME NEW n \in 1..Cardinality(U)
      PROVE  Outcome!InTurn(d, T)[n + 1] = m[Outcome!InTurn(d, U)[n]]
  <2>1. PICK u : u = Outcome!InTurn(d, U)[n]
    OBVIOUS
  <2>2. u \in U /\ Rank(d, U, u) = n - 1
    BY <1>7, <2>1
  <2>3. m[u] \in T /\ Rank(d, T, m[u]) = (n - 1) + 1
    BY <1>1, <1>5, <2>2
  <2>4. PICK k : k = n + 1
    OBVIOUS
  <2>5. k \in 1..Cardinality(T) /\ (n - 1) + 1 = k - 1
    BY <1>3, <2>4
  <2>6. PICK t : t = Outcome!InTurn(d, T)[k]
    OBVIOUS
  <2>7. t \in T /\ Rank(d, T, t) = k - 1
    BY ONLY <1>6, <2>5, <2>6
  <2>8. t = m[u]
    BY ONLY <1>6, <2>3, <2>5, <2>7
  <2> QED
    BY <2>1, <2>4, <2>6, <2>8
<1> QED
  BY <1>3, <1>8, <1>9 DEF Follows

-----------------------------------------------------------------------------
(* Volumes.                                                                 *)

\* A side of a book: finitely many orders, all with a quantity.
IsSide(q) ==
  /\ q \in [Prices -> Seq(Order)]
  /\ IsFiniteSet(Outcome!Places(q))
  /\ \A at \in Outcome!Places(q) : Outcome!OrderAt(q, at).qty > 0

\* Every place of a side holds an order with a quantity.
LEMMA SideQty ==
  ASSUME NEW q, IsSide(q)
  PROVE  \A at \in Outcome!Places(q) :
           /\ Outcome!OrderAt(q, at) \in Order
           /\ Outcome!OrderAt(q, at).qty \in Nat /\ Outcome!OrderAt(q, at).qty > 0
<1>1. \A at \in Outcome!Places(q) : Outcome!OrderAt(q, at) \in Order
  BY SidePlaces DEF IsSide
<1>2. \A ord \in Order : ord.qty \in Nat
  BY EngineAssumption DEF Order
<1> QED
  BY <1>1, <1>2 DEF IsSide

VolumeWeights(q, T) == [at \in T |-> Outcome!OrderAt(q, at).qty]

\* A volume is the total of the quantities at its places.
LEMMA VolumeIsTotal ==
  ASSUME NEW q, NEW T
  PROVE  Outcome!Volume(q, T) = TotalWeight(VolumeWeights(q, T))
BY DEF Outcome!Volume, Outcome!FoldFunction, Outcome!FoldFunctionOnSet, Outcome!MapThenFoldSet,
       TotalWeight, Weighs, VolumeWeights

\* ... and a number, over finitely many places.
LEMMA VolumeType ==
  ASSUME NEW q, IsSide(q), NEW T \in SUBSET Outcome!Places(q)
  PROVE  /\ Outcome!Volume(q, T) \in Nat
         /\ VolumeWeights(q, T) \in [T -> Nat]
         /\ IsFiniteSet(T)
         /\ T = {} => Outcome!Volume(q, T) = 0
<1>1. VolumeWeights(q, T) \in [T -> Nat]
  BY SideQty DEF VolumeWeights
<1>2. IsFiniteSet(T)
  BY FS_Subset DEF IsSide
<1> QED
  BY <1>1, <1>2, VolumeIsTotal, TotalType, TotalEmpty

\* Whoever has an order ahead has at least its quantity ahead.
LEMMA VolumeOneOut ==
  ASSUME NEW q, IsSide(q), NEW T \in SUBSET Outcome!Places(q), NEW x \in T
  PROVE  /\ Outcome!Volume(q, T) = Outcome!OrderAt(q, x).qty + Outcome!Volume(q, T \ {x})
         /\ Outcome!Volume(q, T) >= Outcome!OrderAt(q, x).qty
<1> DEFINE w == VolumeWeights(q, T)
           v == VolumeWeights(q, T \ {x})
<1>1. w \in [T -> Nat] /\ IsFiniteSet(T) /\ w[x] = Outcome!OrderAt(q, x).qty
  BY VolumeType DEF VolumeWeights
<1>2. v = [y \in T \ {x} |-> w[y]]
  BY DEF VolumeWeights
<1>3. TotalWeight(w) = w[x] + TotalWeight([y \in T \ {x} |-> w[y]])
  <2> HIDE DEF w
  <2> QED
    BY <1>1, TotalOneOut
<1>4. Outcome!Volume(q, T \ {x}) \in Nat /\ w[x] \in Nat
  BY <1>1, VolumeType
<1>5. TotalWeight(w) = w[x] + TotalWeight(v)
  BY <1>2, <1>3
<1>6. Outcome!Volume(q, T) = TotalWeight(w) /\ Outcome!Volume(q, T \ {x}) = TotalWeight(v)
  BY VolumeIsTotal
<1> HIDE DEF w, v
<1> QED
  BY <1>1, <1>4, <1>5, <1>6

\* The same orders in other places.
LEMMA VolumeRenamed ==
  ASSUME NEW q, IsSide(q), NEW T \in SUBSET Outcome!Places(q),
         NEW r, IsSide(r), NEW U \in SUBSET Outcome!Places(r),
         NEW m \in Bijection(U, T),
         \A u \in U : Outcome!OrderAt(r, u) = Outcome!OrderAt(q, m[u])
  PROVE  Outcome!Volume(r, U) = Outcome!Volume(q, T)
<1> DEFINE w == VolumeWeights(q, T)
           v == VolumeWeights(r, U)
<1>1. w \in [T -> Nat] /\ v \in [U -> Nat] /\ IsFiniteSet(T) /\ IsFiniteSet(U)
  BY VolumeType
<1>2. \A u \in U : m[u] \in T
  BY DEF Bijection, Injection
<1>3. \A u \in U : v[u] = w[m[u]]
  BY <1>2 DEF VolumeWeights
<1> HIDE DEF w, v
<1>4. TotalWeight(v) = TotalWeight(w)
  BY <1>1, <1>3, TotalRenamed
<1> QED
  BY <1>4, VolumeIsTotal DEF w, v

-----------------------------------------------------------------------------
(* The first order of a side leaves.                                        *)

\* r is the side q without its first order; m says where the others were.
Moved(d, q, r, first, m) ==
  /\ IsSide(q) /\ IsSide(r)
  /\ m \in [Outcome!Places(r) -> Outcome!Places(q)]
  /\ first \in Outcome!Places(q)
  /\ \A at \in Outcome!Places(r) :
       /\ m[at] # first /\ m[at][1] = at[1]
       /\ Outcome!OrderAt(r, at) = Outcome!OrderAt(q, m[at])
  /\ \A a, b \in Outcome!Places(r) : m[a] = m[b] => a = b
  /\ \A t \in Outcome!Places(q) : t # first => \E at \in Outcome!Places(r) : m[at] = t
  /\ \A a, b \in Outcome!Places(r) : Outcome!Earlier(d, a, b) <=> Outcome!Earlier(d, m[a], m[b])
  /\ \A t \in Outcome!Places(q) : t # first => Outcome!Earlier(d, first, t)

\* Where the places of r were when one order stood ahead of them at p.
Shift(p, r) ==
  [at \in Outcome!Places(r) |-> IF at[1] = p THEN <<p, at[2] + 1>> ELSE at]

\* Taking the head of the best queue is taking the first order of the side:
\* the others keep their turns, those behind it one place further up.
LEMMA TailMoves ==
  ASSUME NEW d, NEW q, IsSide(q), NEW p \in Prices, q[p] # <<>>,
         \A r \in Prices : q[r] # <<>> => ~Outcome!Better(d, r, p)
  PROVE  Moved(d, q, [q EXCEPT ![p] = Tail(q[p])], <<p, 1>>, Shift(p, [q EXCEPT ![p] = Tail(q[p])]))
<1> DEFINE r == [q EXCEPT ![p] = Tail(q[p])]
           P == Outcome!Places(q)
           R == Outcome!Places(r)
           m == Shift(p, r)
           first == <<p, 1>>
<1>1. q \in [Prices -> Seq(Order)] /\ q[p] \in Seq(Order) /\ Len(q[p]) \in Nat /\ Len(q[p]) >= 1
  BY DEF IsSide
<1>2. /\ Tail(q[p]) \in Seq(Order) /\ Len(Tail(q[p])) = Len(q[p]) - 1
      /\ \A i \in 1..Len(Tail(q[p])) : Tail(q[p])[i] = q[p][i + 1]
  BY <1>1
<1>3. /\ r \in [Prices -> Seq(Order)]
      /\ r[p] = Tail(q[p])
      /\ \A s \in Prices : s # p => r[s] = q[s]
  BY <1>1, <1>2
<1> HIDE DEF r
<1>4. /\ \A at \in P : \E s \in Prices : \E i \in 1..Len(q[s]) :
           at = <<s, i>> /\ Outcome!OrderAt(q, at) = q[s][i]
      /\ \A s \in Prices : \A i \in 1..Len(q[s]) :
           <<s, i>> \in P /\ Outcome!OrderAt(q, <<s, i>>) = q[s][i]
  BY <1>1, SidePlaces DEF Outcome!OrderAt
<1>5. /\ \A at \in R : \E s \in Prices : \E i \in 1..Len(r[s]) :
           at = <<s, i>> /\ Outcome!OrderAt(r, at) = r[s][i]
      /\ \A s \in Prices : \A i \in 1..Len(r[s]) :
           <<s, i>> \in R /\ Outcome!OrderAt(r, <<s, i>>) = r[s][i]
  BY <1>3, SidePlaces DEF Outcome!OrderAt
<1>6. \A s \in Prices : r[s] \in Seq(Order) /\ q[s] \in Seq(Order) /\ Len(r[s]) \in Nat /\ Len(q[s]) \in Nat
  BY <1>1, <1>3
<1>7. ASSUME NEW s \in Prices, NEW i \in 1..Len(r[s])
      PROVE  /\ i \in Nat /\ i >= 1
             /\ s = p => i + 1 \in 1..Len(q[p]) /\ r[s][i] = q[p][i + 1]
             /\ s # p => i \in 1..Len(q[s]) /\ r[s][i] = q[s][i]
  <2>1. i \in Nat /\ i >= 1 /\ i <= Len(r[s])
    BY <1>6
  <2>2. CASE s = p
    <3>1. r[s] = Tail(q[p]) /\ i <= Len(Tail(q[p]))
      BY <1>3, <2>1, <2>2
    <3>2. i \in 1..Len(Tail(q[p])) /\ i + 1 \in 1..Len(q[p])
      BY ONLY <1>1, <1>2, <2>1, <3>1
    <3> QED
      BY <1>2, <2>1, <2>2, <3>1, <3>2
  <2>3. CASE s # p
    BY <1>3, <2>1, <2>3
  <2> QED
    BY <2>1, <2>2, <2>3
<1>8. ASSUME NEW s \in Prices, NEW i \in 1..Len(r[s])
      PROVE  m[<<s, i>>] = IF s = p THEN <<p, i + 1>> ELSE <<s, i>>
  BY <1>5 DEF Shift
<1> HIDE DEF m
\* Where an order of r was.
<1>9. ASSUME NEW at \in R
      PROVE  \E s \in Prices : \E i, j \in Nat :
               /\ at = <<s, i>> /\ m[at] = <<s, j>> /\ m[at] \in P
               /\ Outcome!OrderAt(r, at) = Outcome!OrderAt(q, m[at])
               /\ i >= 1 /\ j = IF s = p THEN i + 1 ELSE i
  <2>1. PICK s \in Prices : \E i \in 1..Len(r[s]) : at = <<s, i>> /\ Outcome!OrderAt(r, at) = r[s][i]
    BY <1>5
  <2>6. PICK i \in 1..Len(r[s]) : at = <<s, i>> /\ Outcome!OrderAt(r, at) = r[s][i]
    BY <2>1
  <2>2. PICK j : j = IF s = p THEN i + 1 ELSE i
    OBVIOUS
  <2>3. j \in 1..Len(q[s]) /\ r[s][i] = q[s][j] /\ i \in Nat /\ i >= 1 /\ j \in Nat
    BY <1>7, <2>2
  <2>4. m[at] = <<s, j>>
    BY <1>8, <2>6, <2>2
  <2>5. <<s, j>> \in P /\ Outcome!OrderAt(q, <<s, j>>) = q[s][j]
    BY <1>4, <2>3
  <2> QED
    BY <2>2, <2>3, <2>4, <2>5, <2>6
<1>10. first \in P
  <2>1. 1 \in 1..Len(q[p])
    BY <1>1
  <2> QED
    BY <1>4, <2>1
<1>11. m \in [R -> P]
  <2>1. \A at \in R : m[at] \in P
    BY <1>9
  <2>2. m = [at \in R |-> m[at]]
    BY DEF m, Shift
  <2> QED
    BY <2>1, <2>2
<1>12. \A at \in R : m[at] # first /\ m[at][1] = at[1]
                     /\ Outcome!OrderAt(r, at) = Outcome!OrderAt(q, m[at])
  <2> SUFFICES ASSUME NEW at \in R
               PROVE  m[at] # first /\ m[at][1] = at[1]
                      /\ Outcome!OrderAt(r, at) = Outcome!OrderAt(q, m[at])
    OBVIOUS
  <2>1. PICK s \in Prices, i \in Nat, j \in Nat :
           /\ at = <<s, i>> /\ m[at] = <<s, j>>
           /\ Outcome!OrderAt(r, at) = Outcome!OrderAt(q, m[at])
           /\ i >= 1 /\ j = IF s = p THEN i + 1 ELSE i
    BY <1>9
  <2>2. <<s, j>> # first
    BY <2>1
  <2> QED
    BY <2>1, <2>2
<1>13. \A a, b \in R : m[a] = m[b] => a = b
  <2> SUFFICES ASSUME NEW a \in R, NEW b \in R, m[a] = m[b]
               PROVE  a = b
    OBVIOUS
  <2>1. PICK s \in Prices, i \in Nat, j \in Nat :
           a = <<s, i>> /\ m[a] = <<s, j>> /\ j = IF s = p THEN i + 1 ELSE i
    BY <1>9
  <2>2. PICK t \in Prices, k \in Nat, l \in Nat :
           b = <<t, k>> /\ m[b] = <<t, l>> /\ l = IF t = p THEN k + 1 ELSE k
    BY <1>9
  <2>3. s = t /\ j = l
    BY <2>1, <2>2
  <2>4. i = k
    BY <2>1, <2>2, <2>3
  <2> QED
    BY <2>1, <2>2, <2>3, <2>4
<1>14. ASSUME NEW t \in P, t # first
       PROVE  \E at \in R : m[at] = t
  <2>0. PICK s \in Prices : \E j \in 1..Len(q[s]) : t = <<s, j>>
    BY <1>4
  <2>1. PICK j \in 1..Len(q[s]) : t = <<s, j>>
    BY <2>0
  <2>2. j \in Nat /\ j >= 1 /\ j <= Len(q[s])
    BY <1>6
  <2>3. CASE s = p
    <3>1. j # 1
      BY <1>14, <2>1, <2>3
    <3>2. PICK i : i = j - 1
      OBVIOUS
    <3>3. i \in 1..Len(r[s]) /\ i + 1 = j
      BY <1>1, <1>2, <1>3, <2>2, <2>3, <3>1, <3>2
    <3>4. <<s, i>> \in R /\ m[<<s, i>>] = <<p, j>>
      BY <1>5, <1>8, <2>3, <3>3
    <3> QED
      BY <2>1, <2>3, <3>4
  <2>4. CASE s # p
    <3>1. j \in 1..Len(r[s])
      BY <1>3, <2>4
    <3>2. <<s, j>> \in R /\ m[<<s, j>>] = <<s, j>>
      BY <1>5, <1>8, <2>4, <3>1
    <3> QED
      BY <2>1, <3>2
  <2> QED
    BY <2>3, <2>4
<1>15. ASSUME NEW a \in R, NEW b \in R
       PROVE  Outcome!Earlier(d, a, b) <=> Outcome!Earlier(d, m[a], m[b])
  <2>1. PICK s \in Prices, i \in Nat, j \in Nat :
           a = <<s, i>> /\ m[a] = <<s, j>> /\ j = IF s = p THEN i + 1 ELSE i
    BY <1>9
  <2>2. PICK t \in Prices, k \in Nat, l \in Nat :
           b = <<t, k>> /\ m[b] = <<t, l>> /\ l = IF t = p THEN k + 1 ELSE k
    BY <1>9
  <2>3. /\ a[1] = s /\ a[2] = i /\ b[1] = t /\ b[2] = k
        /\ m[a][1] = s /\ m[a][2] = j /\ m[b][1] = t /\ m[b][2] = l
    BY <2>1, <2>2
  <2>4. s = t => (i < k <=> j < l)
    BY <2>1, <2>2
  <2> QED
    BY <2>3, <2>4 DEF Outcome!Earlier
<1>16. ASSUME NEW t \in P, t # first
       PROVE  Outcome!Earlier(d, first, t)
  <2>0. PICK s \in Prices : \E j \in 1..Len(q[s]) : t = <<s, j>>
    BY <1>4
  <2>1. PICK j \in 1..Len(q[s]) : t = <<s, j>>
    BY <2>0
  <2>2. j \in Nat /\ j >= 1 /\ q[s] # <<>>
    BY <1>6
  <2>3. s \in Int /\ p \in Int
    BY EngineAssumption
  <2>4. ~Outcome!Better(d, s, p)
    BY <2>2
  <2>5. first[1] = p /\ first[2] = 1 /\ t[1] = s /\ t[2] = j
    BY <2>1
  <2>6. CASE s = p
    <3>1. j # 1
      BY <1>16, <2>1, <2>6
    <3> QED
      BY <2>2, <2>5, <2>6, <3>1 DEF Outcome!Earlier
  <2>7. CASE s # p
    <3>1. Outcome!Better(d, p, s)
      BY <2>3, <2>4, <2>7 DEF Outcome!Better
    <3> QED
      BY <2>5, <3>1 DEF Outcome!Earlier
  <2> QED
    BY <2>6, <2>7
<1>17. IsSide(r)
  <2>1. IsFiniteSet(R)
    <3>1. m \in Injection(R, P)
      BY <1>11, <1>13 DEF Injection, IsInjective
    <3> QED
      BY <3>1, FS_Injection DEF IsSide
  <2>2. \A at \in R : Outcome!OrderAt(r, at).qty > 0
    <3>1. \A at \in P : Outcome!OrderAt(q, at).qty > 0
      BY DEF IsSide
    <3> QED
      BY <1>11, <1>12, <3>1
  <2> QED
    BY <1>3, <2>1, <2>2 DEF IsSide
<1> HIDE DEF first, P, R
<1>18. Moved(d, q, r, first, m)
  BY <1>10, <1>11, <1>12, <1>13, <1>14, <1>15, <1>16, <1>17 DEF Moved, P, R
<1> QED
  BY <1>18 DEF r, m, first

\* Some places of the larger side, the first among them, and the same of the
\* smaller one.
Same(r, m, T, U) == \A at \in Outcome!Places(r) : at \in U <=> m[at] \in T

\* Places that correspond are as many, but for the first one.
LEMMA MovedParts ==
  ASSUME NEW d, NEW q, NEW r, NEW first, NEW m, Moved(d, q, r, first, m),
         NEW T \in SUBSET Outcome!Places(q), NEW U \in SUBSET Outcome!Places(r),
         first \in T, Same(r, m, T, U)
  PROVE  [u \in U |-> m[u]] \in Bijection(U, T \ {first})
<1> DEFINE k == [u \in U |-> m[u]]
           S == T \ {first}
<1>1. /\ \A u \in U : u \in Outcome!Places(r) /\ m[u] \in S
      /\ \A u, v \in U : m[u] = m[v] => u = v
      /\ \A t \in S : \E u \in U : m[u] = t
  BY DEF Moved, Same
<1>2. k \in [U -> S] /\ \A u \in U : k[u] = m[u]
  BY <1>1
<1> HIDE DEF k, S
<1>3. k \in Bijection(U, S)
  BY <1>1, <1>2 DEF Bijection, Injection, Surjection, IsInjective
<1> QED
  BY <1>3 DEF k, S

\* ... and hold what the first one does not.
LEMMA MovedVolume ==
  ASSUME NEW d, NEW q, NEW r, NEW first, NEW m, Moved(d, q, r, first, m),
         NEW T \in SUBSET Outcome!Places(q), NEW U \in SUBSET Outcome!Places(r),
         first \in T, Same(r, m, T, U)
  PROVE  Outcome!Volume(q, T) = Outcome!OrderAt(q, first).qty + Outcome!Volume(r, U)
<1> DEFINE k == [u \in U |-> m[u]]
           S == T \ {first}
<1>1. k \in Bijection(U, S)
  BY MovedParts
<1>2. \A u \in U : Outcome!OrderAt(r, u) = Outcome!OrderAt(q, k[u])
  BY DEF Moved
<1>3. IsSide(q) /\ IsSide(r) /\ S \in SUBSET Outcome!Places(q)
  BY DEF Moved
<1>4. Outcome!Volume(q, T) = Outcome!OrderAt(q, first).qty + Outcome!Volume(q, S)
  BY <1>3, VolumeOneOut
<1> HIDE DEF k, S
<1>5. Outcome!Volume(r, U) = Outcome!Volume(q, S)
  BY <1>1, <1>2, <1>3, VolumeRenamed
<1> QED
  BY <1>4, <1>5

\* What a taker is.
LEMMA TakerFacts ==
  ASSUME NEW o \in Order
  PROVE  /\ o.qty \in Nat /\ o.price \in Int /\ o.price \in Prices
         /\ o.sym \in Symbols /\ o.side \in Sides
         /\ Outcome!Opposite(o.side) = Opposite(o.side) /\ Opposite(o.side) \in Sides
<1>1. /\ o.qty \in Nat /\ o.price \in Int /\ o.price \in Prices
      /\ o.sym \in Symbols /\ o.side \in Sides
  <2>1. o.qty \in Nat
    BY EngineAssumption DEF Order
  <2>2. o.price \in Prices /\ o.sym \in Symbols /\ o.side \in Sides
    BY DEF Order
  <2> QED
    BY <2>1, <2>2, EngineAssumption
<1>2. Outcome!Opposite(o.side) = Opposite(o.side) /\ Opposite(o.side) \in Sides
  BY DEF Outcome!Opposite, Opposite, Sides
<1> QED
  BY <1>1, <1>2

\* What is ahead of a place is a number.
LEMMA AheadType ==
  ASSUME NEW o, NEW q, IsSide(q), NEW at
  PROVE  Outcome!Ahead(o, q, at) \in Nat
<1> DEFINE T == {b \in Outcome!Places(q) : Outcome!Earlier(Outcome!Opposite(o.side), b, at)}
<1>1. T \in SUBSET Outcome!Places(q) /\ Outcome!Ahead(o, q, at) = Outcome!Volume(q, T)
  BY DEF Outcome!Ahead
<1> HIDE DEF T
<1> QED
  BY <1>1, VolumeType

\* A share is at most the order, and at most what the taker wants.
LEMMA ShareType ==
  ASSUME NEW o \in Order, NEW q, IsSide(q), NEW at \in Outcome!Places(q)
  PROVE  /\ Outcome!Share(o, q, at) \in Nat
         /\ Outcome!Share(o, q, at) <= Outcome!OrderAt(q, at).qty
<1>1. Outcome!OrderAt(q, at).qty \in Nat /\ o.qty \in Nat /\ Outcome!Ahead(o, q, at) \in Nat
  BY SideQty, TakerFacts, AheadType
<1> QED
  BY <1>1 DEF Outcome!Share, Outcome!Smaller

\* The taker without what the first order gives it.
Less(o, n) == [o EXCEPT !.qty = @ - n]

\* The same order with a smaller quantity.
LEMMA LessFacts ==
  ASSUME NEW o \in Order, NEW n \in Nat, n <= o.qty
  PROVE  /\ Less(o, n) \in Order
         /\ Less(o, n).qty = o.qty - n
         /\ Less(o, n).id = o.id /\ Less(o, n).sym = o.sym
         /\ Less(o, n).side = o.side /\ Less(o, n).price = o.price
<1>1. o.qty - n \in 0..(QtyMod - 1)
  BY EngineAssumption DEF Order
<1> QED
  BY <1>1 DEF Less, Order

\* The taker o takes the first order of the side q completely.
Eats(o, q, r, first, m) ==
  /\ Moved(Outcome!Opposite(o.side), q, r, first, m)
  /\ Outcome!Acceptable(o, first[1])
  /\ Outcome!OrderAt(q, first).qty <= o.qty

\* The others are offered what they are offered once it has gone.
LEMMA EatsShares ==
  ASSUME NEW o \in Order, NEW q, NEW r, NEW first, NEW m, Eats(o, q, r, first, m),
         NEW n, n = Outcome!OrderAt(q, first).qty
  PROVE  /\ n \in Nat /\ n > 0
         /\ Outcome!Share(o, q, first) = n
         /\ \A at \in Outcome!Places(r) :
              /\ Outcome!Acceptable(o, m[at][1]) <=> Outcome!Acceptable(Less(o, n), at[1])
              /\ Outcome!Share(o, q, m[at]) = Outcome!Share(Less(o, n), r, at)
<1> DEFINE d == Outcome!Opposite(o.side)
           before(x, at) == {b \in Outcome!Places(x) : Outcome!Earlier(d, b, at)}
<1>1. Moved(d, q, r, first, m) /\ Outcome!Acceptable(o, first[1]) /\ n <= o.qty
  BY DEF Eats
<1>2. /\ IsSide(q) /\ IsSide(r) /\ first \in Outcome!Places(q)
      /\ \A at \in Outcome!Places(r) : m[at] \in Outcome!Places(q) /\ m[at][1] = at[1] /\ m[at] # first
      /\ \A t \in Outcome!Places(q) : t # first => Outcome!Earlier(d, first, t)
      /\ \A a, b \in Outcome!Places(r) : Outcome!Earlier(d, a, b) <=> Outcome!Earlier(d, m[a], m[b])
      /\ \A at \in Outcome!Places(r) : Outcome!OrderAt(r, at) = Outcome!OrderAt(q, m[at])
  BY <1>1 DEF Moved
<1>3. n \in Nat /\ n > 0
  BY <1>2, SideQty
<1>4. /\ Less(o, n).qty = o.qty - n /\ Less(o, n).side = o.side /\ Less(o, n).price = o.price
      /\ o.qty \in Nat
  BY <1>1, <1>3, LessFacts, TakerFacts
<1> HIDE DEF d
<1>5. Outcome!Ahead(o, q, first) = 0
  <2>1. before(q, first) = {}
    <3>1. \A a \in Outcome!Places(q) : ~Outcome!Earlier(d, a, a)
      BY <1>2, SidePlaces, EarlierIsOrder DEF IsSide
    <3>2. \A a, b, c \in Outcome!Places(q) :
            Outcome!Earlier(d, a, b) /\ Outcome!Earlier(d, b, c) => Outcome!Earlier(d, a, c)
      BY <1>2, SidePlaces, EarlierIsOrder DEF IsSide
    <3> QED
      BY <1>2, <3>1, <3>2
  <2>2. Outcome!Ahead(o, q, first) = Outcome!Volume(q, before(q, first))
    BY DEF Outcome!Ahead, d
  <2>3. Outcome!Volume(q, {}) = 0
    BY <1>2, VolumeType
  <2> QED
    BY <2>1, <2>2, <2>3
<1>6. Outcome!Share(o, q, first) = n
  BY <1>1, <1>3, <1>4, <1>5 DEF Outcome!Share, Outcome!Smaller
<1>7. ASSUME NEW at \in Outcome!Places(r)
      PROVE  /\ Outcome!Acceptable(o, m[at][1]) <=> Outcome!Acceptable(Less(o, n), at[1])
             /\ Outcome!Share(o, q, m[at]) = Outcome!Share(Less(o, n), r, at)
  <2> DEFINE T == before(q, m[at])
             U == before(r, at)
  <2>1. T \in SUBSET Outcome!Places(q) /\ U \in SUBSET Outcome!Places(r)
    OBVIOUS
  <2>2. first \in T /\ Same(r, m, T, U)
    BY <1>2 DEF Same
  <2>3. /\ Outcome!Ahead(o, q, m[at]) = Outcome!Volume(q, T)
        /\ Outcome!Ahead(Less(o, n), r, at) = Outcome!Volume(r, U)
    BY <1>4 DEF Outcome!Ahead, d
  <2> HIDE DEF T, U
  <2>4. Outcome!Volume(q, T) = n + Outcome!Volume(r, U)
    <3>1. Outcome!Volume(q, T) = Outcome!OrderAt(q, first).qty + Outcome!Volume(r, U)
      BY ONLY <1>1, <1>2, <2>1, <2>2, MovedVolume
    <3> QED
      BY <3>1
  <2>5. Outcome!Acceptable(o, m[at][1]) <=> Outcome!Acceptable(Less(o, n), at[1])
    BY <1>2, <1>4 DEF Outcome!Acceptable
  <2>6. Outcome!OrderAt(r, at) = Outcome!OrderAt(q, m[at])
    BY <1>2
  <2>7. PICK a, b, e : /\ a = Outcome!Ahead(o, q, m[at])
                       /\ b = Outcome!Ahead(Less(o, n), r, at)
                       /\ e = Outcome!OrderAt(r, at).qty
    OBVIOUS
  <2>8. a \in Nat /\ b \in Nat /\ e \in Nat /\ a = n + b
    BY <1>2, <2>3, <2>4, <2>7, AheadType, SideQty
  <2>9. a < o.qty <=> b < o.qty - n
    BY <1>3, <1>4, <2>8
  <2>10. Outcome!Smaller(e, o.qty - a) = Outcome!Smaller(e, (o.qty - n) - b)
    <3>1. o.qty - a = (o.qty - n) - b
      BY <1>3, <1>4, <2>8
    <3> QED
      BY ONLY <3>1
  <2> QED
    BY <1>4, <2>5, <2>6, <2>7, <2>9, <2>10 DEF Outcome!Share
<1> QED
  BY <1>3, <1>6, <1>7

\* What is left over in the end is the same.
LEMMA EatsUnfilled ==
  ASSUME NEW o \in Order, NEW q, NEW r, NEW first, NEW m, Eats(o, q, r, first, m),
         NEW n, n = Outcome!OrderAt(q, first).qty
  PROVE  Outcome!Unfilled(o, q) = Outcome!Unfilled(Less(o, n), r)
<1> DEFINE T == Outcome!Eligible(o, q)
           U == Outcome!Eligible(Less(o, n), r)
<1>1. /\ n \in Nat /\ n <= o.qty
      /\ \A at \in Outcome!Places(r) :
           Outcome!Acceptable(o, m[at][1]) <=> Outcome!Acceptable(Less(o, n), at[1])
  BY EatsShares DEF Eats
<1>2. Less(o, n).qty = o.qty - n /\ o.qty \in Nat
  BY <1>1, LessFacts, TakerFacts
<1>3. PICK d : d = Outcome!Opposite(o.side)
  OBVIOUS
<1>4. Moved(d, q, r, first, m) /\ Outcome!Acceptable(o, first[1])
  BY <1>3 DEF Eats
<1>5. /\ IsSide(r) /\ first \in Outcome!Places(q)
      /\ \A at \in Outcome!Places(r) : m[at] \in Outcome!Places(q)
  BY <1>4 DEF Moved
<1>6. T \in SUBSET Outcome!Places(q) /\ U \in SUBSET Outcome!Places(r)
  BY DEF Outcome!Eligible
<1>7. first \in T /\ Same(r, m, T, U)
  BY <1>1, <1>4, <1>5 DEF Outcome!Eligible, Same
<1> HIDE DEF T, U
<1>8. Outcome!Volume(q, T) = n + Outcome!Volume(r, U)
  <2>1. Outcome!Volume(q, T) = Outcome!OrderAt(q, first).qty + Outcome!Volume(r, U)
    BY ONLY <1>4, <1>6, <1>7, MovedVolume
  <2> QED
    BY <2>1
<1>9. Outcome!Volume(r, U) \in Nat
  BY <1>5, <1>6, VolumeType
<1> QED
  BY <1>1, <1>2, <1>8, <1>9 DEF Outcome!Unfilled, T, U

-----------------------------------------------------------------------------
(* What is left of a side.                                                  *)

\* The queue at s when its first g orders have gone.
Kept(o, q, s, g) ==
  [i \in 1..(Len(q[s]) - g) |->
     [q[s][i + g] EXCEPT !.qty = @ - Outcome!Share(o, q, <<s, i + g>>)]]

\* The remainder, queue by queue.
LEMMA RemainderIs ==
  ASSUME NEW o, NEW q
  PROVE  Outcome!Remainder(o, q) =
           [s \in Prices |-> Kept(o, q, s, Cardinality(Outcome!Taken(o, q, s)))]
<1>1. Outcome!Remainder(o, q) =
        [s \in Prices |-> Kept(o, q, s, Outcome!Cardinality(Outcome!Taken(o, q, s)))]
  BY DEF Outcome!Remainder, Kept
<1> QED
  BY <1>1, OutcomeLibrary

\* No more orders are taken than there are.
LEMMA TakenFacts ==
  ASSUME NEW o, NEW q \in [Prices -> Seq(Order)], NEW s \in Prices
  PROVE  /\ Outcome!Taken(o, q, s) \subseteq 1..Len(q[s])
         /\ IsFiniteSet(Outcome!Taken(o, q, s))
         /\ Cardinality(Outcome!Taken(o, q, s)) \in Nat
         /\ Cardinality(Outcome!Taken(o, q, s)) <= Len(q[s])
         /\ Len(q[s]) \in Nat
<1>1. Len(q[s]) \in Nat /\ DOMAIN q[s] = 1..Len(q[s])
  OBVIOUS
<1>2. Outcome!Taken(o, q, s) \in SUBSET (1..Len(q[s]))
  BY <1>1 DEF Outcome!Taken
<1>3. IsFiniteSet(1..Len(q[s])) /\ Cardinality(1..Len(q[s])) = Len(q[s])
  <2>1. PICK n : n = Len(q[s])
    OBVIOUS
  <2>2. n \in Nat /\ 1 \in Int /\ n \in Int
    BY <1>1, <2>1
  <2>3. IsFiniteSet(1..n) /\ Cardinality(1..n) = IF 1 > n THEN 0 ELSE n - 1 + 1
    BY <2>2, FS_Interval
  <2> QED
    BY <2>1, <2>2, <2>3
<1> QED
  BY <1>1, <1>2, <1>3, FS_Subset, FS_CardinalityType

\* The first order at the best price p is one the taker can have whole.
Devours(o, q, p) ==
  /\ o \in Order /\ IsSide(q) /\ p \in Prices /\ q[p] # <<>>
  /\ \A s \in Prices : q[s] # <<>> => ~Outcome!Better(Outcome!Opposite(o.side), s, p)
  /\ Outcome!Acceptable(o, p)
  /\ q[p][1].qty <= o.qty

\* The side without that order.
Rest(q, p) == [q EXCEPT ![p] = Tail(q[p])]

\* The queue of that price without its head; the other queues as they are.
LEMMA DevoursQueues ==
  ASSUME NEW o, NEW q, NEW p, Devours(o, q, p)
  PROVE  /\ Len(q[p]) \in Nat /\ Len(q[p]) >= 1
         /\ Len(Rest(q, p)[p]) = Len(q[p]) - 1
         /\ \A i \in 1..(Len(q[p]) - 1) : Rest(q, p)[p][i] = q[p][i + 1]
         /\ \A s \in Prices : s # p => Rest(q, p)[s] = q[s]
         /\ Rest(q, p) \in [Prices -> Seq(Order)]
<1>1. q \in [Prices -> Seq(Order)] /\ p \in Prices /\ q[p] # <<>>
  BY DEF Devours, IsSide
<1>2. q[p] \in Seq(Order) /\ Len(q[p]) \in Nat /\ Len(q[p]) >= 1
  BY <1>1
<1>3. /\ Tail(q[p]) \in Seq(Order) /\ Len(Tail(q[p])) = Len(q[p]) - 1
      /\ \A i \in 1..(Len(q[p]) - 1) : Tail(q[p])[i] = q[p][i + 1]
  BY <1>1, <1>2
<1>4. /\ Rest(q, p) \in [Prices -> Seq(Order)]
      /\ Rest(q, p)[p] = Tail(q[p])
      /\ \A s \in Prices : s # p => Rest(q, p)[s] = q[s]
  BY <1>1, <1>3 DEF Rest
<1> QED
  BY ONLY <1>2, <1>3, <1>4

\* It is the first order of the side, and taken completely.
LEMMA DevoursEats ==
  ASSUME NEW o, NEW q, NEW p, Devours(o, q, p)
  PROVE  /\ Eats(o, q, Rest(q, p), <<p, 1>>, Shift(p, Rest(q, p)))
         /\ q[p][1].qty = Outcome!OrderAt(q, <<p, 1>>).qty
<1>1. q[p][1].qty = Outcome!OrderAt(q, <<p, 1>>).qty
  BY DEF Outcome!OrderAt
<1>2. Moved(Outcome!Opposite(o.side), q, Rest(q, p), <<p, 1>>, Shift(p, Rest(q, p)))
  BY TailMoves DEF Devours, Rest
<1> QED
  BY <1>1, <1>2 DEF Eats, Devours

\* The shares of the orders that stay, in the two sides.
LEMMA DevoursShares ==
  ASSUME NEW o, NEW q, NEW p, Devours(o, q, p),
         NEW l, l = Less(o, q[p][1].qty), NEW r, r = Rest(q, p)
  PROVE  /\ Outcome!Share(o, q, <<p, 1>>) = q[p][1].qty
         /\ \A s \in Prices : s # p =>
              \A i \in 1..Len(q[s]) : Outcome!Share(o, q, <<s, i>>) = Outcome!Share(l, r, <<s, i>>)
         /\ \A i \in 1..(Len(q[p]) - 1) :
              Outcome!Share(o, q, <<p, i + 1>>) = Outcome!Share(l, r, <<p, i>>)
<1> DEFINE m == Shift(p, r)
           n == q[p][1].qty
<1>1. /\ r \in [Prices -> Seq(Order)]
      /\ Len(r[p]) = Len(q[p]) - 1
      /\ \A s \in Prices : s # p => r[s] = q[s]
      /\ n = Outcome!OrderAt(q, <<p, 1>>).qty
      /\ Eats(o, q, r, <<p, 1>>, m)
      /\ o \in Order /\ p \in Prices
  <2>1. /\ r \in [Prices -> Seq(Order)]
        /\ Len(r[p]) = Len(q[p]) - 1
        /\ \A s \in Prices : s # p => r[s] = q[s]
    BY DevoursQueues
  <2>2. n = Outcome!OrderAt(q, <<p, 1>>).qty /\ Eats(o, q, r, <<p, 1>>, m)
    BY DevoursEats
  <2>3. o \in Order /\ p \in Prices
    BY DEF Devours
  <2> QED
    BY ONLY <2>1, <2>2, <2>3
<1>2. \A s \in Prices : \A i \in 1..Len(r[s]) :
        /\ <<s, i>> \in Outcome!Places(r)
        /\ m[<<s, i>>] = IF s = p THEN <<p, i + 1>> ELSE <<s, i>>
  <2>1. \A s \in Prices : \A i \in 1..Len(r[s]) : <<s, i>> \in Outcome!Places(r)
    BY Zenon, <1>1, SidePlaces
  <2> QED
    BY Zenon, <2>1 DEF Shift
<1> HIDE DEF m, n
<1>3. /\ Outcome!Share(o, q, <<p, 1>>) = n
      /\ \A at \in Outcome!Places(r) : Outcome!Share(o, q, m[at]) = Outcome!Share(Less(o, n), r, at)
  BY SMTT(30), <1>1, EatsShares
<1>4. \A s \in Prices : \A i \in 1..Len(r[s]) :
        Outcome!Share(o, q, IF s = p THEN <<p, i + 1>> ELSE <<s, i>>) = Outcome!Share(l, r, <<s, i>>)
  <2> SUFFICES ASSUME NEW s \in Prices, NEW i \in 1..Len(r[s])
               PROVE  Outcome!Share(o, q, IF s = p THEN <<p, i + 1>> ELSE <<s, i>>)
                        = Outcome!Share(l, r, <<s, i>>)
    BY Zenon
  <2>1. l = Less(o, n)
    BY DEF n
  <2>2. Outcome!Share(o, q, m[<<s, i>>]) = Outcome!Share(l, r, <<s, i>>)
    BY <1>2, <1>3, <2>1
  <2> QED
    BY <1>2, <2>2
<1>5. ASSUME NEW s \in Prices, s # p, NEW i \in 1..Len(q[s])
      PROVE  Outcome!Share(o, q, <<s, i>>) = Outcome!Share(l, r, <<s, i>>)
  <2>1. i \in 1..Len(r[s])
    BY <1>1, <1>5
  <2> QED
    BY <1>4, <1>5, <2>1
<1>6. ASSUME NEW i \in 1..(Len(q[p]) - 1)
      PROVE  Outcome!Share(o, q, <<p, i + 1>>) = Outcome!Share(l, r, <<p, i>>)
  <2>1. i \in 1..Len(r[p])
    BY <1>1
  <2> QED
    BY <1>1, <1>4, <2>1
<1> QED
  BY <1>3, <1>5, <1>6 DEF n

\* What is left is the same, whether the first order goes before or with the
\* others.
LEMMA DevoursRemainder ==
  ASSUME NEW o, NEW q, NEW p, Devours(o, q, p),
         NEW l, l = Less(o, q[p][1].qty), NEW r, r = Rest(q, p)
  PROVE  Outcome!Remainder(o, q) = Outcome!Remainder(l, r)
<1> DEFINE T(s) == Outcome!Taken(o, q, s)
           U(s) == Outcome!Taken(l, r, s)
<1>1. /\ q \in [Prices -> Seq(Order)] /\ r \in [Prices -> Seq(Order)] /\ p \in Prices
      /\ Len(q[p]) \in Nat /\ Len(q[p]) >= 1 /\ Len(r[p]) = Len(q[p]) - 1
      /\ \A i \in 1..(Len(q[p]) - 1) : r[p][i] = q[p][i + 1]
      /\ \A s \in Prices : s # p => r[s] = q[s]
      /\ \A s \in Prices : DOMAIN q[s] = 1..Len(q[s]) /\ DOMAIN r[s] = 1..Len(r[s])
  <2>1. q \in [Prices -> Seq(Order)] /\ r \in [Prices -> Seq(Order)] /\ p \in Prices
    BY DevoursQueues DEF Devours, IsSide
  <2>2. \A s \in Prices : DOMAIN q[s] = 1..Len(q[s]) /\ DOMAIN r[s] = 1..Len(r[s])
    BY <2>1
  <2>3. /\ Len(q[p]) \in Nat /\ Len(q[p]) >= 1
        /\ Len(Rest(q, p)[p]) = Len(q[p]) - 1
        /\ \A i \in 1..(Len(q[p]) - 1) : Rest(q, p)[p][i] = q[p][i + 1]
        /\ \A s \in Prices : s # p => Rest(q, p)[s] = q[s]
    BY DevoursQueues
  <2>4. r = Rest(q, p)
    OBVIOUS
  <2> QED
    BY ONLY <2>1, <2>2, <2>3, <2>4
<1>2. /\ Outcome!Share(o, q, <<p, 1>>) = q[p][1].qty
      /\ \A s \in Prices : s # p =>
           \A i \in 1..Len(q[s]) : Outcome!Share(o, q, <<s, i>>) = Outcome!Share(l, r, <<s, i>>)
      /\ \A i \in 1..(Len(q[p]) - 1) :
           Outcome!Share(o, q, <<p, i + 1>>) = Outcome!Share(l, r, <<p, i>>)
  BY DevoursShares
<1>3. ASSUME NEW s \in Prices
      PROVE  Kept(o, q, s, Cardinality(T(s))) = Kept(l, r, s, Cardinality(U(s)))
  <2>0. /\ T(s) \subseteq 1..Len(q[s]) /\ IsFiniteSet(T(s)) /\ Cardinality(T(s)) \in Nat
        /\ U(s) \subseteq 1..Len(r[s]) /\ IsFiniteSet(U(s)) /\ Cardinality(U(s)) \in Nat
        /\ Len(q[s]) \in Nat /\ Len(r[s]) \in Nat
    BY <1>1, TakenFacts
  <2>1. CASE s # p
    <3>1. r[s] = q[s]
      BY <1>1, <2>1
    <3>2. T(s) = U(s)
      BY <1>1, <1>2, <2>1, <3>1 DEF Outcome!Taken
    <3>3. PICK g : g = Cardinality(T(s))
      OBVIOUS
    <3>4. g \in Nat
      BY <2>0, <3>3
    <3>5. \A i \in 1..(Len(q[s]) - g) : i + g \in 1..Len(q[s])
      BY <2>0, <3>4
    <3>6. \A i \in 1..(Len(q[s]) - g) :
            Outcome!Share(o, q, <<s, i + g>>) = Outcome!Share(l, r, <<s, i + g>>)
      BY <1>2, <2>1, <3>5
    <3>7. Kept(o, q, s, g) = Kept(l, r, s, g)
      BY <3>1, <3>6 DEF Kept
    <3> QED
      BY <3>2, <3>3, <3>7
  <2>2. CASE s = p
    <3> DEFINE k == [i \in U(p) |-> i + 1]
    <3>1. \A i \in U(p) : i \in 1..(Len(q[p]) - 1) /\ i \in Nat /\ i + 1 \in 1..Len(q[p])
      BY <1>1, <2>0, <2>2
    <3>2. \A i \in 1..(Len(q[p]) - 1) : i + 1 \in T(p) <=> i \in U(p)
      <4> SUFFICES ASSUME NEW i \in 1..(Len(q[p]) - 1)
                   PROVE  i + 1 \in T(p) <=> i \in U(p)
        OBVIOUS
      <4>1. /\ i + 1 \in DOMAIN q[p] /\ i \in DOMAIN r[p] /\ r[p][i] = q[p][i + 1]
            /\ Outcome!Share(o, q, <<p, i + 1>>) = Outcome!Share(l, r, <<p, i>>)
        BY <1>1, <1>2
      <4> QED
        BY <4>1 DEF Outcome!Taken
    <3>3. 1 \in T(p)
      <4>1. 1 \in DOMAIN q[p]
        BY <1>1
      <4> QED
        BY <1>2, <4>1 DEF Outcome!Taken
    <3>4. \A i \in U(p) : i + 1 \in T(p) \ {1}
      BY <3>1, <3>2
    <3>5. \A j \in T(p) : j # 1 => \E i \in U(p) : i + 1 = j
      <4> SUFFICES ASSUME NEW j \in T(p), j # 1
                   PROVE  \E i \in U(p) : i + 1 = j
        OBVIOUS
      <4>1. j \in 1..Len(q[p])
        BY <2>0, <2>2
      <4>2. j - 1 \in 1..(Len(q[p]) - 1) /\ (j - 1) + 1 = j
        BY <1>1, <4>1
      <4> QED
        BY <3>2, <4>2
    <3>6. k \in Bijection(U(p), T(p) \ {1})
      <4>1. k \in [U(p) -> T(p) \ {1}] /\ \A i \in U(p) : k[i] = i + 1
        BY <3>4
      <4> HIDE DEF k, T, U
      <4>2. \A i, j \in U(p) : k[i] = k[j] => i = j
        BY <3>1, <4>1
      <4> QED
        BY <3>5, <4>1, <4>2 DEF Bijection, Injection, Surjection, IsInjective
    <3> HIDE DEF k, T, U
    <3>7. Cardinality(T(p) \ {1}) = Cardinality(U(p))
      BY <2>0, <2>2, <3>6, RenamedCardinality
    <3>8. Cardinality(T(p) \ {1}) = Cardinality(T(p)) - 1
      BY <2>0, <2>2, <3>3, FS_RemoveElement
    <3>9. PICK g : g = Cardinality(U(p))
      OBVIOUS
    <3>10. g \in Nat /\ Cardinality(T(p)) = g + 1
      BY <2>0, <2>2, <3>7, <3>8, <3>9
    <3>11. Len(q[p]) - (g + 1) = Len(r[p]) - g /\ Len(r[p]) = Len(q[p]) - 1
      BY <1>1, <3>10
    <3>12. ASSUME NEW i \in 1..(Len(r[p]) - g)
           PROVE  /\ q[p][i + (g + 1)] = r[p][i + g]
                  /\ Outcome!Share(o, q, <<p, i + (g + 1)>>) = Outcome!Share(l, r, <<p, i + g>>)
      <4>1. PICK j : j = i + g
        OBVIOUS
      <4>2. j \in 1..(Len(q[p]) - 1) /\ i + (g + 1) = j + 1
        BY <1>1, <3>10, <4>1
      <4> QED
        BY <1>1, <1>2, <4>1, <4>2
    <3>13. Kept(o, q, p, g + 1) = Kept(l, r, p, g)
      BY <3>11, <3>12 DEF Kept
    <3> QED
      BY <2>2, <3>9, <3>10, <3>13
  <2> QED
    BY <2>1, <2>2
<1> HIDE DEF T, U
<1>4. [s \in Prices |-> Kept(o, q, s, Cardinality(T(s)))]
        = [s \in Prices |-> Kept(l, r, s, Cardinality(U(s)))]
  BY <1>3
<1> QED
  BY <1>4, RemainderIs DEF T, U

-----------------------------------------------------------------------------
(* The fill lines.                                                          *)


\* Lines are fill lines.
LEMMA LinesType ==
  ASSUME NEW o \in Order, NEW q, IsSide(q), NEW at \in Outcome!Places(q)
  PROVE  Outcome!Lines(o, q, at) \in Seq(FillRecs)
<1> DEFINE a == Outcome!FillLine(Outcome!OrderAt(q, at).id, Outcome!Share(o, q, at), at[1])
           b == Outcome!FillLine(o.id, Outcome!Share(o, q, at), at[1])
<1>1. /\ Outcome!OrderAt(q, at).id \in OrderIds /\ o.id \in OrderIds
      /\ Outcome!Share(o, q, at) \in Nat /\ at[1] \in Prices
  <2>1. Outcome!OrderAt(q, at) \in Order /\ at[1] \in Prices
    BY SidePlaces DEF IsSide
  <2>2. \A ord \in Order : ord.id \in OrderIds
    BY DEF Order
  <2> QED
    BY <2>1, <2>2, ShareType
<1>2. a \in FillRecs /\ b \in FillRecs
  BY <1>1 DEF Outcome!FillLine, FillRecs
<1>3. Outcome!Lines(o, q, at) = <<a, b>> \/ Outcome!Lines(o, q, at) = <<b, a>>
  BY DEF Outcome!Lines
<1> HIDE DEF a, b
<1>4. <<a, b>> \in Seq(FillRecs) /\ <<b, a>> \in Seq(FillRecs)
  BY <1>2
<1> QED
  BY <1>3, <1>4

\* The lines of each turn.
TurnLines(o, q) ==
  [k \in 1..Cardinality(Outcome!Traded(o, q)) |->
     Outcome!Lines(o, q, Outcome!InTurn(Outcome!Opposite(o.side), Outcome!Traded(o, q))[k])]

\* Only places of the side are traded with.
LEMMA TradedFacts ==
  ASSUME NEW o, NEW q, IsSide(q)
  PROVE  /\ Outcome!Traded(o, q) \in SUBSET Outcome!Places(q)
         /\ Outcome!Traded(o, q) \subseteq Prices \X Nat
         /\ IsFiniteSet(Outcome!Traded(o, q))
<1>1. Outcome!Traded(o, q) \in SUBSET Outcome!Places(q)
  BY DEF Outcome!Traded
<1>2. Outcome!Places(q) \subseteq Prices \X Nat
  BY SidePlaces DEF IsSide
<1>3. IsFiniteSet(Outcome!Traded(o, q))
  BY <1>1, FS_Subset DEF IsSide
<1> QED
  BY <1>1, <1>2, <1>3

\* The executions are the lines of the traded places, one after another.
LEMMA ExecutionsAre ==
  ASSUME NEW o \in Order, NEW q, IsSide(q)
  PROVE  /\ TurnLines(o, q) \in Seq(Seq(FillRecs))
         /\ Len(TurnLines(o, q)) = Cardinality(Outcome!Traded(o, q))
         /\ Cardinality(Outcome!Traded(o, q)) \in Nat
         /\ Outcome!Executions(o, q) = FlattenSeq(TurnLines(o, q))
         /\ Outcome!Executions(o, q) \in Seq(FillRecs)
<1>1. PICK d : d = Outcome!Opposite(o.side)
  OBVIOUS
<1>2. PICK T : T = Outcome!Traded(o, q)
  OBVIOUS
<1>3. T \in SUBSET Outcome!Places(q) /\ T \subseteq Prices \X Nat /\ IsFiniteSet(T)
  BY <1>2, TradedFacts
<1>4. /\ Cardinality(T) \in Nat /\ DOMAIN Outcome!InTurn(d, T) = 1..Cardinality(T)
      /\ \A n \in 1..Cardinality(T) : Outcome!InTurn(d, T)[n] \in T
  BY <1>3, TurnFacts
<1>5. \A n \in 1..Cardinality(T) : Outcome!Lines(o, q, Outcome!InTurn(d, T)[n]) \in Seq(FillRecs)
  BY <1>3, <1>4, LinesType
<1>6. TurnLines(o, q) = [k \in 1..Cardinality(T) |-> Outcome!Lines(o, q, Outcome!InTurn(d, T)[k])]
  BY <1>1, <1>2 DEF TurnLines
<1>7. TurnLines(o, q) \in Seq(Seq(FillRecs)) /\ Len(TurnLines(o, q)) = Cardinality(T)
  <2>1. PICK n \in Nat : n = Cardinality(T)
    BY <1>4
  <2> DEFINE L(k) == Outcome!Lines(o, q, Outcome!InTurn(d, T)[k])
  <2>2. \A k \in 1..n : L(k) \in Seq(FillRecs)
    BY <1>5, <2>1
  <2>3. TurnLines(o, q) = [k \in 1..n |-> L(k)]
    BY <1>6, <2>1
  <2> HIDE DEF L
  <2>4. TurnLines(o, q) \in [1..n -> Seq(FillRecs)]
    BY <2>2, <2>3
  <2> QED
    BY <2>1, <2>4
<1>8. Outcome!Executions(o, q) = FlattenSeq(TurnLines(o, q))
  <2>1. Outcome!Executions(o, q) =
          Outcome!FlattenSeq([n \in DOMAIN Outcome!InTurn(d, T) |->
                                Outcome!Lines(o, q, Outcome!InTurn(d, T)[n])])
    BY <1>1, <1>2 DEF Outcome!Executions
  <2>2. Outcome!Executions(o, q) = Outcome!FlattenSeq(TurnLines(o, q))
    BY <1>4, <1>6, <2>1
  <2> QED
    BY <2>2, OutcomeLibrary
<1> QED
  BY <1>2, <1>4, <1>7, <1>8, FlattenType

\* The order that is taken first is reported first, and then the others are.
LEMMA EatsExecutions ==
  ASSUME NEW o \in Order, NEW q, NEW r, NEW first, NEW m, Eats(o, q, r, first, m),
         NEW n, n = Outcome!OrderAt(q, first).qty
  PROVE  Outcome!Executions(o, q) = Outcome!Lines(o, q, first) \o Outcome!Executions(Less(o, n), r)
<1>1. PICK d : d = Outcome!Opposite(o.side)
  OBVIOUS
<1>2. Moved(d, q, r, first, m) /\ n <= o.qty
  BY <1>1 DEF Eats
<1>3. /\ IsSide(q) /\ IsSide(r) /\ first \in Outcome!Places(q)
      /\ \A at \in Outcome!Places(r) :
           /\ m[at] \in Outcome!Places(q) /\ m[at] # first /\ m[at][1] = at[1]
           /\ Outcome!OrderAt(r, at) = Outcome!OrderAt(q, m[at])
      /\ \A t \in Outcome!Places(q) : t # first => Outcome!Earlier(d, first, t)
      /\ \A a, b \in Outcome!Places(r) : Outcome!Earlier(d, a, b) <=> Outcome!Earlier(d, m[a], m[b])
  BY <1>2 DEF Moved
<1>4. /\ n \in Nat /\ n > 0
      /\ Outcome!Share(o, q, first) = n
      /\ \A at \in Outcome!Places(r) : Outcome!Share(o, q, m[at]) = Outcome!Share(Less(o, n), r, at)
  BY EatsShares
<1>5. PICK l : l = Less(o, n)
  OBVIOUS
<1>6. l \in Order /\ l.id = o.id /\ l.side = o.side
  BY <1>2, <1>4, <1>5, LessFacts
<1>7. PICK T, U : T = Outcome!Traded(o, q) /\ U = Outcome!Traded(l, r)
  OBVIOUS
<1>8. /\ T \in SUBSET Outcome!Places(q) /\ U \in SUBSET Outcome!Places(r)
      /\ T \subseteq Prices \X Nat /\ U \subseteq Prices \X Nat
      /\ IsFiniteSet(T) /\ IsFiniteSet(U)
  BY <1>3, <1>7, TradedFacts
<1>9. first \in T /\ Same(r, m, T, U)
  <2>1. first \in T
    BY <1>3, <1>4, <1>7 DEF Outcome!Traded
  <2>2. \A at \in Outcome!Places(r) : at \in U <=> m[at] \in T
    BY <1>3, <1>4, <1>5, <1>7 DEF Outcome!Traded
  <2> QED
    BY <2>1, <2>2 DEF Same
<1> DEFINE k == [u \in U |-> m[u]]
<1>10. k \in Bijection(U, T \ {first})
  BY <1>2, <1>8, <1>9, MovedParts
<1>11. Leads(d, T, U, first, k)
  <2>1. \A u \in U : k[u] = m[u] /\ u \in Outcome!Places(r)
    BY <1>8
  <2>2. \A a, b \in U : Outcome!Earlier(d, a, b) <=> Outcome!Earlier(d, k[a], k[b])
    BY <1>3, <2>1
  <2>3. \A b \in T \ {first} : Outcome!Earlier(d, first, b)
    BY <1>3, <1>8
  <2> HIDE DEF k
  <2> QED
    BY <1>9, <1>10, <2>2, <2>3 DEF Leads
<1>12. \A u \in U : k[u] = m[u]
  OBVIOUS
<1> HIDE DEF k
<1>13. /\ Cardinality(T) = Cardinality(U) + 1
       /\ Outcome!InTurn(d, T)[1] = first
       /\ \A i \in 1..Cardinality(U) :
            Outcome!InTurn(d, T)[i + 1] = k[Outcome!InTurn(d, U)[i]]
  <2>1. Follows(d, T, U, first, k)
    BY <1>8, <1>11, TurnHead
  <2> QED
    BY ONLY <2>1 DEF Follows
<1>14. \A i \in 1..Cardinality(U) : Outcome!InTurn(d, U)[i] \in U
  BY <1>8, TurnFacts
<1>15. /\ TurnLines(o, q) \in Seq(Seq(FillRecs)) /\ Len(TurnLines(o, q)) = Cardinality(T)
       /\ TurnLines(l, r) \in Seq(Seq(FillRecs)) /\ Len(TurnLines(l, r)) = Cardinality(U)
       /\ Cardinality(U) \in Nat
       /\ Outcome!Executions(o, q) = FlattenSeq(TurnLines(o, q))
       /\ Outcome!Executions(l, r) = FlattenSeq(TurnLines(l, r))
  BY <1>3, <1>6, <1>7, ExecutionsAre
<1>16. /\ TurnLines(o, q) = [i \in 1..Cardinality(T) |-> Outcome!Lines(o, q, Outcome!InTurn(d, T)[i])]
       /\ TurnLines(l, r) = [i \in 1..Cardinality(U) |-> Outcome!Lines(l, r, Outcome!InTurn(d, U)[i])]
  BY <1>1, <1>6, <1>7 DEF TurnLines
<1>17. TurnLines(o, q)[1] = Outcome!Lines(o, q, first)
  <2>1. 1 \in 1..Cardinality(T)
    BY <1>13, <1>15
  <2> QED
    BY <1>13, <1>16, <2>1
<1>18. ASSUME NEW u \in U
       PROVE  Outcome!Lines(o, q, m[u]) = Outcome!Lines(l, r, u)
  <2>1. u \in Outcome!Places(r)
    BY <1>8
  <2>2. /\ Outcome!Share(o, q, m[u]) = Outcome!Share(l, r, u)
        /\ Outcome!OrderAt(r, u) = Outcome!OrderAt(q, m[u])
        /\ m[u][1] = u[1]
    BY <1>3, <1>4, <1>5, <2>1
  <2> QED
    BY <1>6, <2>2 DEF Outcome!Lines, Outcome!FillLine
<1>19. ASSUME NEW i \in 1..Cardinality(U)
       PROVE  TurnLines(o, q)[i + 1] = TurnLines(l, r)[i]
  <2>1. PICK j : j = i + 1
    OBVIOUS
  <2>2. j \in 1..Cardinality(T)
    BY <1>13, <1>15, <2>1
  <2>3. PICK u : u = Outcome!InTurn(d, U)[i]
    OBVIOUS
  <2>4. u \in U /\ k[u] = m[u]
    BY <1>12, <1>14, <2>3
  <2>5. TurnLines(o, q)[j] = Outcome!Lines(o, q, m[u])
    BY <1>13, <1>16, <2>1, <2>2, <2>3, <2>4
  <2>6. TurnLines(l, r)[i] = Outcome!Lines(l, r, u)
    BY <1>16, <2>3
  <2> QED
    BY <1>18, <2>1, <2>4, <2>5, <2>6
<1>20. FlattenSeq(TurnLines(o, q)) = TurnLines(o, q)[1] \o FlattenSeq(TurnLines(l, r))
  <2>1. Len(TurnLines(o, q)) = Len(TurnLines(l, r)) + 1
    BY <1>13, <1>15
  <2>2. \A i \in 1..Len(TurnLines(l, r)) : TurnLines(o, q)[i + 1] = TurnLines(l, r)[i]
    BY <1>15, <1>19
  <2> QED
    BY <1>15, <2>1, <2>2, FlattenHead
<1> QED
  BY <1>5, <1>15, <1>17, <1>20

-----------------------------------------------------------------------------
(* A taker that takes no order whole.                                       *)

\* Where no share is a whole order, every order stays, less its share.
LEMMA NoneTaken ==
  ASSUME NEW o \in Order, NEW q, IsSide(q),
         \A at \in Outcome!Places(q) : Outcome!Share(o, q, at) < Outcome!OrderAt(q, at).qty
  PROVE  Outcome!Remainder(o, q) =
           [s \in Prices |-> [i \in 1..Len(q[s]) |->
              [q[s][i] EXCEPT !.qty = @ - Outcome!Share(o, q, <<s, i>>)]]]
<1>1. q \in [Prices -> Seq(Order)]
  BY DEF IsSide
<1>2. ASSUME NEW s \in Prices
      PROVE  /\ Cardinality(Outcome!Taken(o, q, s)) = 0
             /\ Len(q[s]) \in Nat
  <2>1. Len(q[s]) \in Nat /\ DOMAIN q[s] = 1..Len(q[s])
    BY <1>1
  <2>2. ASSUME NEW i \in DOMAIN q[s]
        PROVE  Outcome!Share(o, q, <<s, i>>) # q[s][i].qty
    <3>1. <<s, i>> \in Outcome!Places(q)
      BY <1>1, <2>1, SidePlaces
    <3>2. Outcome!OrderAt(q, <<s, i>>).qty = q[s][i].qty
      BY DEF Outcome!OrderAt
    <3>3. Outcome!Share(o, q, <<s, i>>) \in Nat /\ q[s][i].qty \in Nat
      BY <3>1, <3>2, ShareType, SideQty
    <3>4. Outcome!Share(o, q, <<s, i>>) < q[s][i].qty
      BY <3>1, <3>2
    <3> QED
      BY <3>3, <3>4
  <2>3. Outcome!Taken(o, q, s) = {}
    BY <2>2 DEF Outcome!Taken
  <2> QED
    BY <2>1, <2>3, FS_EmptySet
<1>3. ASSUME NEW s \in Prices
      PROVE  Kept(o, q, s, Cardinality(Outcome!Taken(o, q, s))) =
               [i \in 1..Len(q[s]) |-> [q[s][i] EXCEPT !.qty = @ - Outcome!Share(o, q, <<s, i>>)]]
  <2>1. Kept(o, q, s, 0) =
          [i \in 1..Len(q[s]) |-> [q[s][i] EXCEPT !.qty = @ - Outcome!Share(o, q, <<s, i>>)]]
    <3>1. Len(q[s]) - 0 = Len(q[s]) /\ \A i \in 1..Len(q[s]) : i + 0 = i
      BY <1>2
    <3> QED
      BY <3>1 DEF Kept
  <2> QED
    BY <1>2, <2>1
<1> QED
  BY <1>3, RemainderIs

\* Nothing taken off an order.
LEMMA NothingOff ==
  ASSUME NEW ord \in Order
  PROVE  [ord EXCEPT !.qty = @ - 0] = ord
<1>1. ord.qty \in Nat /\ ord.qty - 0 = ord.qty
  BY EngineAssumption DEF Order
<1> QED
  BY <1>1 DEF Order

\* A taker that wants nothing, or can have nothing, leaves the side alone.
LEMMA Untouched ==
  ASSUME NEW o \in Order, NEW q, IsSide(q),
         \A at \in Outcome!Places(q) : Outcome!Share(o, q, at) = 0
  PROVE  Outcome!Remainder(o, q) = q /\ Outcome!Executions(o, q) = <<>>
<1>1. q \in [Prices -> Seq(Order)]
  BY DEF IsSide
<1>2. \A at \in Outcome!Places(q) : Outcome!Share(o, q, at) < Outcome!OrderAt(q, at).qty
  BY SideQty
<1>3. ASSUME NEW s \in Prices
      PROVE  [i \in 1..Len(q[s]) |-> [q[s][i] EXCEPT !.qty = @ - Outcome!Share(o, q, <<s, i>>)]]
               = q[s]
  <2>1. q[s] \in Seq(Order) /\ q[s] = [i \in 1..Len(q[s]) |-> q[s][i]]
    BY <1>1
  <2>2. ASSUME NEW i \in 1..Len(q[s])
        PROVE  [q[s][i] EXCEPT !.qty = @ - Outcome!Share(o, q, <<s, i>>)] = q[s][i]
    <3>1. <<s, i>> \in Outcome!Places(q) /\ q[s][i] \in Order
      BY <1>1, <2>1, SidePlaces
    <3>2. Outcome!Share(o, q, <<s, i>>) = 0
      BY <3>1
    <3> QED
      BY <3>1, <3>2, NothingOff
  <2> QED
    BY <2>1, <2>2
<1>4. Outcome!Remainder(o, q) = [s \in Prices |-> q[s]]
  <2> DEFINE N(s) == [i \in 1..Len(q[s]) |->
                        [q[s][i] EXCEPT !.qty = @ - Outcome!Share(o, q, <<s, i>>)]]
  <2>1. Outcome!Remainder(o, q) = [s \in Prices |-> N(s)]
    BY <1>2, NoneTaken
  <2>2. \A s \in Prices : N(s) = q[s]
    BY <1>3
  <2> HIDE DEF N
  <2> QED
    BY <2>1, <2>2
<1>5. Outcome!Executions(o, q) = <<>>
  <2>1. Outcome!Traded(o, q) = {}
    BY DEF Outcome!Traded
  <2>2. /\ TurnLines(o, q) \in Seq(Seq(FillRecs)) /\ Len(TurnLines(o, q)) = 0
        /\ Outcome!Executions(o, q) = FlattenSeq(TurnLines(o, q))
    BY <2>1, ExecutionsAre, FS_EmptySet
  <2>3. TurnLines(o, q) = <<>>
    BY <2>2
  <2> QED
    BY <2>2, <2>3, FlattenType
<1> QED
  BY <1>1, <1>4, <1>5

\* A taker whose quantity is used up.
LEMMA WantsNothing ==
  ASSUME NEW o \in Order, NEW q, IsSide(q), o.qty = 0
  PROVE  /\ Outcome!Remainder(o, q) = q /\ Outcome!Executions(o, q) = <<>>
         /\ Outcome!Unfilled(o, q) = 0
<1>1. \A at \in Outcome!Places(q) : Outcome!Share(o, q, at) = 0
  <2>1. \A at \in Outcome!Places(q) : ~(Outcome!Ahead(o, q, at) < o.qty)
    BY AheadType
  <2> QED
    BY <2>1 DEF Outcome!Share
<1>2. PICK T : T = Outcome!Eligible(o, q)
  OBVIOUS
<1>3. T \in SUBSET Outcome!Places(q)
  BY <1>2 DEF Outcome!Eligible
<1>4. Outcome!Volume(q, T) \in Nat
  BY <1>3, VolumeType
<1>5. Outcome!Unfilled(o, q) = 0
  BY <1>2, <1>4 DEF Outcome!Unfilled
<1> QED
  BY <1>1, <1>5, Untouched

\* A taker that accepts no price there is.
LEMMA AcceptsNothing ==
  ASSUME NEW o \in Order, NEW q, IsSide(q),
         \A at \in Outcome!Places(q) : ~Outcome!Acceptable(o, at[1])
  PROVE  /\ Outcome!Remainder(o, q) = q /\ Outcome!Executions(o, q) = <<>>
         /\ Outcome!Unfilled(o, q) = o.qty
<1>1. \A at \in Outcome!Places(q) : Outcome!Share(o, q, at) = 0
  BY DEF Outcome!Share
<1>2. Outcome!Eligible(o, q) = {}
  BY DEF Outcome!Eligible
<1>3. Outcome!Volume(q, {}) = 0 /\ o.qty \in Nat
  BY VolumeType, TakerFacts
<1>4. Outcome!Unfilled(o, q) = o.qty
  BY <1>2, <1>3 DEF Outcome!Unfilled
<1> QED
  BY <1>1, <1>4, Untouched

\* The first order at the best price p has more than the taker wants.
Nibbles(o, q, p) ==
  /\ o \in Order /\ IsSide(q) /\ p \in Prices /\ q[p] # <<>>
  /\ \A s \in Prices : q[s] # <<>> => ~Outcome!Better(Outcome!Opposite(o.side), s, p)
  /\ Outcome!Acceptable(o, p)
  /\ o.qty > 0 /\ o.qty < q[p][1].qty

\* The first order gives all that is wanted, the others nothing.
LEMMA NibblesShares ==
  ASSUME NEW o, NEW q, NEW p, Nibbles(o, q, p)
  PROVE  /\ <<p, 1>> \in Outcome!Places(q)
         /\ Outcome!Share(o, q, <<p, 1>>) = o.qty
         /\ \A at \in Outcome!Places(q) : at # <<p, 1>> => Outcome!Share(o, q, at) = 0
         /\ Outcome!Unfilled(o, q) = 0
<1>1. /\ o \in Order /\ IsSide(q) /\ o.qty \in Nat /\ o.qty > 0
      /\ Outcome!Acceptable(o, p)
  BY TakerFacts DEF Nibbles
<1>2. PICK d : d = Outcome!Opposite(o.side)
  OBVIOUS
<1>3. PICK first : first = <<p, 1>>
  OBVIOUS
<1>4. Moved(d, q, Rest(q, p), first, Shift(p, Rest(q, p)))
  BY <1>2, <1>3, TailMoves DEF Nibbles, Rest
<1>5. /\ first \in Outcome!Places(q)
      /\ \A t \in Outcome!Places(q) : t # first => Outcome!Earlier(d, first, t)
  BY <1>4 DEF Moved
<1>6. /\ Outcome!OrderAt(q, first).qty \in Nat /\ o.qty < Outcome!OrderAt(q, first).qty
      /\ Outcome!Acceptable(o, first[1])
  <2>1. Outcome!OrderAt(q, first).qty = q[p][1].qty
    BY <1>3 DEF Outcome!OrderAt
  <2>2. Outcome!OrderAt(q, first).qty \in Nat
    BY <1>1, <1>5, SideQty
  <2> QED
    BY <1>3, <2>1, <2>2 DEF Nibbles
<1>7. Outcome!Ahead(o, q, first) = 0
  <2>1. /\ \A a \in Outcome!Places(q) : ~Outcome!Earlier(d, a, a)
        /\ \A a, b, c \in Outcome!Places(q) :
             Outcome!Earlier(d, a, b) /\ Outcome!Earlier(d, b, c) => Outcome!Earlier(d, a, c)
    BY <1>1, SidePlaces, EarlierIsOrder DEF IsSide
  <2>2. {b \in Outcome!Places(q) : Outcome!Earlier(d, b, first)} = {}
    BY <1>5, <2>1
  <2>3. Outcome!Volume(q, {}) = 0
    BY <1>1, VolumeType
  <2> QED
    BY <1>2, <2>2, <2>3 DEF Outcome!Ahead
<1>8. Outcome!Share(o, q, first) = o.qty
  BY <1>1, <1>6, <1>7 DEF Outcome!Share, Outcome!Smaller
<1>9. ASSUME NEW at \in Outcome!Places(q), at # first
      PROVE  Outcome!Share(o, q, at) = 0
  <2>1. PICK T : T = {b \in Outcome!Places(q) : Outcome!Earlier(d, b, at)}
    OBVIOUS
  <2>2. T \in SUBSET Outcome!Places(q) /\ first \in T
    BY <1>5, <1>9, <2>1
  <2>3. Outcome!Ahead(o, q, at) = Outcome!Volume(q, T)
    BY <1>2, <2>1 DEF Outcome!Ahead
  <2>4. Outcome!Volume(q, T) >= Outcome!OrderAt(q, first).qty /\ Outcome!Volume(q, T) \in Nat
    BY <1>1, <2>2, VolumeOneOut, VolumeType
  <2>5. ~(Outcome!Ahead(o, q, at) < o.qty)
    BY <1>1, <1>6, <2>3, <2>4
  <2> QED
    BY <2>5 DEF Outcome!Share
<1>10. Outcome!Unfilled(o, q) = 0
  <2>1. PICK T : T = Outcome!Eligible(o, q)
    OBVIOUS
  <2>2. T \in SUBSET Outcome!Places(q) /\ first \in T
    BY <1>5, <1>6, <2>1 DEF Outcome!Eligible
  <2>3. Outcome!Volume(q, T) >= Outcome!OrderAt(q, first).qty /\ Outcome!Volume(q, T) \in Nat
    BY <1>1, <2>2, VolumeOneOut, VolumeType
  <2> QED
    BY <1>1, <1>6, <2>1, <2>3 DEF Outcome!Unfilled
<1> QED
  BY <1>3, <1>5, <1>8, <1>9, <1>10

\* Only the first order is smaller afterwards.
LEMMA NibblesRemainder ==
  ASSUME NEW o, NEW q, NEW p, Nibbles(o, q, p)
  PROVE  Outcome!Remainder(o, q) = [q EXCEPT ![p] = [q[p] EXCEPT ![1].qty = @ - o.qty]]
<1>1. /\ o \in Order /\ IsSide(q) /\ q \in [Prices -> Seq(Order)] /\ o.qty \in Nat
      /\ p \in Prices /\ q[p] # <<>> /\ o.qty < q[p][1].qty
  BY TakerFacts DEF Nibbles, IsSide
<1>2. /\ Outcome!Share(o, q, <<p, 1>>) = o.qty
      /\ \A at \in Outcome!Places(q) : at # <<p, 1>> => Outcome!Share(o, q, at) = 0
      /\ <<p, 1>> \in Outcome!Places(q)
  BY NibblesShares
<1>3. ASSUME NEW at \in Outcome!Places(q)
      PROVE  Outcome!Share(o, q, at) < Outcome!OrderAt(q, at).qty
  <2>1. Outcome!OrderAt(q, at).qty \in Nat /\ Outcome!OrderAt(q, at).qty > 0
    BY <1>1, SideQty
  <2>2. CASE at = <<p, 1>>
    BY <1>1, <1>2, <2>2 DEF Outcome!OrderAt
  <2>3. CASE at # <<p, 1>>
    BY <1>2, <2>1, <2>3
  <2> QED
    BY <2>2, <2>3
<1> DEFINE N(s) == [i \in 1..Len(q[s]) |->
                      [q[s][i] EXCEPT !.qty = @ - Outcome!Share(o, q, <<s, i>>)]]
           X == [q[p] EXCEPT ![1].qty = @ - o.qty]
<1>4. Outcome!Remainder(o, q) = [s \in Prices |-> N(s)]
  BY <1>1, <1>3, NoneTaken
<1>5. ASSUME NEW s \in Prices, NEW i \in 1..Len(q[s]), s # p \/ i # 1
      PROVE  [q[s][i] EXCEPT !.qty = @ - Outcome!Share(o, q, <<s, i>>)] = q[s][i]
  <2>1. <<s, i>> \in Outcome!Places(q) /\ q[s][i] \in Order /\ <<s, i>> # <<p, 1>>
    BY <1>1, <1>5, SidePlaces
  <2>2. Outcome!Share(o, q, <<s, i>>) = 0
    BY <1>2, <2>1
  <2> QED
    BY <2>1, <2>2, NothingOff
<1>6. ASSUME NEW s \in Prices, s # p
      PROVE  N(s) = q[s]
  <2>1. N(s) = [i \in 1..Len(q[s]) |-> q[s][i]]
    BY <1>5, <1>6
  <2>2. q[s] = [i \in 1..Len(q[s]) |-> q[s][i]]
    BY <1>1
  <2> QED
    BY <2>1, <2>2
<1>7. N(p) = X
  <2>1. q[p] \in Seq(Order) /\ 1 \in 1..Len(q[p])
    BY <1>1
  <2>2. X = [i \in 1..Len(q[p]) |-> IF i = 1 THEN [q[p][1] EXCEPT !.qty = @ - o.qty] ELSE q[p][i]]
    BY <2>1
  <2>3. ASSUME NEW i \in 1..Len(q[p])
        PROVE  [q[p][i] EXCEPT !.qty = @ - Outcome!Share(o, q, <<p, i>>)]
                 = IF i = 1 THEN [q[p][1] EXCEPT !.qty = @ - o.qty] ELSE q[p][i]
    BY <1>1, <1>2, <1>5
  <2> QED
    BY <2>2, <2>3
<1> HIDE DEF N, X
<1>8. [s \in Prices |-> N(s)] = [q EXCEPT ![p] = X]
  <2>1. [q EXCEPT ![p] = X] = [s \in Prices |-> IF s = p THEN X ELSE q[s]]
    BY <1>1
  <2> QED
    BY <1>6, <1>7, <2>1
<1> QED
  BY <1>4, <1>8 DEF X

\* Only the first order is reported.
LEMMA NibblesExecutions ==
  ASSUME NEW o, NEW q, NEW p, Nibbles(o, q, p)
  PROVE  Outcome!Executions(o, q) = Outcome!Lines(o, q, <<p, 1>>)
<1>1. o \in Order /\ IsSide(q) /\ o.qty > 0
  BY DEF Nibbles
<1>2. PICK first : first = <<p, 1>>
  OBVIOUS
<1>3. /\ first \in Outcome!Places(q) /\ Outcome!Share(o, q, first) = o.qty
      /\ \A at \in Outcome!Places(q) : at # first => Outcome!Share(o, q, at) = 0
  BY <1>2, NibblesShares
<1>4. Outcome!Traded(o, q) = {first}
  BY <1>1, <1>3 DEF Outcome!Traded
<1>5. PICK d : d = Outcome!Opposite(o.side)
  OBVIOUS
<1>6. IsFiniteSet({first}) /\ Cardinality({first}) = 1 /\ {first} \subseteq Prices \X Nat
  BY <1>1, <1>4, FS_Singleton, TradedFacts
<1>7. Outcome!InTurn(d, {first})[1] = first
  <2>1. \A n \in 1..Cardinality({first}) : Outcome!InTurn(d, {first})[n] \in {first}
    BY <1>6, TurnFacts
  <2>2. 1 \in 1..Cardinality({first})
    BY <1>6
  <2> QED
    BY <2>1, <2>2
<1>8. /\ TurnLines(o, q) \in Seq(Seq(FillRecs)) /\ Len(TurnLines(o, q)) = 1
      /\ Outcome!Executions(o, q) = FlattenSeq(TurnLines(o, q))
  BY <1>1, <1>4, <1>6, ExecutionsAre
<1>9. TurnLines(o, q)[1] = Outcome!Lines(o, q, first)
  <2>1. 1 \in 1..Cardinality({first})
    BY <1>6
  <2> QED
    BY <1>4, <1>5, <1>7, <2>1 DEF TurnLines
<1>10. <<>> \in Seq(Seq(FillRecs)) /\ Len(<<>>) = 0
  OBVIOUS
<1>11. FlattenSeq(TurnLines(o, q)) = TurnLines(o, q)[1] \o FlattenSeq(<<>>)
  <2>1. PICK e : e = <<>>
    OBVIOUS
  <2>2. PICK t : t = TurnLines(o, q)
    OBVIOUS
  <2>3. /\ t \in Seq(Seq(FillRecs)) /\ e \in Seq(Seq(FillRecs)) /\ Len(t) = Len(e) + 1
        /\ \A i \in 1..Len(e) : t[i + 1] = e[i]
    BY <1>8, <1>10, <2>1, <2>2
  <2>4. FlattenSeq(t) = t[1] \o FlattenSeq(e)
    BY ONLY <2>3, FlattenHead
  <2> QED
    BY <2>1, <2>2, <2>4
<1>12. FlattenSeq(<<>>) = <<>>
  BY <1>10, FlattenType
<1>13. Outcome!Lines(o, q, first) \in Seq(FillRecs)
  BY <1>1, <1>3, LinesType
<1>14. Outcome!Lines(o, q, first) \o <<>> = Outcome!Lines(o, q, first)
  BY <1>13
<1> QED
  BY <1>2, <1>8, <1>9, <1>11, <1>12, <1>14

-----------------------------------------------------------------------------
(* The queues of the books.                                                 *)

\* The queues of all the books.
BookQueues == [s \in Symbols |-> [side \in Sides |-> Queues(s, side)]]

\* An empty level is no level.
LEMMA QueueFacts ==
  ASSUME BookOK, NEW s \in Symbols, NEW d \in Sides
  PROVE  /\ BookQueues[s][d] = Queues(s, d)
         /\ Queues(s, d) \in [Prices -> Seq(Order)]
         /\ \A p \in DOMAIN book[s][d] : p \in Prices /\ Queues(s, d)[p] = book[s][d][p]
         /\ \A p \in Prices : p \notin DOMAIN book[s][d] => Queues(s, d)[p] = <<>>
<1>1. \A p \in Prices : LevelAt(book[s][d], p) \in Seq(Order)
  BY LevelFacts DEF LevelAt
<1>2. Queues(s, d) \in [Prices -> Seq(Order)]
  BY <1>1 DEF Queues
<1>3. \A p \in DOMAIN book[s][d] : p \in Prices /\ Queues(s, d)[p] = book[s][d][p]
  BY LevelFacts DEF Queues, LevelAt
<1>4. \A p \in Prices : p \notin DOMAIN book[s][d] => Queues(s, d)[p] = <<>>
  BY DEF Queues, LevelAt
<1> QED
  BY <1>2, <1>3, <1>4 DEF BookQueues

\* A step of the engine stores one queue.
LEMMA QueuesEdit ==
  ASSUME BookOK, NEW s \in Symbols, NEW d \in Sides, NEW p \in Prices,
         NEW q \in Seq(Order), Edit(s, d, p, q)
  PROVE  BookQueues' = [BookQueues EXCEPT ![s][d] = [Queues(s, d) EXCEPT ![p] = q]]
<1>1. /\ p \in DOMAIN book'[s][d] <=> q # <<>>
      /\ q # <<>> => book'[s][d][p] = q
      /\ \A t \in Symbols, e \in Sides, r \in Prices :
           t # s \/ e # d \/ r # p =>
             /\ r \in DOMAIN book'[t][e] <=> r \in DOMAIN book[t][e]
             /\ r \in DOMAIN book[t][e] => book'[t][e][r] = book[t][e][r]
  BY EditFacts
<1>2. /\ LevelAt(book'[s][d], p) = q
      /\ \A t \in Symbols, e \in Sides, r \in Prices :
           t # s \/ e # d \/ r # p => LevelAt(book'[t][e], r) = LevelAt(book[t][e], r)
  BY <1>1 DEF LevelAt
<1>3. BookQueues' = [t \in Symbols |-> [e \in Sides |-> [r \in Prices |-> LevelAt(book'[t][e], r)]]]
  BY DEF BookQueues, Queues
<1>4. BookQueues = [t \in Symbols |-> [e \in Sides |-> [r \in Prices |-> LevelAt(book[t][e], r)]]]
  BY DEF BookQueues, Queues
<1>5. [BookQueues EXCEPT ![s][d] = [Queues(s, d) EXCEPT ![p] = q]] =
        [t \in Symbols |-> [e \in Sides |-> [r \in Prices |->
           IF t = s /\ e = d /\ r = p THEN q ELSE LevelAt(book[t][e], r)]]]
  BY <1>4 DEF Queues
<1>6. \A t \in Symbols, e \in Sides, r \in Prices :
        LevelAt(book'[t][e], r) = IF t = s /\ e = d /\ r = p THEN q ELSE LevelAt(book[t][e], r)
  BY <1>2
<1>7. BookQueues' =
        [t \in Symbols |-> [e \in Sides |-> [r \in Prices |->
           IF t = s /\ e = d /\ r = p THEN q ELSE LevelAt(book[t][e], r)]]]
  BY ONLY <1>3, <1>6
<1> QED
  BY ONLY <1>5, <1>7

\* The same, its hypotheses and its conclusion each one predicate.
Changes(s, d, p, q) ==
  /\ BookOK /\ s \in Symbols /\ d \in Sides /\ p \in Prices /\ q \in Seq(Order)
  /\ Edit(s, d, p, q)

ChangedTo(s, d, p, q) ==
  BookQueues' = [BookQueues EXCEPT ![s][d] = [Queues(s, d) EXCEPT ![p] = q]]

LEMMA QueuesChange ==
  ASSUME NEW s, NEW d, NEW p, NEW q, Changes(s, d, p, q)
  PROVE  ChangedTo(s, d, p, q)
<1>1. /\ BookOK /\ s \in Symbols /\ d \in Sides /\ p \in Prices /\ q \in Seq(Order)
      /\ Edit(s, d, p, q)
  BY DEF Changes
<1>2. BookQueues' = [BookQueues EXCEPT ![s][d] = [Queues(s, d) EXCEPT ![p] = q]]
  BY ONLY ZenonT(30), <1>1, QueuesEdit
<1> QED
  BY <1>2 DEF ChangedTo

\* Only finitely many orders rest, and while the loop runs the results are the
\* lines of its fills.
Bounded ==
  /\ IsFiniteSet(DOMAIN orders)
  /\ incoming # NoOrder => results \in Seq(FillRecs)

\* Under the invariants each side of each book is a side.
LEMMA QueuesAreSides ==
  ASSUME IInv, IsFiniteSet(DOMAIN orders), NEW s \in Symbols, NEW d \in Sides
  PROVE  IsSide(BookQueues[s][d])
<1>1. PICK q : q = Queues(s, d)
  OBVIOUS
<1>2. /\ BookQueues[s][d] = q /\ q \in [Prices -> Seq(Order)]
      /\ \A p \in DOMAIN book[s][d] : p \in Prices /\ q[p] = book[s][d][p]
      /\ \A p \in Prices : p \notin DOMAIN book[s][d] => q[p] = <<>>
  BY <1>1, QueueFacts, Disassemble
<1>3. ASSUME NEW at \in Outcome!Places(q)
      PROVE  \E p \in DOMAIN book[s][d] : \E i \in DOMAIN book[s][d][p] :
               at = <<p, i>> /\ Outcome!OrderAt(q, at) = book[s][d][p][i]
  <2>1. PICK p \in Prices : \E i \in 1..Len(q[p]) : at = <<p, i>> /\ Outcome!OrderAt(q, at) = q[p][i]
    BY <1>2, SidePlaces
  <2>2. PICK i \in 1..Len(q[p]) : at = <<p, i>> /\ Outcome!OrderAt(q, at) = q[p][i]
    BY <2>1
  <2>3. DOMAIN q[p] = 1..Len(q[p]) /\ q[p] # <<>>
    BY <1>2
  <2>4. p \in DOMAIN book[s][d] /\ q[p] = book[s][d][p]
    BY <1>2, <2>3
  <2>5. i \in DOMAIN book[s][d][p]
    BY <2>3, <2>4
  <2> QED
    BY <2>2, <2>4, <2>5
<1> DEFINE f == [at \in Outcome!Places(q) |-> Outcome!OrderAt(q, at).id]
<1>4. RestingIsIndexed
  BY Disassemble
<1>5. f \in [Outcome!Places(q) -> DOMAIN orders]
  <2> SUFFICES ASSUME NEW at \in Outcome!Places(q)
               PROVE  Outcome!OrderAt(q, at).id \in DOMAIN orders
    OBVIOUS
  <2>1. PICK p \in DOMAIN book[s][d] : \E i \in DOMAIN book[s][d][p] :
           at = <<p, i>> /\ Outcome!OrderAt(q, at) = book[s][d][p][i]
    BY <1>3
  <2>2. PICK i \in DOMAIN book[s][d][p] : Outcome!OrderAt(q, at) = book[s][d][p][i]
    BY <2>1
  <2>3. IndexedAt(orders, book[s][d][p][i], s, d, p)
    BY SMTT(30), <1>4, IndexedFacts
  <2> QED
    BY <2>2, <2>3 DEF IndexedAt
<1>6. ASSUME NEW a \in Outcome!Places(q), NEW b \in Outcome!Places(q), f[a] = f[b]
      PROVE  a = b
  <2>1. PICK p \in DOMAIN book[s][d] : \E i \in DOMAIN book[s][d][p] :
           a = <<p, i>> /\ Outcome!OrderAt(q, a) = book[s][d][p][i]
    BY <1>3
  <2>2. PICK i \in DOMAIN book[s][d][p] : a = <<p, i>> /\ Outcome!OrderAt(q, a) = book[s][d][p][i]
    BY <2>1
  <2>3. PICK r \in DOMAIN book[s][d] : \E j \in DOMAIN book[s][d][r] :
           b = <<r, j>> /\ Outcome!OrderAt(q, b) = book[s][d][r][j]
    BY <1>3
  <2>4. PICK j \in DOMAIN book[s][d][r] : b = <<r, j>> /\ Outcome!OrderAt(q, b) = book[s][d][r][j]
    BY <2>3
  <2>5. book[s][d][p][i].id = book[s][d][r][j].id
    BY <1>6, <2>2, <2>4
  <2>6. orders[book[s][d][p][i].id].price = p /\ orders[book[s][d][r][j].id].price = r
    BY SMTT(30), <1>4, IndexedFacts
  <2>7. p = r
    BY <2>5, <2>6
  <2>8. i = j
    BY <1>4, <2>5, <2>7, UniqueIds
  <2> QED
    BY <2>2, <2>4, <2>7, <2>8
<1>7. IsFiniteSet(Outcome!Places(q))
  <2> HIDE DEF f
  <2>1. f \in Injection(Outcome!Places(q), DOMAIN orders)
    BY <1>5, <1>6 DEF Injection, IsInjective
  <2> QED
    BY <2>1, FS_Injection
<1>8. \A at \in Outcome!Places(q) : Outcome!OrderAt(q, at).qty > 0
  <2> SUFFICES ASSUME NEW at \in Outcome!Places(q)
               PROVE  Outcome!OrderAt(q, at).qty > 0
    OBVIOUS
  <2>1. PICK p \in DOMAIN book[s][d] : \E i \in DOMAIN book[s][d][p] :
           Outcome!OrderAt(q, at) = book[s][d][p][i]
    BY <1>3
  <2> QED
    BY <2>1, Disassemble DEF NoEmptyEntries
<1> QED
  BY <1>2, <1>7, <1>8 DEF IsSide

-----------------------------------------------------------------------------
(* What the loop is going to leave behind.                                  *)

\* The queue of the taker's own side, with what is left of it.
Joined(o, left, q) ==
  IF left = 0 THEN q ELSE [q EXCEPT ![o.price] = Append(@, [o EXCEPT !.qty = left])]

SettledBy(o, queues) ==
  [s \in Symbols |-> [side \in Sides |->
     IF s # o.sym THEN queues[s][side]
     ELSE IF side # o.side THEN Outcome!Remainder(o, queues[s][Opposite(o.side)])
     ELSE Joined(o, Outcome!Unfilled(o, queues[s][Opposite(o.side)]), queues[s][side])]]

SettledIs ==
  /\ incoming = NoOrder => SettledQueue = BookQueues
  /\ incoming \in Order => SettledQueue = SettledBy(incoming, BookQueues)

LEMMA SettledQueueIs == SettledIs
<1>1. incoming = NoOrder => SettledQueue = BookQueues
  BY DEF SettledQueue, BookQueues
<1>2. ASSUME incoming \in Order
      PROVE  SettledQueue = SettledBy(incoming, BookQueues)
  <2>1. PICK o, d : o = incoming /\ d = Opposite(incoming.side)
    OBVIOUS
  <2>2. /\ o \in Order /\ o # NoOrder /\ o.sym \in Symbols /\ o.side \in Sides /\ d \in Sides
    BY <1>2, <2>1, TakerFacts, EngineAssumption
  <2>3. BookQueues[o.sym][d] = Queues(o.sym, d) /\ Across = Queues(o.sym, d)
    BY <2>1, <2>2 DEF BookQueues, Across
  <2>4. \A s \in Symbols, side \in Sides : BookQueues[s][side] = Queues(s, side)
    BY DEF BookQueues
  <2>5. SettledQueue =
          [s \in Symbols |-> [side \in Sides |->
             IF s = o.sym THEN Settled(side) ELSE Queues(s, side)]]
    BY <2>1, <2>2 DEF SettledQueue
  <2>6. ASSUME NEW side \in Sides
        PROVE  Settled(side) =
                 IF side # o.side THEN Outcome!Remainder(o, Queues(o.sym, d))
                 ELSE Joined(o, Outcome!Unfilled(o, Queues(o.sym, d)), Queues(o.sym, side))
    <3>1. Settled(side) =
            IF side # o.side THEN Outcome!Remainder(o, Queues(o.sym, d))
            ELSE IF Outcome!Unfilled(o, Queues(o.sym, d)) = 0 THEN Queues(o.sym, side)
            ELSE Outcome!Join([o EXCEPT !.qty = Outcome!Unfilled(o, Queues(o.sym, d))],
                              Queues(o.sym, side))
      BY <2>1, <2>3 DEF Settled
    <3>2. \A left, q : Outcome!Join([o EXCEPT !.qty = left], q) =
                         [q EXCEPT ![o.price] = Append(@, [o EXCEPT !.qty = left])]
      <4>1. \A left : [o EXCEPT !.qty = left].price = o.price
        BY <2>2 DEF Order
      <4> QED
        BY <4>1 DEF Outcome!Join
    <3> QED
      BY <3>1, <3>2 DEF Joined
  <2>7. \A s \in Symbols, side \in Sides :
          (IF s = o.sym THEN Settled(side) ELSE Queues(s, side)) =
            IF s # o.sym THEN BookQueues[s][side]
            ELSE IF side # o.side THEN Outcome!Remainder(o, BookQueues[s][d])
            ELSE Joined(o, Outcome!Unfilled(o, BookQueues[s][d]), BookQueues[s][side])
    BY <2>2, <2>3, <2>4, <2>6
  <2>8. SettledQueue =
          [s \in Symbols |-> [side \in Sides |->
            IF s # o.sym THEN BookQueues[s][side]
            ELSE IF side # o.side THEN Outcome!Remainder(o, BookQueues[s][d])
            ELSE Joined(o, Outcome!Unfilled(o, BookQueues[s][d]), BookQueues[s][side])]]
    BY <2>5, <2>7
  <2> QED
    BY <2>1, <2>8 DEF SettledBy
<1> QED
  BY <1>1, <1>2 DEF SettledIs

LEMMA SettledQueueIsNext == SettledIs'
BY SettledQueueIs, PTL

-----------------------------------------------------------------------------
(* One specification, used twice.                                           *)

\* The helpers of the specification say the same wherever it is used.
LEMMA MarketPlaces ==
  /\ Market!Sides = Sides
  /\ \A side : Market!Opposite(side) = Outcome!Opposite(side)
  /\ \A side, p, q : Market!Better(side, p, q) <=> Outcome!Better(side, p, q)
  /\ \A o, p : Market!Acceptable(o, p) <=> Outcome!Acceptable(o, p)
  /\ \A q : Market!Places(q) = Outcome!Places(q)
  /\ \A q, at : Market!OrderAt(q, at) = Outcome!OrderAt(q, at)
  /\ \A side, a, b : Market!Earlier(side, a, b) <=> Outcome!Earlier(side, a, b)
BY DEF Market!Sides, Sides, Market!Opposite, Outcome!Opposite, Market!Better, Outcome!Better,
       Market!Acceptable, Outcome!Acceptable, Market!Places, Outcome!Places, Market!OrderAt,
       Outcome!OrderAt, Market!Earlier, Outcome!Earlier

LEMMA MarketLibrary ==
  /\ \A S : Market!Cardinality(S) = Outcome!Cardinality(S)
  /\ \A q : Market!FlattenSeq(q) = Outcome!FlattenSeq(q)
  /\ \A q, i : Market!RemoveAt(q, i) = RemoveAt(q, i)
<1>1. \A S : Market!Cardinality(S) = Outcome!Cardinality(S)
  BY DEF Market!Cardinality, Outcome!Cardinality
<1>2. \A q : Market!FlattenSeq(q) = Outcome!FlattenSeq(q)
  BY DEF Market!FlattenSeq, Outcome!FlattenSeq
<1>3. \A q, i : Market!RemoveAt(q, i) = RemoveAt(q, i)
  BY DEF Market!RemoveAt, RemoveAt
<1> QED
  BY <1>1, <1>2, <1>3

\* Volumes, and from them shares, remainders and executions, do not depend on
\* the instance.
LEMMA MarketVolume ==
  ASSUME NEW q, NEW T
  PROVE  Market!Volume(q, T) = Outcome!Volume(q, T)
<1>1. [at \in T |-> Market!OrderAt(q, at).qty] = [at \in T |-> Outcome!OrderAt(q, at).qty]
  BY MarketPlaces
<1>2. \A w : Market!FoldFunction(+, 0, w) = Outcome!FoldFunction(+, 0, w)
  BY DEF Market!FoldFunction, Market!FoldFunctionOnSet, Market!MapThenFoldSet,
         Outcome!FoldFunction, Outcome!FoldFunctionOnSet, Outcome!MapThenFoldSet
<1> QED
  BY Zenon, <1>1, <1>2 DEF Market!Volume, Outcome!Volume

LEMMA MarketShare ==
  ASSUME NEW o, NEW q
  PROVE  /\ Market!Unfilled(o, q) = Outcome!Unfilled(o, q)
         /\ \A at : Market!Share(o, q, at) = Outcome!Share(o, q, at)
<1>1. Market!Unfilled(o, q) = Outcome!Unfilled(o, q)
  <2>1. Market!Eligible(o, q) = Outcome!Eligible(o, q)
    BY MarketPlaces DEF Market!Eligible, Outcome!Eligible
  <2> QED
    BY <2>1, MarketVolume DEF Market!Unfilled, Outcome!Unfilled
<1>2. ASSUME NEW at
      PROVE  Market!Share(o, q, at) = Outcome!Share(o, q, at)
  <2>1. {b \in Market!Places(q) : Market!Earlier(Market!Opposite(o.side), b, at)}
          = {b \in Outcome!Places(q) : Outcome!Earlier(Outcome!Opposite(o.side), b, at)}
    BY MarketPlaces
  <2>2. Market!Ahead(o, q, at) = Outcome!Ahead(o, q, at)
    BY <2>1, MarketVolume DEF Market!Ahead, Outcome!Ahead
  <2> QED
    BY <2>2, MarketPlaces DEF Market!Share, Outcome!Share, Market!Smaller, Outcome!Smaller
<1> QED
  BY <1>1, <1>2

LEMMA MarketRemainder ==
  ASSUME NEW o, NEW q
  PROVE  Market!Remainder(o, q) = Outcome!Remainder(o, q)
<1> DEFINE KeptBy(s, g) ==
             [i \in 1..(Len(q[s]) - g) |->
                [q[s][i + g] EXCEPT !.qty = @ - Market!Share(o, q, <<s, i + g>>)]]
<1>1. \A s : Market!Taken(o, q, s) = Outcome!Taken(o, q, s)
  BY MarketShare DEF Market!Taken, Outcome!Taken
<1>2. Market!Remainder(o, q) = [s \in Prices |-> KeptBy(s, Market!Cardinality(Market!Taken(o, q, s)))]
  BY DEF Market!Remainder
<1>3. \A s, g : KeptBy(s, g) = Kept(o, q, s, g)
  BY MarketShare DEF Kept
<1> HIDE DEF KeptBy
<1>4. \A s : KeptBy(s, Market!Cardinality(Market!Taken(o, q, s))) =
              Kept(o, q, s, Cardinality(Outcome!Taken(o, q, s)))
  BY <1>1, <1>3, MarketLibrary, OutcomeLibrary
<1> QED
  BY <1>2, <1>4, RemainderIs

LEMMA MarketExecutions ==
  ASSUME NEW o, NEW q
  PROVE  Market!Executions(o, q) = Outcome!Executions(o, q)
<1>1. \A at : Market!Lines(o, q, at) = Outcome!Lines(o, q, at)
  BY MarketShare, MarketPlaces
     DEF Market!Lines, Outcome!Lines, Market!FillLine, Outcome!FillLine
<1>2. Market!Traded(o, q) = Outcome!Traded(o, q)
  BY MarketShare, MarketPlaces DEF Market!Traded, Outcome!Traded
<1>3. ASSUME NEW d, NEW T
      PROVE  Market!InTurn(d, T) = Outcome!InTurn(d, T)
  <2> DEFINE rank(at) == Market!Cardinality({b \in T : Market!Earlier(d, b, at)})
  <2>1. \A at : {b \in T : Market!Earlier(d, b, at)} = {b \in T : Outcome!Earlier(d, b, at)}
    BY MarketPlaces
  <2>2. \A at : rank(at) = Rank(d, T, at)
    BY <2>1, MarketLibrary DEF Rank
  <2>3. Market!InTurn(d, T) =
          [n \in 1..Market!Cardinality(T) |-> CHOOSE at \in T : rank(at) = n - 1]
    BY DEF Market!InTurn
  <2>4. Outcome!InTurn(d, T) =
          [n \in 1..Outcome!Cardinality(T) |-> CHOOSE at \in T : Rank(d, T, at) = n - 1]
    BY DEF Outcome!InTurn, Rank
  <2>5. Market!Cardinality(T) = Outcome!Cardinality(T)
    BY MarketLibrary
  <2> HIDE DEF rank
  <2>6. \A n : (CHOOSE at \in T : rank(at) = n - 1) = (CHOOSE at \in T : Rank(d, T, at) = n - 1)
    BY <2>2
  <2> QED
    BY <2>3, <2>4, <2>5, <2>6
<1>4. PICK d, T : d = Outcome!Opposite(o.side) /\ T = Outcome!Traded(o, q)
  OBVIOUS
<1>5. PICK turn : turn = Outcome!InTurn(d, T)
  OBVIOUS
<1>6. Market!Executions(o, q) =
        Market!FlattenSeq([n \in DOMAIN turn |-> Market!Lines(o, q, turn[n])])
  BY <1>2, <1>3, <1>4, <1>5, MarketPlaces DEF Market!Executions
<1>7. Outcome!Executions(o, q) =
        Outcome!FlattenSeq([n \in DOMAIN turn |-> Outcome!Lines(o, q, turn[n])])
  BY <1>4, <1>5 DEF Outcome!Executions
<1> QED
  BY <1>1, <1>6, <1>7, MarketLibrary

-----------------------------------------------------------------------------
(* What is settled stays so.                                                *)

\* A side for each book.
IsMarket(Q) ==
  /\ Q = [s \in Symbols |-> [side \in Sides |-> Q[s][side]]]
  /\ \A s \in Symbols, side \in Sides : IsSide(Q[s][side])

\* Nothing wanted any more: nothing will change.
LEMMA SettledOfDone ==
  ASSUME NEW o \in Order, NEW Q, IsMarket(Q), o.qty = 0
  PROVE  /\ SettledBy(o, Q) = Q
         /\ Outcome!Executions(o, Q[o.sym][Opposite(o.side)]) = <<>>
<1>1. PICK d : d = Opposite(o.side)
  OBVIOUS
<1>2. o.sym \in Symbols /\ o.side \in Sides /\ d \in Sides
  BY <1>1, TakerFacts
<1>3. PICK q : q = Q[o.sym][d]
  OBVIOUS
<1>4. IsSide(q)
  BY <1>2, <1>3 DEF IsMarket
<1>5. /\ Outcome!Remainder(o, q) = q /\ Outcome!Executions(o, q) = <<>>
      /\ Outcome!Unfilled(o, q) = 0
  BY <1>4, WantsNothing
<1>6. ASSUME NEW s \in Symbols, NEW side \in Sides
      PROVE  (IF s # o.sym THEN Q[s][side]
              ELSE IF side # o.side THEN Outcome!Remainder(o, Q[s][d])
              ELSE Joined(o, Outcome!Unfilled(o, Q[s][d]), Q[s][side])) = Q[s][side]
  <2>1. side # o.side => side = d
    BY <1>1, <1>2 DEF Opposite, Sides
  <2> QED
    BY <1>3, <1>5, <2>1 DEF Joined
<1>7. SettledBy(o, Q) = [s \in Symbols |-> [side \in Sides |-> Q[s][side]]]
  BY <1>1, <1>6 DEF SettledBy
<1>8. Q = [s \in Symbols |-> [side \in Sides |-> Q[s][side]]]
  BY DEF IsMarket
<1> QED
  BY <1>1, <1>3, <1>5, <1>7, <1>8

\* q is the side d the order meets.
Meets(o, Q, d, q) ==
  o \in Order /\ IsMarket(Q) /\ d = Opposite(o.side) /\ q = Q[o.sym][d]

\* The market with another queue function for one side.
Stored(Q, s, d, q) == [Q EXCEPT ![s][d] = q]

\* The first order of the other side leaves: what will be left is the same.
LEMMA SettledOfDevours ==
  ASSUME NEW o, NEW Q, NEW d, NEW q, Meets(o, Q, d, q), NEW p, Devours(o, q, p)
  PROVE  SettledBy(o, Q) = SettledBy(Less(o, q[p][1].qty), Stored(Q, o.sym, d, Rest(q, p)))
<1>0. PICK l, R : l = Less(o, q[p][1].qty) /\ R = [Q EXCEPT ![o.sym][d] = Rest(q, p)]
  OBVIOUS
<1>01. o \in Order /\ IsMarket(Q) /\ d = Opposite(o.side) /\ q = Q[o.sym][d]
  BY DEF Meets
<1>1. o.sym \in Symbols /\ o.side \in Sides /\ d \in Sides /\ d # o.side
  BY <1>01, TakerFacts DEF Opposite, Sides
<1>2. PICK n : n = q[p][1].qty
  OBVIOUS
<1>3. PICK r : r = Rest(q, p)
  OBVIOUS
<1>4. Eats(o, q, r, <<p, 1>>, Shift(p, r)) /\ n = Outcome!OrderAt(q, <<p, 1>>).qty
  BY <1>2, <1>3, DevoursEats
<1>5. n \in Nat /\ n <= o.qty
  BY <1>01, <1>2, <1>4, EatsShares DEF Devours
<1>6. l \in Order /\ l.sym = o.sym /\ l.side = o.side /\ l.price = o.price
  BY Zenon, <1>0, <1>01, <1>2, <1>5, LessFacts
<1>7. Outcome!Remainder(o, q) = Outcome!Remainder(l, r)
  BY <1>0, <1>3, DevoursRemainder
<1>8. Outcome!Unfilled(o, q) = Outcome!Unfilled(l, r)
  BY <1>0, <1>01, <1>2, <1>4, EatsUnfilled
<1>9. \A s \in Symbols, side \in Sides :
        R[s][side] = IF s = o.sym /\ side = d THEN r ELSE Q[s][side]
  <2>1. Q = [s \in Symbols |-> [side \in Sides |-> Q[s][side]]]
    BY <1>01 DEF IsMarket
  <2> QED
    BY <1>0, <1>1, <1>3, <2>1
<1>10. \A left, own : Joined(o, left, own) = Joined(l, left, own)
  <2>1. \A left : [o EXCEPT !.qty = left] = [l EXCEPT !.qty = left]
    BY <1>0, <1>01, <1>2 DEF Less, Order
  <2> QED
    BY <1>6, <2>1 DEF Joined
<1>11. R[o.sym][d] = r /\ Q[o.sym][d] = q
  BY <1>01, <1>1, <1>9
<1>12. ASSUME NEW s \in Symbols, NEW side \in Sides
       PROVE  (IF s # o.sym THEN Q[s][side]
               ELSE IF side # o.side THEN Outcome!Remainder(o, Q[s][d])
               ELSE Joined(o, Outcome!Unfilled(o, Q[s][d]), Q[s][side]))
              = (IF s # o.sym THEN R[s][side]
                 ELSE IF side # o.side THEN Outcome!Remainder(l, R[s][d])
                 ELSE Joined(l, Outcome!Unfilled(l, R[s][d]), R[s][side]))
  <2>1. CASE s # o.sym
    BY <1>9, <2>1
  <2>2. CASE s = o.sym /\ side # o.side
    BY <1>7, <1>11, <2>2
  <2>3. CASE s = o.sym /\ side = o.side
    <3>1. R[s][side] = Q[s][side]
      BY <1>1, <1>9, <2>3
    <3>2. Outcome!Unfilled(o, Q[s][d]) = Outcome!Unfilled(l, R[s][d])
      BY <1>8, <1>11, <2>3
    <3> QED
      BY <1>10, <2>3, <3>1, <3>2
  <2> QED
    BY <2>1, <2>2, <2>3
<1>13. SettledBy(o, Q) =
         [s \in Symbols |-> [side \in Sides |->
            IF s # o.sym THEN Q[s][side]
            ELSE IF side # o.side THEN Outcome!Remainder(o, Q[s][d])
            ELSE Joined(o, Outcome!Unfilled(o, Q[s][d]), Q[s][side])]]
  BY <1>01 DEF SettledBy
<1>14. SettledBy(l, R) =
         [s \in Symbols |-> [side \in Sides |->
            IF s # o.sym THEN R[s][side]
            ELSE IF side # o.side THEN Outcome!Remainder(l, R[s][d])
            ELSE Joined(l, Outcome!Unfilled(l, R[s][d]), R[s][side])]]
  <2>1. PICK sym, mine, over : sym = l.sym /\ mine = l.side /\ over = Opposite(l.side)
    OBVIOUS
  <2>2. SettledBy(l, R) =
          [s \in Symbols |-> [side \in Sides |->
             IF s # sym THEN R[s][side]
             ELSE IF side # mine THEN Outcome!Remainder(l, R[s][over])
             ELSE Joined(l, Outcome!Unfilled(l, R[s][over]), R[s][side])]]
    BY ONLY <2>1 DEF SettledBy
  <2>3. sym = o.sym /\ mine = o.side /\ over = d
    BY <1>01, <1>6, <2>1
  <2> QED
    BY ONLY <2>2, <2>3
<1> QED
  BY ONLY <1>0, <1>12, <1>13, <1>14 DEF Stored

\* The first order of the other side is only reduced.
LEMMA SettledOfNibbles ==
  ASSUME NEW o, NEW Q, NEW d, NEW q, Meets(o, Q, d, q), NEW p, Nibbles(o, q, p),
         NEW r, r = [q EXCEPT ![p] = [q[p] EXCEPT ![1].qty = @ - o.qty]]
  PROVE  SettledBy(o, Q) = Stored(Q, o.sym, d, r)
<1>0. o \in Order /\ IsMarket(Q) /\ d = Opposite(o.side) /\ q = Q[o.sym][d]
  BY DEF Meets
<1>1. o.sym \in Symbols /\ o.side \in Sides /\ d \in Sides /\ d # o.side
  BY <1>0, TakerFacts DEF Opposite, Sides
<1>3. Outcome!Remainder(o, q) = r /\ Outcome!Unfilled(o, q) = 0
  <2>1. Outcome!Remainder(o, q) = [q EXCEPT ![p] = [q[p] EXCEPT ![1].qty = @ - o.qty]]
    BY NibblesRemainder
  <2>2. Outcome!Unfilled(o, q) = 0
    BY NibblesShares
  <2> QED
    BY <2>1, <2>2
<1>4. ASSUME NEW s \in Symbols, NEW side \in Sides
      PROVE  (IF s # o.sym THEN Q[s][side]
              ELSE IF side # o.side THEN Outcome!Remainder(o, Q[s][d])
              ELSE Joined(o, Outcome!Unfilled(o, Q[s][d]), Q[s][side]))
             = IF s = o.sym /\ side = d THEN r ELSE Q[s][side]
  <2>1. side # o.side <=> side = d
    BY <1>1 DEF Sides
  <2> QED
    BY <1>0, <1>3, <2>1 DEF Joined
<1>5. SettledBy(o, Q) = [s \in Symbols |-> [side \in Sides |->
                           IF s = o.sym /\ side = d THEN r ELSE Q[s][side]]]
  <2>1. d = Opposite(o.side)
    BY <1>0
  <2>2. SettledBy(o, Q) =
          [s \in Symbols |-> [side \in Sides |->
             IF s # o.sym THEN Q[s][side]
             ELSE IF side # o.side THEN Outcome!Remainder(o, Q[s][d])
             ELSE Joined(o, Outcome!Unfilled(o, Q[s][d]), Q[s][side])]]
    BY ONLY <2>1 DEF SettledBy
  <2> QED
    BY ONLY <1>4, <2>2
<1>6. [Q EXCEPT ![o.sym][d] = r] = [s \in Symbols |-> [side \in Sides |->
                                      IF s = o.sym /\ side = d THEN r ELSE Q[s][side]]]
  <2>1. Q = [s \in Symbols |-> [side \in Sides |-> Q[s][side]]]
    BY Zenon, <1>0 DEF IsMarket
  <2> QED
    BY Zenon, <1>1, <2>1
<1> QED
  BY ONLY <1>5, <1>6 DEF Stored

\* No price of the other side is accepted: the order joins its queue.
LEMMA SettledOfRest ==
  ASSUME NEW o \in Order, o.qty > 0, NEW Q, IsMarket(Q), NEW d, d = Opposite(o.side),
         NEW q, q = Q[o.sym][d],
         \A at \in Outcome!Places(q) : ~Outcome!Acceptable(o, at[1])
  PROVE  SettledBy(o, Q) = [Q EXCEPT ![o.sym][o.side] =
                              [Q[o.sym][o.side] EXCEPT ![o.price] = Append(@, o)]]
<1>1. o.sym \in Symbols /\ o.side \in Sides /\ d \in Sides /\ d # o.side /\ o.qty \in Nat
  BY TakerFacts DEF Opposite, Sides
<1>2. PICK own : own = Q[o.sym][o.side]
  OBVIOUS
<1>3. PICK r : r = [own EXCEPT ![o.price] = Append(@, o)]
  OBVIOUS
<1>4. IsSide(q)
  BY <1>1 DEF IsMarket
<1>5. Outcome!Remainder(o, q) = q /\ Outcome!Unfilled(o, q) = o.qty
  BY <1>4, AcceptsNothing
<1>6. Joined(o, o.qty, own) = r
  <2>1. [o EXCEPT !.qty = o.qty] = o
    BY DEF Order
  <2>2. o.qty # 0
    BY <1>1
  <2> QED
    BY <1>3, <2>1, <2>2 DEF Joined
<1>7. ASSUME NEW s \in Symbols, NEW side \in Sides
      PROVE  (IF s # o.sym THEN Q[s][side]
              ELSE IF side # o.side THEN Outcome!Remainder(o, Q[s][d])
              ELSE Joined(o, Outcome!Unfilled(o, Q[s][d]), Q[s][side]))
             = IF s = o.sym /\ side = o.side THEN r ELSE Q[s][side]
  <2>1. side # o.side <=> side = d
    BY <1>1 DEF Sides
  <2> QED
    BY <1>2, <1>5, <1>6, <2>1
<1>8. SettledBy(o, Q) = [s \in Symbols |-> [side \in Sides |->
                           IF s = o.sym /\ side = o.side THEN r ELSE Q[s][side]]]
  BY <1>7 DEF SettledBy
<1>9. [Q EXCEPT ![o.sym][o.side] = r] =
        [s \in Symbols |-> [side \in Sides |->
           IF s = o.sym /\ side = o.side THEN r ELSE Q[s][side]]]
  <2>1. Q = [s \in Symbols |-> [side \in Sides |-> Q[s][side]]]
    BY DEF IsMarket
  <2> QED
    BY <1>1, <2>1
<1> QED
  BY ONLY Zenon, <1>2, <1>3, <1>8, <1>9

-----------------------------------------------------------------------------
(* The fill lines of a step of the loop.                                    *)

\* A fill of the whole first order is reported as its share is.
LEMMA DevoursExecutions ==
  ASSUME NEW o \in Order, NEW q, NEW p, Devours(o, q, p),
         NEW l, l = Less(o, q[p][1].qty), NEW r, r = Rest(q, p)
  PROVE  Outcome!Executions(o, q) = FillReport(q[p][1], o, p) \o Outcome!Executions(l, r)
<1>1. PICK n : n = q[p][1].qty
  OBVIOUS
<1>2. PICK first : first = <<p, 1>>
  OBVIOUS
<1>3. Eats(o, q, r, first, Shift(p, r)) /\ n = Outcome!OrderAt(q, first).qty
  BY <1>1, <1>2, DevoursEats
<1>4. Outcome!Share(o, q, first) = n
  BY <1>3, EatsShares
<1>5. Outcome!Executions(o, q) = Outcome!Lines(o, q, first) \o Outcome!Executions(l, r)
  BY <1>1, <1>3, EatsExecutions
<1>6. Outcome!Lines(o, q, first) = FillReport(q[p][1], o, p)
  <2>1. Outcome!OrderAt(q, first) = q[p][1] /\ first[1] = p
    BY <1>2 DEF Outcome!OrderAt
  <2> QED
    BY <1>1, <1>4, <2>1 DEF Outcome!Lines, Outcome!FillLine, FillReport, Rec
<1> QED
  BY <1>5, <1>6

\* A fill of a part is reported as its share is.
LEMMA NibblesReport ==
  ASSUME NEW o \in Order, NEW q, NEW p, Nibbles(o, q, p)
  PROVE  Outcome!Executions(o, q) = FillReport(o, q[p][1], p)
<1>1. PICK first : first = <<p, 1>>
  OBVIOUS
<1>2. Outcome!OrderAt(q, first) = q[p][1] /\ first[1] = p
  BY <1>1 DEF Outcome!OrderAt
<1>3. Outcome!Share(o, q, first) = o.qty /\ o.qty # q[p][1].qty
  <2>1. o.qty \in Nat /\ first \in Outcome!Places(q) /\ Outcome!Share(o, q, first) = o.qty
    BY <1>1, TakerFacts, NibblesShares
  <2>2. q[p][1].qty \in Nat
    BY <1>2, <2>1, SideQty DEF Nibbles
  <2> QED
    BY <2>1, <2>2 DEF Nibbles
<1>4. Outcome!Lines(o, q, first) = FillReport(o, q[p][1], p)
  BY <1>2, <1>3 DEF Outcome!Lines, Outcome!FillLine, FillReport, Rec
<1> QED
  BY <1>1, <1>4, NibblesExecutions

\* What the loop reports are fill lines.
LEMMA ReportType ==
  ASSUME NEW small \in Order, NEW large \in Order, NEW price \in Prices
  PROVE  FillReport(small, large, price) \in Seq(FillRecs)
<1> DEFINE pair == FillReport(small, large, price)
<1>1. pair[1] \in FillRecs /\ pair[2] \in FillRecs
  BY EngineAssumption DEF FillReport, Rec, FillRecs, Order
<1>2. PICK a \in FillRecs, b \in FillRecs : pair = <<a, b>>
  BY <1>1 DEF FillReport
<1> HIDE DEF pair
<1> QED
  BY <1>2 DEF pair

\* Fill lines are shown as they are, and other results are not fill lines.
LEMMA ShownLines ==
  /\ results \in Seq(FillRecs) => FillLines = results
  /\ (\A i \in DOMAIN results : results[i].type # "F") /\ DOMAIN results # {} => FillLines = <<>>
<1>1. ASSUME results \in Seq(FillRecs) PROVE FillLines = results
  <2>1. \A i \in DOMAIN results : results[i] \in FillRecs
    BY <1>1
  <2>2. \A i \in DOMAIN results : results[i].type = "F"
    BY <2>1 DEF FillRecs
  <2> QED
    BY <2>2 DEF FillLines
<1> QED
  BY <1>1 DEF FillLines

-----------------------------------------------------------------------------
(* The books are a market, and stay one.                                    *)

\* Every side of every book, as the abstract market sees it.
BooksAreMarket == IsMarket(BookQueues)

LEMMA MarketNow == IInv /\ Bounded => BooksAreMarket
<1> SUFFICES ASSUME IInv, Bounded PROVE BooksAreMarket
  OBVIOUS
<1>1. \A s \in Symbols, d \in Sides : IsSide(BookQueues[s][d])
  BY QueuesAreSides DEF Bounded
<1>2. BookQueues = [s \in Symbols |-> [side \in Sides |-> BookQueues[s][side]]]
  BY DEF BookQueues
<1> QED
  BY ONLY <1>1, <1>2 DEF BooksAreMarket, IsMarket

LEMMA MarketNext == IInv' /\ Bounded' => BooksAreMarket'
BY MarketNow, PTL

\* What the loop works on is the first queue of the side it meets.
LEMMA MatchedQueue ==
  ASSUME IInv, Bounded, NEW p \in Prices, Matchable(p),
         NEW o, o = incoming, NEW d, d = Opposite(o.side), NEW q, q = BookQueues[o.sym][d]
  PROVE  /\ o \in Order /\ o # NoOrder /\ o.qty > 0 /\ o.sym \in Symbols /\ d \in Sides
         /\ IsMarket(BookQueues) /\ IsSide(q)
         /\ q = Queues(o.sym, d)
         /\ q[p] = Queue(p) /\ q[p] # <<>> /\ Head(Queue(p)) = q[p][1] /\ q[p][1] \in Order
         /\ \A s \in Prices : q[s] # <<>> => ~Outcome!Better(Outcome!Opposite(o.side), s, p)
         /\ Outcome!Acceptable(o, p)
<1>1. /\ o \in Order /\ o # NoOrder /\ o.qty > 0 /\ o.sym \in Symbols /\ d \in Sides
      /\ p \in DOMAIN book[o.sym][d] /\ Queue(p) = book[o.sym][d][p]
      /\ Queue(p) # <<>> /\ Head(Queue(p)) = Queue(p)[1] /\ Head(Queue(p)) \in Order
  BY MatchableFacts DEF Queue
<1>2. BookOK
  BY Disassemble
<1>3. IsMarket(BookQueues)
  BY MarketNow DEF BooksAreMarket
<1>4. IsSide(q)
  BY <1>1, <1>3 DEF IsMarket
<1>5. /\ q = Queues(o.sym, d)
      /\ \A s \in DOMAIN book[o.sym][d] : s \in Prices /\ q[s] = book[o.sym][d][s]
      /\ \A s \in Prices : s \notin DOMAIN book[o.sym][d] => q[s] = <<>>
  BY <1>1, <1>2, QueueFacts
<1>6. Outcome!Opposite(o.side) = d
  BY <1>1, TakerFacts
<1>7. \A s, r : Outcome!Better(d, s, r) <=> Before(d, s, r)
  BY DEF Outcome!Better, Before
<1>8. \A s \in DOMAIN book[o.sym][d] : ~Before(d, s, p)
  BY DEF Matchable, IsBegin
<1>9. \A s \in Prices : q[s] # <<>> => ~Outcome!Better(Outcome!Opposite(o.side), s, p)
  BY <1>5, <1>6, <1>7, <1>8
<1>10. Outcome!Acceptable(o, p)
  <2>1. Crosses(o, p) /\ p \in Int /\ o.price \in Int
    BY <1>1, TakerFacts, EngineAssumption DEF Matchable
  <2> QED
    BY <2>1 DEF Crosses, Outcome!Acceptable, Outcome!Better
<1> QED
  BY <1>1, <1>3, <1>4, <1>5, <1>9, <1>10

-----------------------------------------------------------------------------
LEMMA BoundedInit == Init => Bounded
<1> SUFFICES ASSUME Init PROVE Bounded
  OBVIOUS
<1>1. DOMAIN orders = {}
  BY DEF Init, EmptyMap
<1> QED
  BY <1>1, FS_EmptySet DEF Init, Bounded

\* A fill leaves finitely many orders and appends fill lines.
LEMMA FillBounded ==
  ASSUME Bounded, incoming # NoOrder, NEW id, orders' = Without(orders, id),
         NEW small \in Order, NEW large \in Order, NEW price \in Prices,
         results' = results \o FillReport(small, large, price)
  PROVE  Bounded' /\ results' \in Seq(FillRecs)
<1>1. DOMAIN orders' \subseteq DOMAIN orders
  BY DEF Without
<1>2. IsFiniteSet(DOMAIN orders')
  BY <1>1, FS_Subset DEF Bounded
<1>3. results' \in Seq(FillRecs)
  BY ReportType DEF Bounded
<1> QED
  BY <1>2, <1>3 DEF Bounded

\* So does every other step.
LEMMA BoundedStep == IInv /\ Bounded /\ [Next]_vars => Bounded'
<1> SUFFICES ASSUME IInv, Bounded, [Next]_vars PROVE Bounded'
  OBVIOUS
<1>1. ASSUME NEW p \in Prices, FillResting(p) PROVE Bounded'
  <2>1. /\ incoming # NoOrder /\ incoming \in Order /\ Head(Queue(p)) \in Order
    BY <1>1, MatchableFacts DEF FillResting
  <2> QED
    BY <1>1, <2>1, FillBounded DEF FillResting
<1>2. ASSUME NEW p \in Prices, FillIncoming(p) PROVE Bounded'
  <2>1. /\ incoming # NoOrder /\ incoming \in Order /\ Head(Queue(p)) \in Order
    BY <1>2, MatchableFacts DEF FillIncoming
  <2> QED
    BY <1>2, <2>1, FillBounded DEF FillIncoming
<1>3. CASE RestIncoming
  <2>1. DOMAIN orders' = DOMAIN orders \cup {incoming.id} /\ incoming' = NoOrder
    BY <1>3 DEF RestIncoming
  <2> QED
    BY <2>1, FS_AddElement DEF Bounded
<1>4. ASSUME NEW id \in OrderIds, AcceptCancel(id) PROVE Bounded'
  <2>1. DOMAIN orders' \subseteq DOMAIN orders /\ incoming' = NoOrder
    BY Zenon, <1>4 DEF AcceptCancel, Without, TakeRequest
  <2> QED
    BY <2>1, FS_Subset DEF Bounded
<1>5. ASSUME NEW o \in Requests, AcceptSubmit(o) PROVE Bounded'
  BY <1>5, EmptyInSeq DEF AcceptSubmit, Bounded
<1>6. ASSUME UNCHANGED orders, incoming' = NoOrder PROVE Bounded'
  BY <1>6 DEF Bounded
<1>7. CASE UNCHANGED vars
  BY <1>7 DEF vars, Bounded
<1> QED
  BY <1>1, <1>2, <1>3, <1>4, <1>5, <1>6, <1>7
     DEF Next, InvalidLine, Submit, RefuseSubmit, TakeRequest, Match, Cancel, RefuseCancel,
         PrintBooks

-----------------------------------------------------------------------------
(* What a client sees of a step.                                            *)

\* The lines still to come.
ToCome(o, queues) == Outcome!Executions(o, queues[o.sym][Opposite(o.side)])

\* The lines of a request are the ones of the loop so far and then
\* the ones to come.
FillsAre ==
  /\ incoming = NoOrder => SettledFills = FillLines \o <<>>
  /\ incoming \in Order => SettledFills = FillLines \o ToCome(incoming, BookQueues)

\* The fill lines are those sent and those to come.
LEMMA FillsAreLines == FillsAre
<1>1. ASSUME incoming \in Order
      PROVE  SettledFills = FillLines \o ToCome(incoming, BookQueues)
  <2>1. PICK o, d : o = incoming /\ d = Opposite(incoming.side)
    OBVIOUS
  <2>2. o # NoOrder /\ o.sym \in Symbols /\ d \in Sides
    BY <1>1, <2>1, TakerFacts, EngineAssumption
  <2>3. BookQueues[o.sym][d] = Across
    BY <2>1, <2>2 DEF BookQueues, Across
  <2> QED
    BY <2>1, <2>2, <2>3 DEF SettledFills, ToCome
<1> QED
  BY <1>1 DEF FillsAre, SettledFills

LEMMA FillsAreLinesNext == FillsAre'
BY FillsAreLines, PTL

\* What a client sees of results.
Shown ==
  /\ results \in Seq(FillRecs) => FillLines = results
  /\ (\A i \in DOMAIN results : results[i].type # "F") /\ DOMAIN results # {} => FillLines = <<>>

\* Lines of fills are shown, other lines are not.
LEMMA ShownNow == Shown
BY ShownLines DEF Shown

LEMMA ShownNext == Shown'
BY ShownNow, PTL

-----------------------------------------------------------------------------
(* The loop does what is settled.                                           *)

\* A step of the loop is no step of the market.
Unmoved == SettledQueue' = SettledQueue /\ SettledFills' = SettledFills

\* The loop takes the first order whole: what was settled stays settled.
LEMMA FillRestingUnmoved ==
  ASSUME IInv, IInv', Bounded, Bounded', NEW p \in Prices, FillResting(p)
  PROVE  Unmoved
<1>1. PICK o, d : o = incoming /\ d = Opposite(o.side)
  OBVIOUS
<1>2. PICK Q : Q = BookQueues
  OBVIOUS
<1>3. PICK q : q = Q[o.sym][d]
  OBVIOUS
<1>4. Matchable(p)
  BY DEF FillResting
<1>5. /\ o \in Order /\ o # NoOrder /\ o.qty > 0 /\ o.sym \in Symbols /\ d \in Sides
      /\ IsMarket(Q) /\ IsSide(q) /\ q = Queues(o.sym, d)
      /\ q[p] = Queue(p) /\ q[p] # <<>> /\ Head(Queue(p)) = q[p][1] /\ q[p][1] \in Order
      /\ \A s \in Prices : q[s] # <<>> => ~Outcome!Better(Outcome!Opposite(o.side), s, p)
      /\ Outcome!Acceptable(o, p)
  BY <1>1, <1>2, <1>3, <1>4, MatchedQueue
<1>6. q[p][1].qty <= o.qty
  <2>1. q[p][1].qty \in Nat /\ o.qty \in Nat
    BY <1>5, TakerFacts
  <2> QED
    BY <1>1, <1>5, <2>1 DEF FillResting
<1>7. Devours(o, q, p)
  BY <1>5, <1>6 DEF Devours
<1>8. PICK l, r : l = Less(o, q[p][1].qty) /\ r = Rest(q, p)
  OBVIOUS
<1>9. l \in Order /\ l.qty = o.qty - q[p][1].qty /\ l.sym = o.sym /\ l.side = o.side
  <2>1. q[p][1].qty \in Nat
    BY <1>5, TakerFacts
  <2> QED
    BY <1>5, <1>6, <1>8, <2>1, LessFacts
<1>10. BookQueues' = [Q EXCEPT ![o.sym][d] = r]
  <2>1. Edit(o.sym, d, p, Tail(q[p]))
    BY <1>1, <1>5 DEF FillResting, Edit
  <2>2. /\ o.sym \in Symbols /\ d \in Sides /\ p \in Prices
        /\ Tail(q[p]) \in Seq(Order) /\ BookOK
    BY <1>5, Disassemble DEF IsSide
  <2>3. BookQueues' = [BookQueues EXCEPT ![o.sym][d] = [Queues(o.sym, d) EXCEPT ![p] = Tail(q[p])]]
    <3>1. Changes(o.sym, d, p, Tail(q[p]))
      BY ONLY <2>1, <2>2 DEF Changes
    <3>2. ChangedTo(o.sym, d, p, Tail(q[p]))
      BY ONLY <3>1, QueuesChange
    <3> QED
      BY ONLY <3>2 DEF ChangedTo
  <2>4. r = [Queues(o.sym, d) EXCEPT ![p] = Tail(q[p])]
    BY <1>5, <1>8 DEF Rest
  <2> QED
    BY ONLY <1>2, <2>3, <2>4
<1>11. PICK R : R = BookQueues'
  OBVIOUS
<1>12. SettledBy(o, Q) = SettledBy(l, R)
  <2>1. R = Stored(Q, o.sym, d, Rest(q, p))
    BY <1>8, <1>10, <1>11 DEF Stored
  <2>2. Meets(o, Q, d, q)
    BY <1>1, <1>3, <1>5 DEF Meets
  <2>3. SettledBy(o, Q) = SettledBy(Less(o, q[p][1].qty), Stored(Q, o.sym, d, Rest(q, p)))
    BY ONLY <1>7, <2>2, SettledOfDevours
  <2> QED
    BY ONLY <1>8, <2>1, <2>3
<1>13. R[o.sym][d] = r
  <2>1. Q = [s \in Symbols |-> [side \in Sides |-> Q[s][side]]]
    BY <1>5 DEF IsMarket
  <2> QED
    BY <1>5, <1>10, <1>11, <2>1
<1>14. ToCome(o, Q) = FillReport(q[p][1], o, p) \o ToCome(l, R)
  <2>1. Outcome!Executions(o, q) = FillReport(q[p][1], o, p) \o Outcome!Executions(l, r)
    <3>1. o \in Order /\ Devours(o, q, p) /\ l = Less(o, q[p][1].qty) /\ r = Rest(q, p)
      BY <1>5, <1>7, <1>8
    <3> QED
      BY ONLY <3>1, DevoursExecutions
  <2> QED
    BY Zenon, <1>1, <1>3, <1>9, <1>13, <2>1 DEF ToCome
<1>15. IsMarket(R)
  BY <1>11, MarketNext DEF BooksAreMarket
<1>16. incoming' = IF l.qty = 0 THEN NoOrder ELSE l
  <2>1. incoming' = IF o.qty = q[p][1].qty THEN NoOrder ELSE Less(o, q[p][1].qty)
    BY <1>1, <1>5 DEF FillResting, Reduced, Less
  <2>2. o.qty \in Nat /\ q[p][1].qty \in Nat
    BY <1>5, TakerFacts
  <2> QED
    BY <1>8, <1>9, <2>1, <2>2
<1>17. SettledQueue = SettledBy(o, Q)
  BY <1>1, <1>2, <1>5, SettledQueueIs DEF SettledIs
<1>18. SettledFills = results \o ToCome(o, Q) /\ results \in Seq(FillRecs)
  <2>1. results \in Seq(FillRecs)
    BY <1>1, <1>5 DEF Bounded
  <2> QED
    BY <1>1, <1>2, <1>5, <2>1, FillsAreLines, ShownNow DEF FillsAre, Shown
<1>19. PICK pair : pair = FillReport(q[p][1], o, p)
  OBVIOUS
<1>20. pair \in Seq(FillRecs)
  BY <1>5, <1>19, ReportType
<1>21. results' = results \o pair /\ results' \in Seq(FillRecs) /\ FillLines' = results'
  <2>1. results' = results \o pair
    BY <1>1, <1>5, <1>19 DEF FillResting
  <2>2. results' \in Seq(FillRecs)
    BY <1>18, <1>20, <2>1
  <2> QED
    BY <2>1, <2>2, ShownNext DEF Shown
<1>22. ToCome(l, R) \in Seq(FillRecs)
  <2>1. IsSide(r) /\ r = R[l.sym][Opposite(l.side)]
    BY <1>1, <1>5, <1>9, <1>13, <1>15 DEF IsMarket
  <2> QED
    BY <1>9, <2>1, ExecutionsAre DEF ToCome
<1>23. SettledFills = results' \o ToCome(l, R)
  <2>1. SettledFills = results \o (pair \o ToCome(l, R))
    BY <1>14, <1>18, <1>19
  <2>2. (results \o pair) \o ToCome(l, R) = results \o (pair \o ToCome(l, R))
    BY <1>18, <1>20, <1>22, ConcatAssociates
  <2> QED
    BY ONLY <1>21, <2>1, <2>2
<1>24. CASE l.qty = 0
  <2>1. incoming' = NoOrder
    BY <1>16, <1>24
  <2>2. SettledBy(l, R) = R /\ ToCome(l, R) = <<>>
    BY <1>9, <1>15, <1>24, SettledOfDone DEF ToCome
  <2>3. SettledQueue' = R
    BY <1>11, <2>1, SettledQueueIsNext DEF SettledIs
  <2>4. SettledFills' = results' \o <<>>
    BY <1>21, <2>1, FillsAreLinesNext DEF FillsAre
  <2> QED
    BY ONLY <1>12, <1>17, <1>23, <2>2, <2>3, <2>4 DEF Unmoved
<1>25. CASE l.qty # 0
  <2>1. incoming' = l
    BY <1>16, <1>25
  <2>2. SettledQueue' = SettledBy(l, R)
    BY <1>9, <1>11, <2>1, SettledQueueIsNext DEF SettledIs
  <2>3. SettledFills' = results' \o ToCome(l, R)
    BY <1>9, <1>11, <1>21, <2>1, FillsAreLinesNext DEF FillsAre
  <2> QED
    BY ONLY <1>12, <1>17, <1>23, <2>2, <2>3 DEF Unmoved
<1> QED
  BY <1>24, <1>25

\* The loop takes a part of the first order and is done.
LEMMA FillIncomingUnmoved ==
  ASSUME IInv, IInv', Bounded, Bounded', NEW p \in Prices, FillIncoming(p)
  PROVE  Unmoved
<1>1. PICK o, d : o = incoming /\ d = Opposite(o.side)
  OBVIOUS
<1>2. PICK Q : Q = BookQueues
  OBVIOUS
<1>3. PICK q : q = Q[o.sym][d]
  OBVIOUS
<1>4. Matchable(p)
  BY DEF FillIncoming
<1>5. /\ o \in Order /\ o # NoOrder /\ o.qty > 0 /\ o.sym \in Symbols /\ d \in Sides
      /\ IsMarket(Q) /\ IsSide(q) /\ q = Queues(o.sym, d)
      /\ q[p] = Queue(p) /\ q[p] # <<>> /\ Head(Queue(p)) = q[p][1] /\ q[p][1] \in Order
      /\ \A s \in Prices : q[s] # <<>> => ~Outcome!Better(Outcome!Opposite(o.side), s, p)
      /\ Outcome!Acceptable(o, p)
  BY <1>1, <1>2, <1>3, <1>4, MatchedQueue
<1>6. o.qty < q[p][1].qty
  BY <1>1, <1>5 DEF FillIncoming
<1>7. Nibbles(o, q, p)
  BY <1>5, <1>6 DEF Nibbles
<1>8. PICK x : x = [q[p] EXCEPT ![1].qty = @ - o.qty]
  OBVIOUS
<1>9. BookQueues' = [Q EXCEPT ![o.sym][d] = [q EXCEPT ![p] = x]]
  <2>1. Edit(o.sym, d, p, x)
    BY <1>1, <1>5, <1>8 DEF FillIncoming, Edit
  <2>2. x \in Seq(Order) /\ BookOK
    <3>1. q[p] \in Seq(Order) /\ o.qty \in Nat
      BY <1>5, TakerFacts DEF IsSide
    <3> QED
      BY <1>5, <1>6, <1>8, <3>1, SumShrinks, Disassemble
  <2>3. BookQueues' = [BookQueues EXCEPT ![o.sym][d] = [Queues(o.sym, d) EXCEPT ![p] = x]]
    <3>1. Changes(o.sym, d, p, x)
      BY <1>5, <2>1, <2>2 DEF Changes
    <3>2. ChangedTo(o.sym, d, p, x)
      BY ONLY <3>1, QueuesChange
    <3> QED
      BY ONLY <3>2 DEF ChangedTo
  <2> QED
    BY <1>2, <1>5, <2>3
<1>10. SettledBy(o, Q) = BookQueues'
  <2>1. PICK r : r = [q EXCEPT ![p] = [q[p] EXCEPT ![1].qty = @ - o.qty]]
    OBVIOUS
  <2>2. Meets(o, Q, d, q)
    BY <1>1, <1>3, <1>5 DEF Meets
  <2>3. SettledBy(o, Q) = Stored(Q, o.sym, d, r)
    BY ONLY <1>7, <2>1, <2>2, SettledOfNibbles
  <2> QED
    BY ONLY <1>8, <1>9, <2>1, <2>3 DEF Stored
<1>11. ToCome(o, Q) = FillReport(o, q[p][1], p)
  BY <1>1, <1>3, <1>5, <1>7, NibblesReport DEF ToCome
<1>12. results \in Seq(FillRecs) /\ FillReport(o, q[p][1], p) \in Seq(FillRecs)
  BY <1>1, <1>5, ReportType DEF Bounded
<1>13. /\ incoming' = NoOrder
       /\ results' = results \o FillReport(o, q[p][1], p)
  BY <1>1, <1>5 DEF FillIncoming
<1>14. results' \in Seq(FillRecs)
  BY <1>12, <1>13
<1>15. SettledQueue = SettledBy(o, Q) /\ SettledQueue' = BookQueues'
  BY <1>1, <1>2, <1>5, <1>13, SettledQueueIs, SettledQueueIsNext DEF SettledIs
<1>16. SettledFills = results'
  BY <1>1, <1>2, <1>5, <1>11, <1>12, <1>13, FillsAreLines, ShownNow DEF FillsAre, Shown
<1>17. SettledFills' = results'
  <2>1. SettledFills' = results' \o <<>>
    BY <1>13, <1>14, FillsAreLinesNext, ShownNext DEF FillsAre, Shown
  <2>2. results' \o <<>> = results'
    BY <1>14
  <2> QED
    BY <2>1, <2>2
<1> QED
  BY ONLY <1>10, <1>15, <1>16, <1>17 DEF Unmoved

\* Nothing more is crossed: the rest joins the queue of its price.
LEMMA RestIncomingUnmoved ==
  ASSUME IInv, IInv', Bounded, Bounded', RestIncoming
  PROVE  Unmoved
<1>1. PICK o, d : o = incoming /\ d = Opposite(o.side)
  OBVIOUS
<1>2. PICK Q : Q = BookQueues
  OBVIOUS
<1>3. PICK q : q = Q[o.sym][d]
  OBVIOUS
<1>4. /\ o \in Order /\ o # NoOrder /\ o.qty > 0 /\ BookOK
      /\ o.sym \in Symbols /\ o.side \in Sides /\ d \in Sides /\ o.price \in Prices
  <2>1. o \in Order /\ o # NoOrder /\ o.qty > 0 /\ BookOK
    BY <1>1, Disassemble DEF RestIncoming
  <2> QED
    BY <1>1, <2>1, TakerFacts
<1>5. IsMarket(Q)
  BY <1>2, MarketNow DEF BooksAreMarket
<1>6. IsSide(q)
  BY <1>3, <1>4, <1>5 DEF IsMarket
<1>7. \A s \in DOMAIN book[o.sym][d] : ~Crosses(o, s)
  <2>1. IsLevelMap(book[o.sym][d])
    BY <1>4 DEF BookOK
  <2>2. CASE DOMAIN book[o.sym][d] = {}
    BY <2>2
  <2>3. CASE \E s \in Prices : IsBegin(Opposite(o.side), book[o.sym][d], s) /\ ~Crosses(o, s)
    BY <1>1, <1>4, <2>1, <2>3, NoneCrossed
  <2> QED
    BY <1>1, <2>2, <2>3 DEF RestIncoming
<1>8. \A at \in Outcome!Places(q) : ~Outcome!Acceptable(o, at[1])
  <2> SUFFICES ASSUME NEW at \in Outcome!Places(q)
               PROVE  ~Outcome!Acceptable(o, at[1])
    OBVIOUS
  <2>1. q \in [Prices -> Seq(Order)]
    BY <1>6 DEF IsSide
  <2>2. PICK s \in Prices : \E i \in 1..Len(q[s]) : at[1] = s
    BY <2>1, SidePlaces
  <2>3. q[s] # <<>>
    BY <2>2
  <2>4. s \in DOMAIN book[o.sym][d]
    BY <1>2, <1>3, <1>4, <2>2, <2>3, QueueFacts
  <2>5. ~Crosses(o, s) /\ s \in Int /\ o.price \in Int /\ o.side \in {"B", "S"}
    BY <1>4, <1>7, <2>4, EngineAssumption DEF Sides
  <2> QED
    BY <2>2, <2>5 DEF Crosses, Outcome!Acceptable, Outcome!Better
<1>9. PICK own : own = Queues(o.sym, o.side)
  OBVIOUS
<1>10. own = Q[o.sym][o.side] /\ own \in [Prices -> Seq(Order)]
  BY <1>2, <1>4, <1>9, QueueFacts
<1>11. BookQueues' = [Q EXCEPT ![o.sym][o.side] = [own EXCEPT ![o.price] = Append(@, o)]]
  <2>1. own[o.price] = LevelAt(book[o.sym][o.side], o.price)
    BY <1>4, <1>9 DEF Queues
  <2>2. Edit(o.sym, o.side, o.price, Append(own[o.price], o))
    BY <1>1, <2>1 DEF RestIncoming, Edit, Enqueue
  <2>3. /\ o.sym \in Symbols /\ o.side \in Sides /\ o.price \in Prices /\ BookOK
        /\ Append(own[o.price], o) \in Seq(Order)
    BY <1>4, <1>10
  <2>4. BookQueues' = [BookQueues EXCEPT ![o.sym][o.side] =
                         [Queues(o.sym, o.side) EXCEPT ![o.price] = Append(own[o.price], o)]]
    <3>1. Changes(o.sym, o.side, o.price, Append(own[o.price], o))
      BY ONLY <2>2, <2>3 DEF Changes
    <3>2. ChangedTo(o.sym, o.side, o.price, Append(own[o.price], o))
      BY ONLY <3>1, QueuesChange
    <3> QED
      BY ONLY <3>2 DEF ChangedTo
  <2>5. [own EXCEPT ![o.price] = Append(@, o)] = [own EXCEPT ![o.price] = Append(own[o.price], o)]
    OBVIOUS
  <2> QED
    BY ONLY <1>2, <1>9, <2>4, <2>5
<1>12. SettledBy(o, Q) =
         [Q EXCEPT ![o.sym][o.side] = [Q[o.sym][o.side] EXCEPT ![o.price] = Append(@, o)]]
  BY <1>1, <1>3, <1>4, <1>5, <1>8, SettledOfRest
<1>13. ToCome(o, Q) = <<>>
  BY <1>1, <1>3, <1>4, <1>6, <1>8, AcceptsNothing DEF ToCome
<1>14. incoming' = NoOrder /\ results' = results /\ results \in Seq(FillRecs)
  BY <1>1, <1>4 DEF RestIncoming, Bounded
<1>15. SettledQueue = SettledBy(o, Q) /\ SettledQueue' = BookQueues'
  BY <1>1, <1>2, <1>4, <1>14, SettledQueueIs, SettledQueueIsNext DEF SettledIs
<1>16. SettledFills = results \o <<>>
  BY <1>1, <1>2, <1>4, <1>13, <1>14, FillsAreLines, ShownNow DEF FillsAre, Shown
<1>17. SettledFills' = results \o <<>>
  <2>1. FillLines' = results'
    BY <1>14, ShownNext DEF Shown
  <2> QED
    BY <1>14, <2>1, FillsAreLinesNext DEF FillsAre
<1> QED
  BY ONLY <1>10, <1>11, <1>12, <1>15, <1>16, <1>17 DEF Unmoved

-----------------------------------------------------------------------------
(* Each request is a step of the market.                                    *)

\* An order in a level that the index points to is in the index.
LEMMA LevelOfIndex ==
  ASSUME IInv, NEW id \in DOMAIN orders,
         NEW ord \in Range(book[orders[id].sym][orders[id].side][orders[id].price])
  PROVE  /\ ord.id \in DOMAIN orders
         /\ orders[ord.id].sym = orders[id].sym /\ orders[ord.id].side = orders[id].side
         /\ orders[ord.id].price = orders[id].price
<1>1. PICK s, d, p : s = orders[id].sym /\ d = orders[id].side /\ p = orders[id].price
  OBVIOUS
<1>2. s \in Symbols /\ d \in Sides /\ p \in DOMAIN book[s][d] /\ RestingIsIndexed
  <2>1. orders[id] \in OrderRef
    BY Disassemble
  <2>2. RestsAt(book, id, orders[id]) /\ RestingIsIndexed
    BY Disassemble DEF IndexIsResting
  <2> QED
    BY <1>1, <2>1, <2>2 DEF OrderRef, RestsAt
<1>3. PICK i \in DOMAIN book[s][d][p] : ord = book[s][d][p][i]
  BY <1>1 DEF Range
<1>4. /\ IndexedAt(orders, book[s][d][p][i], s, d, p)
      /\ orders[book[s][d][p][i].id].sym = s
      /\ orders[book[s][d][p][i].id].side = d
      /\ orders[book[s][d][p][i].id].price = p
  BY ONLY SMTT(30), <1>2, <1>3, IndexedFacts
<1> QED
  BY <1>1, <1>3, <1>4 DEF IndexedAt

\* A request that accepts nothing.
LEMMA NoTradeStep ==
  ASSUME IInv, IInv', Bounded, RequestNext, incoming = NoOrder,
         UNCHANGED <<book, orders, incoming>>, FillLines' = <<>>
  PROVE  Market!NoTrade
<1>1. Withdrawn = {}
  <2>1. DOMAIN orders' = DOMAIN orders
    OBVIOUS
  <2> QED
    BY <2>1, LevelOfIndex DEF Withdrawn
<1>2. request' = NoOrder
  BY <1>1 DEF RequestNext
<1>3. BookQueues' = BookQueues
  BY DEF BookQueues, Queues
<1>4. SettledQueue' = SettledQueue
  BY <1>3, SettledQueueIs, SettledQueueIsNext DEF SettledIs
<1>5. SettledFills' = <<>> \o <<>>
  BY FillsAreLinesNext DEF FillsAre
<1>6. <<>> \o <<>> = <<>>
  OBVIOUS
<1> QED
  BY <1>2, <1>4, <1>5, <1>6 DEF Market!NoTrade

\* Errors and printed orders are no fill lines.
LEMMA OtherLines ==
  ASSUME NEW shown, results' = Printed(shown)
  PROVE  FillLines' = <<>>
<1>1. \A i \in DOMAIN results' : results'[i].type = "P"
  BY DEF Printed, Rec
<1>2. CASE DOMAIN results' = {}
  <2>1. results' = [i \in {} |-> Rec("P", shown[i].id, shown[i].qty, shown[i].price)]
    BY <1>2 DEF Printed
  <2>2. results' = <<>>
    BY <2>1
  <2> QED
    BY <2>2, EmptyInSeq, ShownNext DEF Shown
<1>3. CASE DOMAIN results' # {}
  BY <1>1, <1>3, ShownNext DEF Shown
<1> QED
  BY <1>2, <1>3

\* An error or a cancel reports no fill.
LEMMA ErrorLines ==
  ASSUME NEW id, results' = Error(id) \/ results' = <<Rec("X", id, 0, 0)>>
  PROVE  FillLines' = <<>>
<1>1. DOMAIN results' # {} /\ \A i \in DOMAIN results' : results'[i].type # "F"
  BY DEF Error, Rec
<1> QED
  BY <1>1, ShownNext DEF Shown

\* An accepted submit settles what the loop will do.
LEMMA SubmitStep ==
  ASSUME IInv, IInv', Bounded, Bounded', RequestNext, NEW o \in Requests, AcceptSubmit(o)
  PROVE  Market!Submit(o)
<1>1. /\ incoming = NoOrder /\ incoming' = o /\ results' = <<>>
      /\ UNCHANGED <<book, orders>> /\ o.id \notin DOMAIN orders
  BY DEF AcceptSubmit, TakeRequest, Refused
<1>2. o \in Order /\ o # NoOrder
  <2>1. PICK id \in OrderIds, sym \in Symbols, side \in Sides,
             text \in QtyTexts, price \in Prices :
          o = Deserialized(id, sym, side, text, price)
    BY DEF Requests
  <2>2. text % QtyMod \in 0..(QtyMod - 1)
    BY EngineAssumption
  <2> QED
    BY <2>1, <2>2, EngineAssumption DEF Deserialized, Order
<1>3. PICK Q, d : Q = BookQueues /\ d = Opposite(o.side)
  OBVIOUS
<1>4. /\ o.sym \in Symbols /\ o.side \in Sides /\ d \in Sides /\ d # o.side
      /\ Market!Opposite(o.side) = d
  <2>1. o.sym \in Symbols /\ o.side \in Sides /\ d \in Sides /\ Outcome!Opposite(o.side) = d
    BY <1>2, <1>3, TakerFacts
  <2>2. d # o.side
    BY <1>3 DEF Opposite
  <2> QED
    BY <2>1, <2>2, MarketPlaces
<1>5. IsMarket(Q) /\ SettledQueue = Q
  BY <1>1, <1>3, MarketNow, SettledQueueIs DEF BooksAreMarket, SettledIs
<1>6. PICK q : q = Q[o.sym][d]
  OBVIOUS
<1>7. IsSide(q)
  BY <1>4, <1>5, <1>6 DEF IsMarket
<1>8. BookQueues' = Q
  BY <1>1, <1>3 DEF BookQueues, Queues
<1>9. request' = o
  BY <1>1, <1>2 DEF RequestNext
<1>10. ~Market!Live(o.id)
  <2> SUFFICES ASSUME NEW s \in Symbols, NEW side \in Sides,
                      NEW at \in Outcome!Places(Q[s][side]),
                      Outcome!OrderAt(Q[s][side], at).id = o.id
               PROVE  FALSE
    BY <1>5, MarketPlaces DEF Market!Live
  <2>1. /\ Q[s][side] \in [Prices -> Seq(Order)] /\ BookOK /\ RestingIsIndexed
        /\ Q[s][side] = Queues(s, side)
    BY <1>3, <1>5, Disassemble, QueueFacts
  <2>2. PICK p \in Prices : \E i \in 1..Len(Q[s][side][p]) :
               Outcome!OrderAt(Q[s][side], at) = Q[s][side][p][i]
    BY <2>1, SidePlaces
  <2>3. PICK i \in 1..Len(Q[s][side][p]) : Outcome!OrderAt(Q[s][side], at) = Q[s][side][p][i]
    BY <2>2
  <2>4. Q[s][side][p] # <<>> /\ i \in DOMAIN Q[s][side][p]
    BY <2>1, <2>3
  <2>5. p \in DOMAIN book[s][side] /\ Q[s][side][p] = book[s][side][p]
    BY <2>1, <2>4, QueueFacts
  <2>6. IndexedAt(orders, book[s][side][p][i], s, side, p)
    BY <2>1, <2>4, <2>5, IndexedFacts
  <2> QED
    BY <1>1, <2>3, <2>5, <2>6 DEF IndexedAt
<1>11. SettledFills' = Market!Executions(o, q)
  <2>1. FillLines' = <<>>
    BY <1>1, EmptyInSeq, ShownNext DEF Shown
  <2>2. SettledFills' = <<>> \o Outcome!Executions(o, q)
    BY <1>1, <1>2, <1>3, <1>6, <1>8, <2>1, FillsAreLinesNext DEF FillsAre, ToCome
  <2>3. Outcome!Executions(o, q) \in Seq(FillRecs)
    BY <1>2, <1>7, ExecutionsAre
  <2>4. <<>> \o Outcome!Executions(o, q) = Outcome!Executions(o, q)
    BY <2>3
  <2> QED
    BY <2>2, <2>4, MarketExecutions
<1>12. PICK left, r : left = Outcome!Unfilled(o, q) /\ r = Outcome!Remainder(o, q)
  OBVIOUS
<1>13. SettledQueue' = [s \in Symbols |-> [side \in Sides |->
                          IF s # o.sym THEN Q[s][side]
                          ELSE IF side # o.side THEN r
                          ELSE Joined(o, left, Q[s][side])]]
  <2>1. SettledQueue' = SettledBy(o, Q)
    BY <1>1, <1>2, <1>8, SettledQueueIsNext DEF SettledIs
  <2>2. SettledBy(o, Q) = [s \in Symbols |-> [side \in Sides |->
                          IF s # o.sym THEN Q[s][side]
                          ELSE IF side # o.side THEN Outcome!Remainder(o, Q[s][d])
                          ELSE Joined(o, Outcome!Unfilled(o, Q[s][d]), Q[s][side])]]
    BY ONLY <1>3 DEF SettledBy
  <2> QED
    BY <1>6, <1>12, <2>1, <2>2
<1>14. \A own : Joined(o, left, own) =
                  IF left = 0 THEN own ELSE Market!Join([o EXCEPT !.qty = left], own)
  <2>1. [o EXCEPT !.qty = left].price = o.price
    BY <1>2 DEF Order
  <2> QED
    BY <2>1 DEF Joined, Market!Join
<1>15. SettledQueue' = [Q EXCEPT
         ![o.sym][d] = r,
         ![o.sym][o.side] = IF left = 0 THEN @ ELSE Market!Join([o EXCEPT !.qty = left], @)]
  <2>1. Q = [s \in Symbols |-> [side \in Sides |-> Q[s][side]]]
    BY <1>5 DEF IsMarket
  <2> DEFINE own == Q[o.sym][o.side]
             mine == IF left = 0 THEN own ELSE Market!Join([o EXCEPT !.qty = left], own)
  <2>2. [Q EXCEPT ![o.sym][d] = r,
                  ![o.sym][o.side] = IF left = 0 THEN @ ELSE Market!Join([o EXCEPT !.qty = left], @)]
         = [Q EXCEPT ![o.sym] = [Q[o.sym] EXCEPT ![d] = r, ![o.side] = mine]]
    BY <1>4, <2>1
  <2>3. Joined(o, left, own) = mine
    BY <1>14
  <2> HIDE DEF mine
  <2>4. [Q EXCEPT ![o.sym] = [Q[o.sym] EXCEPT ![d] = r, ![o.side] = mine]]
         = [s \in Symbols |-> [side \in Sides |->
              IF s # o.sym THEN Q[s][side]
              ELSE IF side # o.side THEN r ELSE mine]]
    <3>1. \A side \in Sides : side = d <=> side # o.side
      BY <1>4 DEF Sides
    <3> QED
      BY <1>4, <2>1, <3>1
  <2>5. SettledQueue' = [s \in Symbols |-> [side \in Sides |->
              IF s # o.sym THEN Q[s][side]
              ELSE IF side # o.side THEN r ELSE mine]]
    BY <1>13, <2>3
  <2> QED
    BY ONLY <2>2, <2>4, <2>5
<1>16. left = Market!Unfilled(o, q) /\ r = Market!Remainder(o, q)
  BY <1>12, MarketShare, MarketRemainder
<1> QED
  BY <1>4, <1>5, <1>6, <1>9, <1>10, <1>11, <1>15, <1>16 DEF Market!Submit

\* A cancel takes out the order with that id.
LEMMA CancelStep ==
  ASSUME IInv, IInv', Bounded, RequestNext, NEW id \in OrderIds, AcceptCancel(id)
  PROVE  Market!Next
<1>1. PICK s, d, p : s = orders[id].sym /\ d = orders[id].side /\ p = orders[id].price
  OBVIOUS
<1>2. /\ id \in DOMAIN orders /\ BookOK /\ RestingIsIndexed
      /\ s \in Symbols /\ d \in Sides /\ p \in DOMAIN book[s][d] /\ p \in Prices
  <2>1. id \in DOMAIN orders
    BY Zenon DEF AcceptCancel
  <2> QED
    BY <1>1, <2>1, Disassemble DEF OrderRef, IndexIsResting, RestsAt
<1>3. PICK Q : Q = book[s][d][p]
  OBVIOUS
<1>4. PICK i \in DOMAIN Q : Q[i].id = id /\ Edit(s, d, p, RemoveAt(Q, i))
  BY Zenon, <1>1, <1>3 DEF AcceptCancel, Edit
<1>5. /\ incoming = NoOrder /\ incoming' = NoOrder /\ DOMAIN orders' = DOMAIN orders \ {id}
      /\ results' = <<Rec("X", id, 0, 0)>>
  BY Zenon DEF AcceptCancel, TakeRequest, Without
<1>6. Q \in Seq(Order) /\ RemoveAt(Q, i) \in Seq(Order)
  <2>1. Q \in Seq(Order)
    BY <1>2, <1>3, LevelFacts
  <2> QED
    BY <1>4, <2>1, RemoveAtDrops DEF Drops
<1>7. Withdrawn = {Q[i]}
  <2>1. Q[i] \in Withdrawn
    <3>1. Q[i] \in Range(book[orders[id].sym][orders[id].side][orders[id].price])
      BY Zenon, <1>1, <1>3, <1>4 DEF Range
    <3> QED
      BY <1>2, <1>4, <1>5, <3>1 DEF Withdrawn
  <2>2. ASSUME NEW ord \in Withdrawn
        PROVE  ord = Q[i]
    <3>1. PICK x \in DOMAIN orders :
             ord \in Range(book[orders[x].sym][orders[x].side][orders[x].price])
      BY <2>2 DEF Withdrawn
    <3>2. ord.id \notin DOMAIN orders'
      BY <2>2 DEF Withdrawn
    <3>3. ord.id = id
      BY <1>5, <3>1, <3>2, LevelOfIndex
    <3>4. orders[x].sym = s /\ orders[x].side = d /\ orders[x].price = p
      BY <1>1, <3>1, <3>3, LevelOfIndex
    <3>5. PICK j \in DOMAIN Q : ord = Q[j]
      BY <1>3, <3>1, <3>4 DEF Range
    <3>6. i = j
      <4>1. book[s][d][p][i].id = book[s][d][p][j].id /\ i \in DOMAIN book[s][d][p]
            /\ j \in DOMAIN book[s][d][p]
        BY <1>3, <1>4, <3>3, <3>5
      <4> QED
        BY ONLY <1>2, <4>1, UniqueIds
    <3> QED
      BY <3>5, <3>6
  <2> QED
    BY <2>1, <2>2
<1>8. request' = Q[i]
  <2>1. request' = CHOOSE ord \in Withdrawn : TRUE
    BY <1>5, <1>7 DEF RequestNext
  <2> QED
    BY <1>7, <2>1
<1>9. SettledQueue = BookQueues /\ SettledQueue' = BookQueues'
  BY <1>5, SettledQueueIs, SettledQueueIsNext DEF SettledIs
<1>10. BookQueues' = [BookQueues EXCEPT ![s][d] = [Queues(s, d) EXCEPT ![p] = RemoveAt(Q, i)]]
  BY <1>2, <1>4, <1>6, QueuesEdit
<1>11. PICK B : B = BookQueues
  OBVIOUS
<1>12. B[s][d] = Queues(s, d) /\ B[s][d][p] = Q
  BY <1>2, <1>3, <1>11, QueueFacts
<1>13. SettledQueue' = [B EXCEPT ![s][d][p] = Market!RemoveAt(@, i)]
  <2>1. PICK x : x = RemoveAt(Q, i)
    OBVIOUS
  <2>2. Market!RemoveAt(B[s][d][p], i) = x
    BY <1>12, <2>1, MarketLibrary
  <2>3. SettledQueue' = [B EXCEPT ![s][d] = [B[s][d] EXCEPT ![p] = x]]
    BY <1>9, <1>10, <1>11, <1>12, <2>1
  <2>4. [B EXCEPT ![s][d][p] = Market!RemoveAt(@, i)] = [B EXCEPT ![s][d] = [B[s][d] EXCEPT ![p] = x]]
    <3>1. /\ B = [t \in Symbols |-> [e \in Sides |-> Queues(t, e)]]
          /\ Queues(s, d) \in [Prices -> Seq(Order)]
      BY <1>2, <1>11, QueueFacts DEF BookQueues
    <3> QED
      BY <2>2, <3>1
  <2> QED
    BY ONLY <2>3, <2>4
<1>14. SettledFills' = <<>>
  <2>1. FillLines' = <<>>
    BY <1>5, ErrorLines
  <2>2. SettledFills' = <<>> \o <<>>
    BY <1>5, <2>1, FillsAreLinesNext DEF FillsAre
  <2> QED
    BY <2>2
<1>15. Market!Cancel(s, d, p, i)
  BY <1>8, <1>9, <1>11, <1>12, <1>13, <1>14 DEF Market!Cancel
<1> QED
  BY <1>2, <1>4, <1>9, <1>11, <1>12, <1>15, MarketPlaces DEF Market!Next

-----------------------------------------------------------------------------
LEMMA MarketStutter ==
  ASSUME IInv, UNCHANGED <<vars, request>>
  PROVE  UNCHANGED Market!priceTimeVars
<1>1. UNCHANGED <<book, incoming, results, request>>
  BY DEF vars
<1>2. BookQueues' = BookQueues
  BY <1>1 DEF BookQueues, Queues
<1>3. FillLines' = FillLines
  BY <1>1 DEF FillLines
<1>4. incoming = NoOrder \/ incoming \in Order
  BY Disassemble
<1>5. SettledQueue' = SettledQueue
  BY <1>1, <1>2, <1>4, SettledQueueIs, SettledQueueIsNext DEF SettledIs
<1>6. SettledFills' = SettledFills
  BY <1>1, <1>2, <1>3, <1>4, FillsAreLines, FillsAreLinesNext DEF FillsAre
<1> QED
  BY <1>1, <1>5, <1>6 DEF Market!priceTimeVars

LEMMA MarketStep ==
  ASSUME IInv, IInv', Bounded, Bounded', [RequestNext]_<<vars, request>>
  PROVE  Market!Next \/ UNCHANGED Market!priceTimeVars
<1>1. CASE UNCHANGED <<vars, request>>
  BY <1>1, MarketStutter
<1>2. ASSUME RequestNext, Unmoved, incoming # NoOrder
      PROVE  UNCHANGED Market!priceTimeVars
  BY <1>2 DEF RequestNext, Unmoved, Market!priceTimeVars
<1>3. ASSUME RequestNext, InvalidLine PROVE Market!Next
  BY <1>3, ErrorLines, NoTradeStep DEF InvalidLine, TakeRequest, Market!Next
<1>4. ASSUME RequestNext, NEW o \in Requests, RefuseSubmit(o) PROVE Market!Next
  BY <1>4, ErrorLines, NoTradeStep DEF RefuseSubmit, TakeRequest, Market!Next
<1>5. ASSUME RequestNext, NEW o \in Requests, AcceptSubmit(o) PROVE Market!Next
  BY <1>5, SubmitStep DEF Market!Next
<1>6. ASSUME RequestNext, NEW p \in Prices, FillResting(p)
      PROVE  UNCHANGED Market!priceTimeVars
  BY <1>2, <1>6, FillRestingUnmoved DEF FillResting, Matchable
<1>7. ASSUME RequestNext, NEW p \in Prices, FillIncoming(p)
      PROVE  UNCHANGED Market!priceTimeVars
  BY <1>2, <1>7, FillIncomingUnmoved DEF FillIncoming, Matchable
<1>8. ASSUME RequestNext, RestIncoming PROVE UNCHANGED Market!priceTimeVars
  BY <1>2, <1>8, RestIncomingUnmoved DEF RestIncoming
<1>9. ASSUME RequestNext, NEW id \in OrderIds, RefuseCancel(id) PROVE Market!Next
  BY <1>9, ErrorLines, NoTradeStep DEF RefuseCancel, TakeRequest, Market!Next
<1>10. ASSUME RequestNext, NEW id \in OrderIds, AcceptCancel(id) PROVE Market!Next
  BY <1>10, CancelStep
<1>11. ASSUME RequestNext, PrintBooks PROVE Market!Next
  <2>1. PICK shown : results' = Printed(shown)
    BY <1>11 DEF PrintBooks
  <2> QED
    BY <1>11, <2>1, OtherLines, NoTradeStep DEF PrintBooks, TakeRequest, Market!Next
<1> QED
  BY <1>1, <1>3, <1>4, <1>5, <1>6, <1>7, <1>8, <1>9, <1>10, <1>11
     DEF RequestNext, Next, Submit, Match, Cancel

LEMMA MarketInit == Init /\ request = NoOrder => Market!Init
<1> SUFFICES ASSUME Init, request = NoOrder PROVE Market!Init
  OBVIOUS
<1>1. incoming = NoOrder /\ results = <<>> /\ \A s \in Symbols, d \in Sides : book[s][d] = EmptyMap
  BY DEF Init
<1>2. SettledQueue = BookQueues
  BY <1>1, SettledQueueIs DEF SettledIs
<1>3. \A s \in Symbols, d \in Sides : Queues(s, d) = [p \in Prices |-> <<>>]
  BY <1>1 DEF Queues, LevelAt, EmptyMap
<1>4. BookQueues = [s \in Symbols |-> [d \in Sides |-> [p \in Prices |-> <<>>]]]
  BY <1>3 DEF BookQueues
<1>5. SettledFills = <<>>
  <2>1. FillLines = <<>>
    BY <1>1, EmptyInSeq, ShownNow DEF Shown
  <2>2. SettledFills = <<>> \o <<>>
    BY <1>1, <2>1, FillsAreLines DEF FillsAre
  <2> QED
    BY <2>2
<1> QED
  BY <1>2, <1>4, <1>5, MarketPlaces DEF Market!Init

\* Whatever requests come, the matching loop gives each submit, over however
\* many iterations, exactly what price-time priority gives it in one step: the
\* same fill lines in the same order, the same queues on the other side and the
\* same remainder at the end of its own queue; a cancel takes out the one order
\* it names and no other request moves any: Engine::match, Book::add_order and
\* Engine::cancel_order.
THEOREM PriceTimeImplemented == RequestSpec => ImplementsPriceTime
<1>1. Init /\ request = NoOrder => IInv /\ Bounded /\ Market!Init
  BY InitInv, BoundedInit, MarketInit
<1>2. [RequestNext]_<<vars, request>> => [Next]_vars
  BY DEF RequestNext
<1>3. IInv /\ [Next]_vars => IInv'
  BY StepInv
<1>4. IInv /\ Bounded /\ [Next]_vars => Bounded'
  BY BoundedStep
<1>5. IInv /\ IInv' /\ Bounded /\ Bounded' /\ [RequestNext]_<<vars, request>>
        => [Market!Next]_(Market!priceTimeVars)
  BY MarketStep
<1> QED
  BY <1>1, <1>2, <1>3, <1>4, <1>5, PTL DEF RequestSpec, ImplementsPriceTime, Market!Spec
=============================================================================
