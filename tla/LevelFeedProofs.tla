-------------------------- MODULE LevelFeedProofs --------------------------
(***************************************************************************)
(* What LevelFeed keeps of the exchange's levels, for any prices,          *)
(* quantities and depth.  A side of a book is an array A and a map O; as   *)
(* long as the book took every datagram for the right side, a price has at *)
(* most one entry of quantity other than 0, the array is sorted, and       *)
(* nothing in the map is better than anything in the array.                *)
(***************************************************************************)
EXTENDS LevelFeed, SequenceLemmas

-----------------------------------------------------------------------------
(* One side of a book.                                                      *)

Places == 1..Depth

\* An array and a map of levels, at real prices apart from the sentinel.
Typed(side, A, O) ==
  /\ A \in [Places -> [qty : Nat, price : Prices \cup {LB!Worst(side)}]]
  /\ \A i \in Places : A[i].price = LB!Worst(side) => A[i].qty = 0
  /\ O \in [DOMAIN O -> Nat]
  /\ IsFiniteSet(DOMAIN O)
  /\ DOMAIN O \subseteq Prices \cup {LB!Worst(side)}
  /\ LB!Worst(side) \in DOMAIN O /\ O[LB!Worst(side)] = 0

\* Best first, and the map behind the array.
Sorted(side, A, O) ==
  /\ \A i, j \in Places : i < j => ~Better(side, A[j].price, A[i].price)
  /\ \A i \in Places : \A p \in DOMAIN O : ~Better(side, p, A[i].price)

\* Of the entries of one price only the first in the array can have anything,
\* and an entry in the map only if there is none in the array.
OnceEach(A, O) ==
  /\ \A i, j \in Places : i < j /\ A[i].price = A[j].price => A[j].qty = 0
  /\ \A i \in Places : A[i].price \in DOMAIN O => O[A[i].price] = 0

InMap(O, p) == IF p \in DOMAIN O THEN O[p] ELSE 0

\* What the side has at price p.
Has(A, O, p, n) ==
  \/ \E i \in Places : /\ A[i].price = p /\ A[i].qty = n
                       /\ \A j \in Places : j < i => A[j].price # p
  \/ /\ \A i \in Places : A[i].price # p
     /\ n = InMap(O, p)

WellKept(side, A, O) == Typed(side, A, O) /\ Sorted(side, A, O) /\ OnceEach(A, O)

-----------------------------------------------------------------------------
LEMMA Parameters ==
  /\ Prices \subseteq Int /\ Depth \in Nat \ {0} /\ Infinity \in Nat /\ WordMod \in Nat \ {0}
  /\ \A p \in Prices : -Infinity < p /\ p < Infinity
  /\ \A side \in Sides, p \in Prices : Better(side, p, LB!Worst(side)) /\ p # LB!Worst(side)
  /\ \A side \in Sides : LB!Worst(side) \in Int
BY LevelFeedAssumption DEF LB!LevelBookParameters, LB!Worst, Better, Sides

\* The first element in the order of a side.
LEMMA FiniteHasBest ==
  ASSUME NEW side \in Sides, NEW T, IsFiniteSet(T), T \subseteq Int, T # {}
  PROVE  \E p \in T : \A q \in T : ~Better(side, q, p)
<1> DEFINE ahead(p) == {q \in T : Better(side, q, p)}
           N == {Cardinality(ahead(p)) : p \in T}
<1>1. \A p \in T : IsFiniteSet(ahead(p)) /\ Cardinality(ahead(p)) \in Nat
  BY FS_Subset, FS_CardinalityType
<1>2. PICK p \in T : \A q \in T : Cardinality(ahead(p)) <= Cardinality(ahead(q))
  <2>1. N \subseteq Nat /\ N # {}
    BY <1>1
  <2> HIDE DEF N
  <2>2. PICK n \in N : \A m \in N : n <= m
    BY <2>1, LeastNatural
  <2> HIDE DEF ahead
  <2> QED
    BY <2>2 DEF N
<1>3. ASSUME NEW q \in T, Better(side, q, p)
      PROVE  FALSE
  <2>1. ahead(q) \in SUBSET ahead(p) /\ q \in ahead(p) /\ q \notin ahead(q)
    <3>1. \A r \in T : Better(side, r, q) => Better(side, r, p)
      BY <1>3 DEF Better
    <3>2. ~Better(side, q, q)
      BY DEF Better
    <3> QED
      BY <1>3, <3>1, <3>2
  <2> HIDE DEF ahead
  <2>2. Cardinality(ahead(q)) <= Cardinality(ahead(p))
        /\ (Cardinality(ahead(p)) = Cardinality(ahead(q)) => ahead(p) = ahead(q))
    BY <1>1, <2>1, FS_Subset
  <2> QED
    BY <1>1, <1>2, <2>1, <2>2
<1> QED
  BY <1>3

\* begin() of a map.
LEMMA BeginIsBest ==
  ASSUME NEW side \in Sides, NEW O, IsFiniteSet(DOMAIN O), DOMAIN O \subseteq Int, DOMAIN O # {}
  PROVE  /\ LB!Begin(O, side) \in DOMAIN O
         /\ \A q \in DOMAIN O : ~Better(side, q, LB!Begin(O, side))
<1>1. \E p \in DOMAIN O : \A q \in DOMAIN O : ~LB!Better(side, q, p)
  BY FiniteHasBest DEF Better, LB!Better
<1> QED
  BY <1>1 DEF LB!Begin, Better, LB!Better

\* The first place of an array at price p.
LEMMA FirstPlace ==
  ASSUME NEW A, NEW p, NEW k \in Places, A[k].price = p
  PROVE  \E i \in Places : A[i].price = p /\ \A j \in Places : j < i => A[j].price # p
<1> DEFINE T == {i \in Places : A[i].price = p}
<1>1. T \subseteq Nat /\ T # {}
  BY Parameters DEF Places
<1> HIDE DEF T
<1>2. PICK i \in T : \A j \in T : i <= j
  BY <1>1, LeastNatural
<1>3. i \in Places /\ A[i].price = p /\ \A j \in Places : A[j].price = p => i <= j
  BY <1>2 DEF T
<1>4. ASSUME NEW j \in Places, j < i
      PROVE  A[j].price # p
  BY <1>3, <1>4, Parameters DEF Places
<1> QED
  BY <1>3, <1>4

\* There is one answer to what a side has at a price.
LEMMA HasOne ==
  ASSUME NEW side, NEW A, NEW O, Typed(side, A, O), NEW p
  PROVE  \E n \in Nat : Has(A, O, p, n)
<1>1. CASE \E k \in Places : A[k].price = p
  <2>1. PICK i \in Places : A[i].price = p /\ \A j \in Places : j < i => A[j].price # p
    BY <1>1, FirstPlace
  <2>2. A[i].qty \in Nat
    BY DEF Typed
  <2> QED
    BY <2>1, <2>2 DEF Has
<1>2. CASE \A k \in Places : A[k].price # p
  <2>1. InMap(O, p) \in Nat
    BY DEF Typed, InMap
  <2> QED
    BY <1>2, <2>1 DEF Has
<1> QED
  BY <1>1, <1>2

LEMMA HasUnique ==
  ASSUME NEW A, NEW O, NEW p, NEW n, NEW m, Has(A, O, p, n), Has(A, O, p, m)
  PROVE  n = m
<1>1. CASE \E k \in Places : A[k].price = p
  <2>1. PICK i \in Places : /\ A[i].price = p /\ A[i].qty = n
                            /\ \A j \in Places : j < i => A[j].price # p
    BY <1>1 DEF Has
  <2>2. PICK k \in Places : /\ A[k].price = p /\ A[k].qty = m
                            /\ \A j \in Places : j < k => A[j].price # p
    BY <1>1 DEF Has
  <2>3. i = k
    BY <2>1, <2>2, Parameters DEF Places
  <2> QED
    BY <2>1, <2>2, <2>3
<1>2. CASE \A k \in Places : A[k].price # p
  BY <1>2 DEF Has
<1> QED
  BY <1>1, <1>2

\* Quantity adds up all the entries: only one of them counts.
LEMMA QuantityIsHad ==
  ASSUME NEW b, NEW side,
         WellKept(side, b.array[side], b.outer[side]),
         NEW p, NEW n, Has(b.array[side], b.outer[side], p, n)
  PROVE  Quantity(b, side, p) = n
<1> DEFINE A == b.array[side]
           O == b.outer[side]
           visible == {i \in Places : A[i].price = p}
           w == [i \in visible |-> A[i].qty]
<1>1. Quantity(b, side, p) = InMap(O, p) + TotalWeight(w)
  <2>1. Quantity(b, side, p) = InMap(O, p) + FoldFunction(+, 0, w)
    BY DEF Quantity, InMap, Places
  <2> HIDE DEF w
  <2> QED
    BY <2>1, FoldIsWeight
<1>2. IsFiniteSet(visible) /\ w \in [visible -> Nat] /\ InMap(O, p) \in Nat
  <2>1. IsFiniteSet(Places)
    <3>1. 1 \in Int /\ Depth \in Int
      BY Parameters
    <3> QED
      BY <3>1, FS_Interval DEF Places
  <2>2. visible \in SUBSET Places
    OBVIOUS
  <2>3. IsFiniteSet(visible)
    BY <2>1, <2>2, FS_Subset
  <2> QED
    BY <2>3 DEF WellKept, Typed, InMap
<1>3. CASE \E i \in Places : /\ A[i].price = p /\ A[i].qty = n
                             /\ \A j \in Places : j < i => A[j].price # p
  <2>1. PICK i \in Places : /\ A[i].price = p /\ A[i].qty = n
                            /\ \A j \in Places : j < i => A[j].price # p
    BY <1>3
  <2>2. i \in visible /\ w[i] = n
    BY <2>1
  <2>3. \A j \in visible \ {i} : w[j] = 0
    <3> SUFFICES ASSUME NEW j \in visible, j # i
                 PROVE  A[j].qty = 0
      OBVIOUS
    <3>1. i < j
      BY <2>1, Parameters DEF Places
    <3> QED
      BY <2>1, <3>1 DEF WellKept, OnceEach
  <2>4. InMap(O, p) = 0
    BY <2>1 DEF InMap, WellKept, OnceEach
  <2>5. n \in Nat
    BY <1>2, <2>2
  <2> DEFINE v == [j \in visible \ {i} |-> w[j]]
  <2>6. v \in [visible \ {i} -> Nat] /\ \A j \in visible \ {i} : v[j] = 0
    BY <1>2, <2>3
  <2>7. IsFiniteSet(visible \ {i})
    BY <1>2, FS_RemoveElement
  <2> HIDE DEF w, visible
  <2>8. TotalWeight(w) = w[i] + TotalWeight(v)
    BY <1>2, <2>2, TotalOneOut
  <2> HIDE DEF v
  <2>9. TotalWeight(v) = 0
    BY <2>6, <2>7, TotalZero
  <2> HIDE DEF O
  <2> QED
    BY <1>1, <2>2, <2>4, <2>5, <2>8, <2>9
<1>4. CASE (\A i \in Places : A[i].price # p) /\ n = InMap(O, p)
  <2>1. visible = {}
    BY <1>4
  <2>2. w \in [{} -> Nat]
    BY <1>2, <2>1
  <2> HIDE DEF w, O
  <2>3. TotalWeight(w) = 0
    BY <2>2, TotalEmpty
  <2> QED
    BY <1>1, <1>2, <1>4, <2>3
<1> QED
  BY <1>3, <1>4 DEF Has

-----------------------------------------------------------------------------
(* What a method does to the array and the map of a side.                   *)

\* A level comes in at a place, and the last one goes out.
ShiftedIn(A, at, x, B) ==
  /\ DOMAIN B = Places
  /\ \A j \in Places : B[j] = IF j < at THEN A[j] ELSE IF j = at THEN x ELSE A[j - 1]

\* A level goes out, and one comes in last.
ShiftedOut(A, at, x, B) ==
  /\ DOMAIN B = Places
  /\ \A j \in Places : B[j] = IF j < at THEN A[j] ELSE IF j = Depth THEN x ELSE A[j + 1]

LEMMA ShiftIn ==
  ASSUME NEW S, NEW A \in [Places -> S], NEW at \in Places, NEW x \in S
  PROVE  /\ ShiftedIn(A, at, x, LB!Front(LB!InsertAt(A, at, x)))
         /\ LB!Front(LB!InsertAt(A, at, x)) \in [Places -> S]
<1> DEFINE I == InsertAt(A, at, x)
<1>1. A \in Seq(S) /\ Len(A) = Depth /\ DOMAIN A = Places /\ Depth \in Nat /\ Depth >= 1
  BY Parameters DEF Places
<1>2. I \in Seq(S) /\ I[at] = x /\ OneLess(I, at, A)
  <2>1. A \in Seq(S) /\ at \in DOMAIN A
    BY <1>1
  <2>2. /\ InsertAt(A, at, x) \in Seq(S) /\ InsertAt(A, at, x)[at] = x
        /\ OneLess(InsertAt(A, at, x), at, A)
    BY ONLY <2>1, x \in S, InsertAtIsWithout
  <2> QED
    BY <2>2
<1>3. LB!Front(LB!InsertAt(A, at, x)) = Front(I)
  <2>1. LB!InsertAt(A, at, x) = I
    BY DEF LB!InsertAt, InsertAt
  <2> HIDE DEF I
  <2> QED
    BY <2>1 DEF LB!Front, Front
<1> HIDE DEF I
<1>4. Len(I) = Depth + 1 /\ \A j \in Places : A[j] = IF j < at THEN I[j] ELSE I[j + 1]
  BY <1>1, <1>2 DEF OneLess, Places
<1>5. /\ DOMAIN Front(I) = Places /\ \A j \in Places : Front(I)[j] = I[j]
      /\ Front(I) \in [Places -> S]
  <2>1. Front(I) \in Seq(S) /\ Len(Front(I)) = Depth
    BY <1>1, <1>2, <1>4 DEF Front
  <2>2. \A j \in Places : Front(I)[j] = I[j]
    BY <1>1, <1>2, <1>4 DEF Front, Places
  <2> QED
    BY <1>1, <2>1, <2>2 DEF Places
<1>6. ASSUME NEW j \in Places
      PROVE  I[j] = IF j < at THEN A[j] ELSE IF j = at THEN x ELSE A[j - 1]
  <2>1. CASE j > at
    <3>1. j - 1 \in Places /\ ~(j - 1 < at) /\ (j - 1) + 1 = j
      BY <1>1, <2>1 DEF Places
    <3>2. A[j - 1] = I[(j - 1) + 1]
      BY <1>4, <3>1
    <3>3. ~(j < at) /\ j # at
      BY <1>1, <2>1 DEF Places
    <3> QED
      BY <3>1, <3>2, <3>3
  <2>2. CASE ~(j > at)
    BY <1>1, <1>2, <1>4, <2>2 DEF Places
  <2> QED
    BY <2>1, <2>2
<1> QED
  BY <1>3, <1>5, <1>6 DEF ShiftedIn

LEMMA ShiftOut ==
  ASSUME NEW S, NEW A \in [Places -> S], NEW at \in Places, NEW x \in S
  PROVE  /\ ShiftedOut(A, at, x, Append(LB!RemoveAt(A, at), x))
         /\ Append(LB!RemoveAt(A, at), x) \in [Places -> S]
<1> DEFINE R == RemoveAt(A, at)
<1>1. A \in Seq(S) /\ Len(A) = Depth /\ DOMAIN A = Places /\ Depth \in Nat /\ Depth >= 1
  BY Parameters DEF Places
<1>2. R \in Seq(S) /\ OneLess(A, at, R)
  BY <1>1, RemoveAtIsWithout
<1>3. LB!RemoveAt(A, at) = R
  BY DEF LB!RemoveAt, RemoveAt
<1> HIDE DEF R
<1>4. Len(R) = Depth - 1 /\ \A j \in 1..(Depth - 1) : R[j] = IF j < at THEN A[j] ELSE A[j + 1]
  BY <1>1, <1>2 DEF OneLess
<1>5. /\ DOMAIN Append(R, x) = Places
      /\ \A j \in 1..(Depth - 1) : Append(R, x)[j] = R[j]
      /\ Append(R, x)[Depth] = x
      /\ Append(R, x) \in [Places -> S]
  <2>1. Append(R, x) \in Seq(S) /\ Len(Append(R, x)) = Depth
    BY <1>1, <1>2, <1>4
  <2>2. /\ \A j \in 1..(Depth - 1) : Append(R, x)[j] = R[j]
        /\ Append(R, x)[Depth] = x
    BY <1>1, <1>2, <1>4
  <2>3. \A q \in Seq(S) : Len(q) = Depth => q \in [Places -> S] /\ DOMAIN q = Places
    BY DEF Places
  <2> QED
    BY <2>1, <2>2, <2>3
<1>6. ASSUME NEW j \in Places
      PROVE  Append(R, x)[j] = IF j < at THEN A[j] ELSE IF j = Depth THEN x ELSE A[j + 1]
  <2>1. CASE j = Depth
    <3>1. ~(j < at)
      BY <1>1, <2>1 DEF Places
    <3> QED
      BY <1>5, <2>1, <3>1
  <2>2. CASE j # Depth
    <3>1. j \in 1..(Depth - 1)
      BY <1>1, <2>2 DEF Places
    <3> QED
      BY <1>4, <1>5, <2>2, <3>1
  <2> QED
    BY <2>1, <2>2
<1> QED
  BY <1>3, <1>5, <1>6 DEF ShiftedOut

\* What a book is made of, whatever happened to it.
Level == [qty : Nat, price : Int]
Maps == UNION {[D -> Nat] : D \in {E \in SUBSET Int : IsFiniteSet(E)}}
Events == {"none", "submit", "trade", "cancel", "levels"}
Book == [array : [Sides -> [Places -> Level]], outer : [Sides -> Maps], id : Nat, event : Events]

\* The map has n at the price.
MapSet(O, price, n, P) ==
  /\ DOMAIN P = DOMAIN O \cup {price}
  /\ P[price] = n
  /\ \A p \in DOMAIN O : p # price => P[p] = O[p]

\* The level at a place has n.
PlaceSet(A, at, n, B) ==
  /\ DOMAIN B = Places
  /\ B[at].price = A[at].price /\ B[at].qty = n
  /\ \A j \in Places : j # at => B[j] = A[j]

\* Method calls leave the other side alone.
OneSide(b, c, side) ==
  /\ c \in Book
  /\ \A t \in Sides : t # side => c.array[t] = b.array[t] /\ c.outer[t] = b.outer[t]

\* Where a price belongs in an array.
Reached(side, A, price, at) ==
  /\ \A j \in Places : j < at => Better(side, A[j].price, price)
  /\ ~Better(side, A[at].price, price)

LEMMA InMaps ==
  ASSUME NEW O
  PROVE  O \in Maps <=> /\ DOMAIN O \subseteq Int /\ IsFiniteSet(DOMAIN O)
                        /\ O \in [DOMAIN O -> Nat]
BY DEF Maps

LEMMA MapSetInMaps ==
  ASSUME NEW O \in Maps, NEW price \in Int, NEW n \in Nat,
         NEW P, P = [p \in DOMAIN O \cup {price} |-> IF p = price THEN n ELSE O[p]]
  PROVE  P \in Maps /\ MapSet(O, price, n, P)
<1>1. /\ DOMAIN O \subseteq Int /\ IsFiniteSet(DOMAIN O)
      /\ \A p \in DOMAIN O : O[p] \in Nat
  BY InMaps
<1>2. P \in [DOMAIN P -> Nat] /\ DOMAIN P \subseteq Int /\ IsFiniteSet(DOMAIN P)
  <2>1. IsFiniteSet(DOMAIN O \cup {price})
    BY <1>1, FS_AddElement
  <2> QED
    BY <1>1, <2>1
<1> QED
  BY <1>2, InMaps DEF MapSet

LEMMA AddOuterIs ==
  ASSUME NEW b \in Book, NEW side \in Sides, NEW price \in Int, NEW delta \in Int,
         NEW c, c = LB!AddOuter(b, side, price, delta)
  PROVE  /\ OneSide(b, c, side)
         /\ c.array[side] = b.array[side]
         /\ MapSet(b.outer[side], price, (InMap(b.outer[side], price) + delta) % WordMod,
                   c.outer[side])
         /\ c.id = b.id /\ c.event = "none"
<1>1. PICK O : O = b.outer[side]
  OBVIOUS
<1>2. O \in Maps /\ InMap(O, price) \in Nat
  BY <1>1, InMaps DEF Book, InMap
<1>3. PICK n : n = (InMap(O, price) + delta) % WordMod
  OBVIOUS
<1>4. n \in Nat
  BY <1>2, <1>3, Parameters
<1>5. PICK P : P = [p \in DOMAIN O \cup {price} |-> IF p = price THEN n ELSE O[p]]
  OBVIOUS
<1>6. P \in Maps /\ MapSet(O, price, n, P)
  BY <1>2, <1>4, <1>5, MapSetInMaps
<1>7. c = [b EXCEPT !.outer[side] = P, !.event = "none"]
  <2>1. P = [p \in DOMAIN O \cup {price} |->
               IF p # price THEN O[p]
               ELSE ((IF price \in DOMAIN O THEN O[price] ELSE 0) + delta) % WordMod]
    BY <1>3, <1>5 DEF InMap
  <2> QED
    BY <1>1, <2>1 DEF LB!AddOuter
<1>8. /\ c.array = b.array /\ c.id = b.id /\ c.event = "none"
      /\ c.outer = [b.outer EXCEPT ![side] = P]
      /\ DOMAIN c = {"array", "outer", "id", "event"}
  BY <1>7 DEF Book
<1>9. c.outer[side] = P /\ c.outer \in [Sides -> Maps]
      /\ \A t \in Sides : t # side => c.outer[t] = b.outer[t]
  BY <1>6, <1>8 DEF Book
<1>10. c \in Book
  BY <1>7, <1>8, <1>9 DEF Book, Events
<1> QED
  BY <1>1, <1>3, <1>6, <1>8, <1>9, <1>10 DEF OneSide

\* A level made room in the map, unless it was empty.
PushedOut(O, last, P) ==
  IF last.qty = 0 THEN P = O ELSE MapSet(O, last.price, last.qty, P)

LEMMA PushOutIs ==
  ASSUME NEW O \in Maps, NEW last \in Level
  PROVE  LB!PushOut(O, last) \in Maps /\ PushedOut(O, last, LB!PushOut(O, last))
<1>1. last.qty \in Nat /\ last.price \in Int
  BY DEF Level
<1>2. CASE last.qty = 0
  BY <1>2 DEF LB!PushOut, PushedOut
<1>3. CASE last.qty # 0
  <2>1. PICK price, n : price = last.price /\ n = last.qty
    OBVIOUS
  <2>2. PICK P : P = [p \in DOMAIN O \cup {price} |-> IF p = price THEN n ELSE O[p]]
    OBVIOUS
  <2>3. P \in Maps /\ MapSet(O, price, n, P)
    BY <1>1, <2>1, <2>2, MapSetInMaps
  <2>4. LB!PushOut(O, last) = P
    BY <1>3, <2>1, <2>2 DEF LB!PushOut
  <2> QED
    BY <1>3, <2>1, <2>3, <2>4 DEF PushedOut
<1> QED
  BY <1>2, <1>3

\* add_buy and add_sell: behind the array, in one of its levels, or between.
Added(side, price, qty, b, c) ==
  LET A == b.array[side]
      B == c.array[side]
      O == b.outer[side]
      P == c.outer[side]
  IN  \/ /\ \A i \in Places : Better(side, A[i].price, price)
         /\ B = A
         /\ MapSet(O, price, (InMap(O, price) + qty) % WordMod, P)
         /\ c.id = b.id /\ c.event = "none"
      \/ \E at \in Places :
           /\ Reached(side, A, price, at)
           /\ c.id = b.id + 1
           /\ \/ /\ A[at].price = price
                 /\ PlaceSet(A, at, (A[at].qty + qty) % WordMod, B)
                 /\ P = O /\ c.event = "submit"
              \/ /\ A[at].price # price
                 /\ ShiftedIn(A, at, [qty |-> qty, price |-> price], B)
                 /\ PushedOut(O, A[Depth], P) /\ c.event = "levels"

LEMMA AddQtyIs ==
  ASSUME NEW b \in Book, NEW side \in Sides, NEW price \in Int, NEW qty \in Nat,
         NEW c, c = LB!AddQty(b, side, price, qty)
  PROVE  OneSide(b, c, side) /\ Added(side, price, qty, b, c)
<1> DEFINE A == b.array[side]
           O == b.outer[side]
           reached == {i \in 1..Depth : ~LB!Better(side, A[i].price, price)}
           first == CHOOSE i \in reached : \A j \in reached : i <= j
<1>1. A = b.array[side] /\ O = b.outer[side]
  OBVIOUS
<1>2. /\ A \in [Places -> Level] /\ O \in Maps
      /\ \A i \in Places : A[i].qty \in Nat /\ A[i].price \in Int
      /\ Depth \in Places
  BY <1>1, Parameters DEF Book, Level, Places
<1>3. c = IF reached = {} THEN LB!AddOuter(b, side, price, qty)
          ELSE IF A[first].price = price
          THEN [b EXCEPT !.array[side][first].qty = (@ + qty) % WordMod,
                         !.id = @ + 1, !.event = "submit"]
          ELSE [b EXCEPT !.array[side] =
                           LB!Front(LB!InsertAt(A, first, [qty |-> qty, price |-> price])),
                         !.outer[side] = LB!PushOut(O, A[Depth]),
                         !.id = @ + 1, !.event = "levels"]
  BY DEF LB!AddQty
<1>6. reached = {i \in Places : ~Better(side, A[i].price, price)}
  BY DEF LB!Better, Better, Places
<1> HIDE DEF A, O, reached, first
<1>4. CASE reached = {}
  <2>1. c = LB!AddOuter(b, side, price, qty) /\ qty \in Int
    BY <1>3, <1>4
  <2>2. \A i \in Places : Better(side, A[i].price, price)
    BY <1>4, <1>6
  <2> QED
    BY <1>1, <2>1, <2>2, AddOuterIs DEF Added
<1>5. CASE reached # {}
  <2>1. PICK at : at = first
    OBVIOUS
  <2>2. at \in Places /\ Reached(side, A, price, at)
    <3>1. reached \subseteq Nat
      BY <1>6, Parameters DEF Places
    <3>2. \E i \in reached : \A j \in reached : i <= j
      BY <1>5, <3>1, LeastNatural
    <3>3. at \in reached /\ \A j \in reached : at <= j
      BY <2>1, <3>2 DEF first
    <3>4. at \in Places /\ ~Better(side, A[at].price, price)
      BY <1>6, <3>3
    <3>5. ASSUME NEW j \in Places, j < at
          PROVE  Better(side, A[j].price, price)
      <4>1. j \notin reached
        BY <3>3, <3>4, <3>5, Parameters DEF Places
      <4> QED
        BY <1>6, <4>1
    <3> QED
      BY <3>4, <3>5 DEF Reached
  <2>3. CASE A[at].price = price
    <3>1. PICK n : n = (A[at].qty + qty) % WordMod
      OBVIOUS
    <3>2. n \in Nat
      BY <1>2, <2>2, <3>1, Parameters
    <3>3. PICK B : B = [A EXCEPT ![at].qty = n]
      OBVIOUS
    <3>4. B \in [Places -> Level] /\ PlaceSet(A, at, n, B)
      BY <1>2, <2>2, <3>2, <3>3 DEF Level, PlaceSet
    <3>5. c = [b EXCEPT !.array[side] = B, !.id = @ + 1, !.event = "submit"]
      <4>1. c = [b EXCEPT !.array[side][at].qty = (@ + qty) % WordMod,
                          !.id = @ + 1, !.event = "submit"]
        BY <1>3, <1>5, <2>1, <2>3
      <4> QED
        BY <1>1, <3>1, <3>3, <4>1
    <3>6. /\ c.outer = b.outer /\ c.id = b.id + 1 /\ c.event = "submit"
          /\ c.array = [b.array EXCEPT ![side] = B]
      BY <3>5 DEF Book
    <3>7. c.array[side] = B /\ c.array \in [Sides -> [Places -> Level]]
          /\ \A t \in Sides : t # side => c.array[t] = b.array[t]
      BY <3>4, <3>6 DEF Book
    <3>8. c \in Book
      <4>1. c.outer \in [Sides -> Maps] /\ c.id \in Nat /\ c.event \in Events
        BY <3>6 DEF Book, Events
      <4> QED
        BY <3>5, <3>7, <4>1 DEF Book
    <3>9. OneSide(b, c, side)
      BY <3>6, <3>7, <3>8 DEF OneSide
    <3> QED
      BY <1>1, <2>2, <2>3, <3>1, <3>4, <3>6, <3>7, <3>9 DEF Added
  <2>4. CASE A[at].price # price
    <3>1. PICK x : x = [qty |-> qty, price |-> price]
      OBVIOUS
    <3>2. x \in Level
      BY <3>1 DEF Level
    <3>3. PICK B : B = LB!Front(LB!InsertAt(A, at, x))
      OBVIOUS
    <3>4. ShiftedIn(A, at, x, B) /\ B \in [Places -> Level]
      BY <1>2, <2>2, <3>2, <3>3, ShiftIn
    <3>6. PICK P : P = LB!PushOut(O, A[Depth])
      OBVIOUS
    <3>7. P \in Maps /\ PushedOut(O, A[Depth], P)
      BY <1>2, <3>6, PushOutIs
    <3>8. c = [b EXCEPT !.array[side] = B, !.outer[side] = P, !.id = @ + 1, !.event = "levels"]
      BY <1>3, <1>5, <2>1, <2>4, <3>1, <3>3, <3>6
    <3>9. /\ c.id = b.id + 1 /\ c.event = "levels"
          /\ c.array = [b.array EXCEPT ![side] = B]
          /\ c.outer = [b.outer EXCEPT ![side] = P]
      BY <3>8 DEF Book
    <3>10. /\ c.array[side] = B /\ c.array \in [Sides -> [Places -> Level]]
           /\ \A t \in Sides : t # side => c.array[t] = b.array[t]
      BY <3>4, <3>9 DEF Book
    <3>11. /\ c.outer[side] = P /\ c.outer \in [Sides -> Maps]
           /\ \A t \in Sides : t # side => c.outer[t] = b.outer[t]
      BY <3>7, <3>9 DEF Book
    <3>12. c \in Book
      <4>1. c.id \in Nat /\ c.event \in Events
        BY <3>9 DEF Book, Events
      <4> QED
        BY <3>8, <3>10, <3>11, <4>1 DEF Book
    <3>13. OneSide(b, c, side)
      BY <3>10, <3>11, <3>12 DEF OneSide
    <3> QED
      BY <1>1, <2>2, <2>4, <3>1, <3>4, <3>7, <3>9, <3>10, <3>11, <3>13 DEF Added
  <2> QED
    BY <2>3, <2>4
<1> QED
  BY <1>4, <1>5

\* The first level of a map takes the last place of the array; an empty one
\* stays in the map as well.
Promoted(side, O, x, P) ==
  \/ DOMAIN O = {} /\ DOMAIN P = {} /\ x \in LB!Junk
  \/ /\ x.price \in DOMAIN O /\ x.qty = O[x.price]
     /\ \A q \in DOMAIN O : ~Better(side, q, x.price)
     /\ IF x.qty = 0 THEN P = O
        ELSE DOMAIN P = DOMAIN O \ {x.price} /\ \A p \in DOMAIN P : P[p] = O[p]

LEMMA PromotedIs ==
  ASSUME NEW side \in Sides, NEW O \in Maps, NEW junk \in LB!Junk,
         NEW x, x = IF O = <<>> THEN junk
                    ELSE [qty |-> O[LB!Begin(O, side)], price |-> LB!Begin(O, side)],
         NEW P, P = IF x.qty = 0 THEN O ELSE [p \in DOMAIN O \ {x.price} |-> O[p]]
  PROVE  x \in Level /\ P \in Maps /\ Promoted(side, O, x, P)
<1>1. /\ DOMAIN O \subseteq Int /\ IsFiniteSet(DOMAIN O) /\ O \in [DOMAIN O -> Nat]
  BY InMaps
<1>2. P \in Maps
  <2>1. CASE x.qty = 0
    BY <2>1
  <2>2. CASE x.qty # 0
    <3>1. PICK price : price = x.price
      OBVIOUS
    <3>2. P = [p \in DOMAIN O \ {price} |-> O[p]]
      BY <2>2, <3>1
    <3>3. IsFiniteSet(DOMAIN O \ {price})
      BY <1>1, FS_RemoveElement
    <3>4. P \in [DOMAIN P -> Nat] /\ DOMAIN P \subseteq Int /\ IsFiniteSet(DOMAIN P)
      BY <1>1, <3>2, <3>3
    <3> QED
      BY <3>4, InMaps
  <2> QED
    BY <2>1, <2>2
<1>3. CASE DOMAIN O = {}
  <2>1. O = <<>>
    BY <1>1, <1>3
  <2>2. x \in LB!Junk /\ x \in Level
    BY <2>1 DEF LB!Junk, Level
  <2>3. DOMAIN P = {}
    BY <1>3
  <2> QED
    BY <1>2, <1>3, <2>2, <2>3 DEF Promoted
<1>4. CASE DOMAIN O # {}
  <2>1. O # <<>>
    BY <1>4
  <2>2. PICK next : next = LB!Begin(O, side)
    OBVIOUS
  <2>3. next \in DOMAIN O /\ \A q \in DOMAIN O : ~Better(side, q, next)
    BY <1>1, <1>4, <2>2, BeginIsBest
  <2>4. x = [qty |-> O[next], price |-> next]
    BY <2>1, <2>2
  <2>5. x \in Level /\ x.price = next /\ x.qty = O[next]
    BY <1>1, <2>3, <2>4 DEF Level
  <2>6. IF x.qty = 0 THEN P = O
        ELSE DOMAIN P = DOMAIN O \ {x.price} /\ \A p \in DOMAIN P : P[p] = O[p]
    BY <2>5
  <2> QED
    BY <1>2, <2>3, <2>5, <2>6 DEF Promoted
<1> QED
  BY <1>3, <1>4

\* remove_buy and remove_sell: behind the array, from one of its levels, or all
\* that a level had.
Removed(side, price, qty, type, b, c) ==
  LET A == b.array[side]
      B == c.array[side]
      O == b.outer[side]
      P == c.outer[side]
  IN  \/ /\ \A i \in Places : A[i].price # price
         /\ B = A
         /\ MapSet(O, price, (InMap(O, price) - qty) % WordMod, P)
         /\ c.id = b.id /\ c.event = "none"
      \/ \E at \in Places :
           /\ A[at].price = price
           /\ \A j \in Places : j < at => A[j].price # price
           /\ c.id = b.id + 1
           /\ \/ /\ (A[at].qty - qty) % WordMod # 0
                 /\ PlaceSet(A, at, (A[at].qty - qty) % WordMod, B)
                 /\ P = O /\ c.event = type
              \/ /\ (A[at].qty - qty) % WordMod = 0
                 /\ \E x \in Level : ShiftedOut(A, at, x, B) /\ Promoted(side, O, x, P)
                 /\ c.event = "levels"

LEMMA RemoveQtyIs ==
  ASSUME NEW b \in Book, NEW side \in Sides, NEW price \in Int, NEW qty \in Nat,
         NEW type \in Events, NEW junk \in LB!Junk,
         NEW c, c = LB!RemoveQty(b, side, price, qty, type, junk)
  PROVE  OneSide(b, c, side) /\ Removed(side, price, qty, type, b, c)
<1> DEFINE A == b.array[side]
           O == b.outer[side]
           found == {i \in 1..Depth : A[i].price = price}
           first == CHOOSE i \in found : \A j \in found : i <= j
           left == (A[first].qty - qty) % WordMod
           next == LB!Begin(O, side)
           x == IF O = <<>> THEN junk ELSE [qty |-> O[next], price |-> next]
<1>1. A = b.array[side] /\ O = b.outer[side]
  OBVIOUS
<1>2. /\ A \in [Places -> Level] /\ O \in Maps
      /\ \A i \in Places : A[i].qty \in Nat /\ A[i].price \in Int
      /\ Depth \in Places
  BY <1>1, Parameters DEF Book, Level, Places
<1>3. c = IF found = {} THEN LB!AddOuter(b, side, price, -qty)
          ELSE IF left # 0
          THEN [b EXCEPT !.array[side][first].qty = left, !.id = @ + 1, !.event = type]
          ELSE [b EXCEPT !.array[side] = Append(LB!RemoveAt(A, first), x),
                         !.outer[side] = IF x.qty = 0 THEN O
                                         ELSE [p \in DOMAIN O \ {x.price} |-> O[p]],
                         !.id = @ + 1, !.event = "levels"]
  BY DEF LB!RemoveQty, LB!Stays
<1>6. found = {i \in Places : A[i].price = price}
  BY DEF Places
<1> HIDE DEF A, O, found, first, left, next, x
<1>4. CASE found = {}
  <2>1. c = LB!AddOuter(b, side, price, -qty) /\ -qty \in Int
    BY <1>3, <1>4
  <2>2. \A i \in Places : A[i].price # price
    BY <1>4, <1>6
  <2>3. InMap(O, price) + (-qty) = InMap(O, price) - qty
    <3>1. InMap(O, price) \in Nat
      BY <1>2, InMaps DEF InMap
    <3> QED
      BY <3>1
  <2> QED
    BY <1>1, <2>1, <2>2, <2>3, AddOuterIs DEF Removed
<1>5. CASE found # {}
  <2>1. PICK at : at = first
    OBVIOUS
  <2>2. /\ at \in Places /\ A[at].price = price
        /\ \A j \in Places : j < at => A[j].price # price
    <3>1. found \subseteq Nat
      BY <1>6, Parameters DEF Places
    <3>2. \E i \in found : \A j \in found : i <= j
      BY <1>5, <3>1, LeastNatural
    <3>3. at \in found /\ \A j \in found : at <= j
      BY <2>1, <3>2 DEF first
    <3>4. at \in Places /\ A[at].price = price
      BY <1>6, <3>3
    <3>5. ASSUME NEW j \in Places, j < at
          PROVE  A[j].price # price
      <4>1. j \notin found
        BY <3>3, <3>4, <3>5, Parameters DEF Places
      <4> QED
        BY <1>6, <4>1
    <3> QED
      BY <3>4, <3>5
  <2>3. PICK n : n = (A[at].qty - qty) % WordMod
    OBVIOUS
  <2>4. n \in Nat /\ left = n
    BY <1>2, <2>1, <2>2, <2>3, Parameters DEF left
  <2>5. CASE n # 0
    <3>1. PICK B : B = [A EXCEPT ![at].qty = n]
      OBVIOUS
    <3>2. B \in [Places -> Level] /\ PlaceSet(A, at, n, B)
      BY <1>2, <2>2, <2>4, <3>1 DEF Level, PlaceSet
    <3>3. c = [b EXCEPT !.array[side] = B, !.id = @ + 1, !.event = type]
      <4>1. c = [b EXCEPT !.array[side][at].qty = n, !.id = @ + 1, !.event = type]
        BY <1>3, <1>5, <2>1, <2>4, <2>5
      <4> QED
        BY <1>1, <3>1, <4>1
    <3>4. /\ c.outer = b.outer /\ c.id = b.id + 1 /\ c.event = type
          /\ c.array = [b.array EXCEPT ![side] = B]
      BY <3>3 DEF Book
    <3>5. c.array[side] = B /\ c.array \in [Sides -> [Places -> Level]]
          /\ \A t \in Sides : t # side => c.array[t] = b.array[t]
      BY <3>2, <3>4 DEF Book
    <3>6. c \in Book
      <4>1. c.outer \in [Sides -> Maps] /\ c.id \in Nat /\ c.event \in Events
        BY <3>4 DEF Book
      <4> QED
        BY <3>3, <3>5, <4>1 DEF Book
    <3>7. OneSide(b, c, side)
      BY <3>4, <3>5, <3>6 DEF OneSide
    <3> QED
      BY <1>1, <2>2, <2>3, <2>5, <3>2, <3>4, <3>5, <3>7 DEF Removed
  <2>6. CASE n = 0
    <3>1. PICK y : y = x
      OBVIOUS
    <3>2. PICK P : P = IF y.qty = 0 THEN O ELSE [p \in DOMAIN O \ {y.price} |-> O[p]]
      OBVIOUS
    <3>3. y \in Level /\ P \in Maps /\ Promoted(side, O, y, P)
      BY <1>2, <3>1, <3>2, PromotedIs DEF x, next
    <3>4. PICK B : B = Append(LB!RemoveAt(A, at), y)
      OBVIOUS
    <3>5. ShiftedOut(A, at, y, B) /\ B \in [Places -> Level]
      BY <1>2, <2>2, <3>3, <3>4, ShiftOut
    <3>8. c = [b EXCEPT !.array[side] = B, !.outer[side] = P, !.id = @ + 1, !.event = "levels"]
      BY <1>3, <1>5, <2>1, <2>4, <2>6, <3>1, <3>2, <3>4
    <3>9. /\ c.id = b.id + 1 /\ c.event = "levels"
          /\ c.array = [b.array EXCEPT ![side] = B]
          /\ c.outer = [b.outer EXCEPT ![side] = P]
      BY <3>8 DEF Book
    <3>10. /\ c.array[side] = B /\ c.array \in [Sides -> [Places -> Level]]
           /\ \A t \in Sides : t # side => c.array[t] = b.array[t]
      BY <3>5, <3>9 DEF Book
    <3>11. /\ c.outer[side] = P /\ c.outer \in [Sides -> Maps]
           /\ \A t \in Sides : t # side => c.outer[t] = b.outer[t]
      BY <3>3, <3>9 DEF Book
    <3>12. c \in Book
      <4>1. c.id \in Nat /\ c.event \in Events
        BY <3>9 DEF Book, Events
      <4> QED
        BY <3>8, <3>10, <3>11, <4>1 DEF Book
    <3>13. OneSide(b, c, side)
      BY <3>10, <3>11, <3>12 DEF OneSide
    <3> QED
      BY <1>1, <2>2, <2>3, <2>6, <3>3, <3>5, <3>9, <3>10, <3>11, <3>13 DEF Removed
  <2> QED
    BY <2>5, <2>6
<1> QED
  BY <1>4, <1>5

-----------------------------------------------------------------------------
(* Each method keeps a side in order, and changes what it has at one price. *)

\* What a side has at the other prices stays.
SameElsewhere(A, O, B, P, price) ==
  \A p, m : p # price /\ Has(A, O, p, m) => Has(B, P, p, m)

LEMMA TypedInts ==
  ASSUME NEW side \in Sides, NEW A, NEW O, Typed(side, A, O)
  PROVE  /\ \A i \in Places : A[i].price \in Int /\ A[i].qty \in Nat
         /\ DOMAIN O \subseteq Int
         /\ \A p \in DOMAIN O : O[p] \in Nat
BY Parameters DEF Typed

LEMMA TypedAgain ==
  ASSUME NEW side \in Sides, NEW B \in [Places -> Level], NEW P \in Maps,
         \A i \in Places : /\ B[i].price \in Prices \cup {LB!Worst(side)}
                           /\ B[i].price = LB!Worst(side) => B[i].qty = 0,
         DOMAIN P \subseteq Prices \cup {LB!Worst(side)},
         LB!Worst(side) \in DOMAIN P, P[LB!Worst(side)] = 0
  PROVE  Typed(side, B, P)
<1>1. P \in [DOMAIN P -> Nat] /\ IsFiniteSet(DOMAIN P)
  BY InMaps
<1>2. B \in [Places -> [qty : Nat, price : Prices \cup {LB!Worst(side)}]]
  BY DEF Level
<1> QED
  BY <1>1, <1>2 DEF Typed

\* A price that is behind the whole array.
LEMMA AddedBehind ==
  ASSUME NEW side \in Sides, NEW A, NEW O, WellKept(side, A, O),
         NEW P \in Maps, NEW price \in Prices, NEW qty \in Nat, NEW n \in Nat,
         n + qty < WordMod, Has(A, O, price, n),
         \A i \in Places : Better(side, A[i].price, price),
         MapSet(O, price, (InMap(O, price) + qty) % WordMod, P)
  PROVE  /\ WellKept(side, A, P)
         /\ Has(A, P, price, n + qty)
         /\ SameElsewhere(A, O, A, P, price)
<1>1. /\ \A i \in Places : A[i].price \in Int /\ A[i].qty \in Nat
      /\ DOMAIN O \subseteq Int /\ price \in Int /\ price # LB!Worst(side)
  BY TypedInts, Parameters DEF WellKept
<1>2. \A i \in Places : A[i].price # price
  BY <1>1 DEF Better
<1>3. n = InMap(O, price)
  BY <1>2 DEF Has
<1>4. P[price] = n + qty
  BY <1>3, Parameters DEF MapSet
<1>5. Typed(side, A, P)
  <2>1. A \in [Places -> Level]
    BY Parameters DEF WellKept, Typed, Level
  <2> QED
    BY <1>1, <2>1, TypedAgain DEF WellKept, Typed, MapSet
<1>6. Sorted(side, A, P)
  <2>1. ASSUME NEW i \in Places, NEW p \in DOMAIN P
        PROVE  ~Better(side, p, A[i].price)
    <3>1. CASE p = price
      BY <1>1, <3>1 DEF Better
    <3>2. CASE p # price
      BY <3>2 DEF MapSet, WellKept, Sorted
    <3> QED
      BY <3>1, <3>2
  <2> QED
    BY <2>1 DEF WellKept, Sorted
<1>7. OnceEach(A, P)
  BY <1>2 DEF WellKept, OnceEach, MapSet
<1>8. Has(A, P, price, n + qty)
  BY <1>2, <1>4 DEF Has, InMap, MapSet
<1>9. SameElsewhere(A, O, A, P, price)
  BY DEF SameElsewhere, Has, InMap, MapSet
<1> QED
  BY <1>5, <1>6, <1>7, <1>8, <1>9 DEF WellKept

\* The first level of a price is changed in its place.
LEMMA ChangedInPlace ==
  ASSUME NEW side \in Sides, NEW A, NEW O, WellKept(side, A, O), O \in Maps,
         NEW B \in [Places -> Level], NEW at \in Places, NEW n \in Nat,
         A[at].price \in Prices,
         \A j \in Places : j < at => A[j].price # A[at].price,
         PlaceSet(A, at, n, B)
  PROVE  /\ WellKept(side, B, O)
         /\ Has(B, O, A[at].price, n)
         /\ SameElsewhere(A, O, B, O, A[at].price)
<1>1. \A j \in Places : B[j].price = A[j].price
  BY DEF PlaceSet
<1>2. \A j \in Places : j # at => B[j].qty = A[j].qty
  BY DEF PlaceSet
<1>3. A[at].price # LB!Worst(side)
  BY Parameters
<1>4. Typed(side, B, O)
  BY <1>1, <1>2, <1>3, TypedAgain DEF WellKept, Typed
<1>5. Sorted(side, B, O)
  BY <1>1 DEF WellKept, Sorted
<1>6. OnceEach(B, O)
  BY <1>1, <1>2 DEF WellKept, OnceEach
<1>7. Has(B, O, A[at].price, n)
  BY <1>1 DEF Has, PlaceSet
<1>8. SameElsewhere(A, O, B, O, A[at].price)
  BY <1>1, <1>2 DEF SameElsewhere, Has
<1> QED
  BY <1>4, <1>5, <1>6, <1>7, <1>8 DEF WellKept

\* A level comes in between two others, and the last one goes to the map.
LEMMA ComesBetween ==
  ASSUME NEW side \in Sides, NEW A, NEW O, WellKept(side, A, O),
         NEW B \in [Places -> Level], NEW P \in Maps, NEW at \in Places,
         NEW price \in Prices, NEW qty \in Nat, NEW n, Has(A, O, price, n),
         Reached(side, A, price, at), A[at].price # price,
         ShiftedIn(A, at, [qty |-> qty, price |-> price], B),
         PushedOut(O, A[Depth], P)
  PROVE  /\ WellKept(side, B, P)
         /\ n = 0 /\ Has(B, P, price, qty)
         /\ SameElsewhere(A, O, B, P, price)
<1> DEFINE worst == LB!Worst(side)
           last == A[Depth]
<1>1. /\ \A i \in Places : A[i].price \in Int /\ A[i].qty \in Nat
      /\ \A i \in Places : A[i].price \in Prices \cup {worst}
      /\ DOMAIN O \subseteq Int /\ price \in Int /\ price # worst
      /\ Depth \in Places /\ Depth \in Nat /\ Places = 1..Depth
  BY TypedInts, Parameters DEF WellKept, Typed, Places
<1>2. \A i \in Places : ~(i < at) => Better(side, price, A[i].price)
  <2>1. Better(side, price, A[at].price)
    BY <1>1 DEF Reached, Better
  <2> SUFFICES ASSUME NEW i \in Places, ~(i < at), i # at
               PROVE  Better(side, price, A[i].price)
    BY <2>1
  <2>2. at < i
    BY <1>1
  <2>3. ~Better(side, A[i].price, A[at].price)
    BY <2>2 DEF WellKept, Sorted
  <2> QED
    BY <1>1, <2>1, <2>3 DEF Better
<1>3. \A i \in Places : i < at => Better(side, A[i].price, price)
  BY DEF Reached
<1>4. \A i \in Places : A[i].price # price
  BY <1>1, <1>2, <1>3 DEF Better
<1>5. price \notin DOMAIN O
  <2>1. Better(side, price, A[at].price)
    BY <1>1, <1>2
  <2> QED
    BY <2>1 DEF WellKept, Sorted
<1>6. n = 0
  BY <1>4, <1>5 DEF Has, InMap
<1>7. /\ B[at].price = price /\ B[at].qty = qty
      /\ \A j \in Places : j < at => B[j] = A[j]
      /\ \A j \in Places : j > at => j - 1 \in Places /\ B[j] = A[j - 1]
  <2>1. \A j \in Places : j > at => j - 1 \in Places /\ ~(j < at) /\ j # at
    BY <1>1
  <2> QED
    BY <2>1 DEF ShiftedIn
<1>8. /\ DOMAIN P \subseteq DOMAIN O \cup {last.price}
      /\ DOMAIN O \subseteq DOMAIN P
      /\ \A p \in DOMAIN O : p # last.price => P[p] = O[p]
      /\ last.qty = 0 => P = O
      /\ last.qty # 0 => last.price \in DOMAIN P /\ P[last.price] = last.qty
  BY DEF PushedOut, MapSet
<1>9. last.qty # 0 => /\ last.price # worst
                      /\ \A i \in Places : i < Depth => A[i].price # last.price
  BY <1>1 DEF WellKept, Typed, OnceEach
<1>10. Typed(side, B, P)
  <2>1. \A i \in Places : /\ B[i].price \in Prices \cup {worst}
                          /\ B[i].price = worst => B[i].qty = 0
    <3> SUFFICES ASSUME NEW i \in Places
                 PROVE  /\ B[i].price \in Prices \cup {worst}
                        /\ B[i].price = worst => B[i].qty = 0
      OBVIOUS
    <3>1. i < at \/ i = at \/ i > at
      BY <1>1
    <3>2. \A j \in Places : /\ A[j].price \in Prices \cup {worst}
                            /\ A[j].price = worst => A[j].qty = 0
      BY <1>1 DEF WellKept, Typed
    <3>3. CASE i < at
      BY <1>7, <3>2, <3>3
    <3>4. CASE i = at
      BY <1>1, <1>7, <3>4
    <3>5. CASE i > at
      BY <1>7, <3>2, <3>5
    <3> QED
      BY <3>1, <3>3, <3>4, <3>5
  <2>2. worst \in DOMAIN P /\ P[worst] = 0
    BY <1>8, <1>9 DEF WellKept, Typed
  <2>3. DOMAIN P \subseteq Prices \cup {worst}
    BY <1>1, <1>8 DEF WellKept, Typed
  <2> HIDE DEF worst
  <2> QED
    BY <2>1, <2>2, <2>3, TypedAgain DEF worst
<1>11. \A i \in Places : B[i].price \in Int
  BY <1>10, TypedInts
<1>12. Sorted(side, B, P)
  <2>1. ASSUME NEW i \in Places, NEW j \in Places, i < j
        PROVE  ~Better(side, B[j].price, B[i].price)
    <3>1. CASE j < at
      BY <1>1, <1>7, <2>1, <3>1 DEF WellKept, Sorted
    <3>2. CASE j = at
      BY <1>1, <1>3, <1>7, <2>1, <3>2 DEF Better
    <3>3. CASE j > at
      <4>1. j - 1 \in Places /\ B[j] = A[j - 1] /\ ~(j - 1 < at)
        BY <1>1, <1>7, <3>3
      <4>2. CASE i = at
        BY <1>1, <1>2, <1>7, <4>1, <4>2 DEF Better
      <4>3. CASE i < at
        <5>1. B[i] = A[i] /\ i < j - 1
          BY <1>1, <1>7, <4>1, <4>3
        <5> QED
          BY <4>1, <5>1 DEF WellKept, Sorted
      <4>4. CASE i > at
        <5>1. i - 1 \in Places /\ B[i] = A[i - 1] /\ i - 1 < j - 1
          BY <1>1, <1>7, <2>1, <4>4
        <5> QED
          BY <4>1, <5>1 DEF WellKept, Sorted
      <4> QED
        BY <1>1, <4>2, <4>3, <4>4
    <3> QED
      BY <1>1, <3>1, <3>2, <3>3
  <2>2. ASSUME NEW i \in Places, NEW p \in DOMAIN P
        PROVE  ~Better(side, p, B[i].price)
    <3>1. \A j \in Places : ~Better(side, p, A[j].price)
      <4>1. CASE p \in DOMAIN O
        BY <4>1 DEF WellKept, Sorted
      <4>2. CASE p \notin DOMAIN O
        <5>1. p = A[Depth].price
          BY <1>8, <4>2
        <5>2. \A j \in Places : j = Depth \/ j < Depth
          BY <1>1
        <5>3. ~Better(side, p, p)
          BY <1>1, <5>1 DEF Better
        <5> QED
          BY <1>1, <5>1, <5>2, <5>3 DEF WellKept, Sorted
      <4> QED
        BY <4>1, <4>2
    <3>2. p \in Int
      BY <1>1, <1>8
    <3>3. CASE i = at
      BY <1>1, <1>2, <1>7, <3>1, <3>2, <3>3 DEF Better
    <3>4. CASE i < at
      BY <1>7, <3>1, <3>4
    <3>5. CASE i > at
      BY <1>7, <3>1, <3>5
    <3> QED
      BY <1>1, <3>3, <3>4, <3>5
  <2> QED
    BY <2>1, <2>2 DEF Sorted
<1>13. OnceEach(B, P)
  <2>1. ASSUME NEW i \in Places, NEW j \in Places, i < j, B[i].price = B[j].price
        PROVE  B[j].qty = 0
    <3>1. i # at /\ j # at
      BY <1>1, <1>4, <1>7, <2>1
    <3>2. CASE j < at
      BY <1>1, <1>7, <2>1, <3>2 DEF WellKept, OnceEach
    <3>3. CASE j > at
      <4>1. j - 1 \in Places /\ B[j] = A[j - 1]
        BY <1>7, <3>3
      <4>2. CASE i < at
        <5>1. B[i] = A[i] /\ i < j - 1
          BY <1>1, <1>7, <3>3, <4>1, <4>2
        <5> QED
          BY <2>1, <4>1, <5>1 DEF WellKept, OnceEach
      <4>3. CASE i > at
        <5>1. i - 1 \in Places /\ B[i] = A[i - 1] /\ i - 1 < j - 1
          BY <1>1, <1>7, <2>1, <4>3
        <5> QED
          BY <2>1, <4>1, <5>1 DEF WellKept, OnceEach
      <4> QED
        BY <1>1, <3>1, <4>2, <4>3
    <3> QED
      BY <1>1, <3>1, <3>2, <3>3
  <2>2. ASSUME NEW i \in Places, B[i].price \in DOMAIN P
        PROVE  P[B[i].price] = 0
    <3>1. CASE i = at
      <4>1. last.price # price
        BY <1>1, <1>4
      <4> QED
        BY <1>5, <1>7, <1>8, <2>2, <3>1, <4>1
    <3>2. CASE i # at
      <4>1. PICK k \in Places : k < Depth /\ B[i] = A[k]
        <5>1. CASE i < at
          BY <1>1, <1>7, <5>1
        <5>2. CASE i > at
          <6>1. i - 1 \in Places /\ B[i] = A[i - 1] /\ i - 1 < Depth
            BY <1>1, <1>7, <5>2
          <6> QED
            BY <6>1
        <5> QED
          BY <1>1, <3>2, <5>1, <5>2
      <4>2. CASE last.qty = 0
        BY <1>8, <2>2, <4>1, <4>2 DEF WellKept, OnceEach
      <4>3. CASE last.qty # 0
        <5>1. A[k].price # last.price
          BY <1>9, <4>1, <4>3
        <5> QED
          BY <1>8, <2>2, <4>1, <5>1 DEF WellKept, OnceEach
      <4> QED
        BY <4>2, <4>3
    <3> QED
      BY <3>1, <3>2
  <2> QED
    BY <2>1, <2>2 DEF OnceEach
<1>14. Has(B, P, price, qty)
  <2>1. \A j \in Places : j < at => B[j].price # price
    BY <1>4, <1>7
  <2> QED
    BY <1>7, <2>1 DEF Has
<1>15. ASSUME NEW p, NEW m, p # price, Has(A, O, p, m)
       PROVE  Has(B, P, p, m)
  <2>1. CASE \E i \in Places : /\ A[i].price = p /\ A[i].qty = m
                               /\ \A j \in Places : j < i => A[j].price # p
    <3>1. PICK i \in Places : /\ A[i].price = p /\ A[i].qty = m
                              /\ \A j \in Places : j < i => A[j].price # p
      BY <2>1
    <3>2. CASE i < at
      <4>1. B[i] = A[i] /\ \A j \in Places : j < i => B[j] = A[j]
        BY <1>1, <1>7, <3>2
      <4> QED
        BY <3>1, <4>1 DEF Has
    <3>3. CASE ~(i < at) /\ i < Depth
      <4>1. i + 1 \in Places /\ i + 1 > at /\ (i + 1) - 1 = i
        BY <1>1, <3>3
      <4>2. B[i + 1] = A[i]
        BY <1>7, <4>1
      <4>3. ASSUME NEW j \in Places, j < i + 1
            PROVE  B[j].price # p
        <5>1. CASE j < at
          BY <1>1, <1>7, <3>1, <3>3, <5>1
        <5>2. CASE j = at
          BY <1>7, <1>15, <5>2
        <5>3. CASE j > at
          <6>1. j - 1 \in Places /\ B[j] = A[j - 1] /\ j - 1 < i
            BY <1>1, <1>7, <4>3, <5>3
          <6> QED
            BY <3>1, <6>1
        <5> QED
          BY <1>1, <5>1, <5>2, <5>3
      <4> QED
        BY <3>1, <4>1, <4>2, <4>3 DEF Has
    <3>4. CASE i = Depth
      <4>1. ASSUME NEW j \in Places
            PROVE  B[j].price # p
        <5>1. CASE j < at
          BY <1>1, <1>7, <3>1, <3>4, <5>1
        <5>2. CASE j = at
          BY <1>7, <1>15, <5>2
        <5>3. CASE j > at
          <6>1. j - 1 \in Places /\ B[j] = A[j - 1] /\ j - 1 < i
            BY <1>1, <1>7, <3>4, <5>3
          <6> QED
            BY <3>1, <6>1
        <5> QED
          BY <1>1, <5>1, <5>2, <5>3
      <4>2. m = InMap(P, p)
        <5>1. CASE last.qty = 0
          BY <1>8, <3>1, <3>4, <5>1 DEF WellKept, OnceEach, InMap
        <5>2. CASE last.qty # 0
          BY <1>8, <3>1, <3>4, <5>2 DEF InMap
        <5> QED
          BY <5>1, <5>2
      <4> QED
        BY <4>1, <4>2 DEF Has
    <3> QED
      BY <1>1, <3>2, <3>3, <3>4
  <2>2. CASE (\A i \in Places : A[i].price # p) /\ m = InMap(O, p)
    <3>1. \A j \in Places : B[j].price # p
      <4> SUFFICES ASSUME NEW j \in Places PROVE B[j].price # p
        OBVIOUS
      <4>1. j < at \/ j = at \/ j > at
        BY <1>1
      <4> QED
        BY <1>7, <1>15, <2>2, <4>1
    <3>2. p # last.price
      BY <1>1, <2>2
    <3>3. InMap(P, p) = InMap(O, p)
      BY <1>8, <3>2 DEF InMap
    <3> QED
      BY <2>2, <3>1, <3>3 DEF Has
  <2> QED
    BY <1>15, <2>1, <2>2 DEF Has
<1> QED
  BY <1>6, <1>10, <1>12, <1>13, <1>14, <1>15 DEF WellKept, SameElsewhere

\* A level behind the array gets smaller, or empty.
LEMMA TakenBehind ==
  ASSUME NEW side \in Sides, NEW A, NEW O, WellKept(side, A, O),
         NEW P \in Maps, NEW price \in Prices, NEW qty \in Nat \ {0}, NEW n \in Nat,
         qty <= n, n < WordMod, Has(A, O, price, n),
         \A i \in Places : A[i].price # price,
         MapSet(O, price, (InMap(O, price) - qty) % WordMod, P)
  PROVE  /\ WellKept(side, A, P)
         /\ Has(A, P, price, n - qty)
         /\ SameElsewhere(A, O, A, P, price)
         /\ price \in DOMAIN O /\ O[price] = n /\ P[price] = n - qty
<1>1. price # LB!Worst(side)
  BY Parameters
<1>2. n = InMap(O, price)
  BY DEF Has
<1>3. price \in DOMAIN O /\ O[price] = n
  BY <1>2 DEF InMap
<1>4. P[price] = n - qty /\ DOMAIN P = DOMAIN O
  BY <1>2, <1>3, Parameters DEF MapSet
<1>5. Typed(side, A, P)
  <2>1. A \in [Places -> Level]
    BY Parameters DEF WellKept, Typed, Level
  <2> QED
    BY <1>1, <1>4, <2>1, TypedAgain DEF WellKept, Typed, MapSet
<1>6. Sorted(side, A, P)
  BY <1>4 DEF WellKept, Sorted
<1>7. OnceEach(A, P)
  BY <1>4 DEF WellKept, OnceEach, MapSet
<1>8. Has(A, P, price, n - qty)
  BY <1>3, <1>4 DEF Has, InMap
<1>9. SameElsewhere(A, O, A, P, price)
  BY DEF SameElsewhere, Has, InMap, MapSet
<1> QED
  BY <1>3, <1>4, <1>5, <1>6, <1>7, <1>8, <1>9 DEF WellKept

\* A level that is used up makes room for the first one of the map.
LEMMA UsedUp ==
  ASSUME NEW side \in Sides, NEW A, NEW O, WellKept(side, A, O),
         NEW B \in [Places -> Level], NEW P \in Maps, NEW at \in Places,
         \A j \in Places : j < at => A[j].price # A[at].price,
         A[at].qty # 0, NEW x, ShiftedOut(A, at, x, B), Promoted(side, O, x, P)
  PROVE  /\ WellKept(side, B, P)
         /\ Has(B, P, A[at].price, 0)
         /\ SameElsewhere(A, O, B, P, A[at].price)
<1> DEFINE worst == LB!Worst(side)
           price == A[at].price
<1>1. /\ \A i \in Places : A[i].price \in Int /\ A[i].qty \in Nat
      /\ \A i \in Places : A[i].price \in Prices \cup {worst}
      /\ DOMAIN O \subseteq Int
      /\ Depth \in Places /\ Depth \in Nat /\ Places = 1..Depth
  BY TypedInts, Parameters DEF WellKept, Typed, Places
<1>2. worst \in DOMAIN O /\ O[worst] = 0
  BY DEF WellKept, Typed
<1>3. /\ x.price \in DOMAIN O /\ x.qty = O[x.price]
      /\ \A q \in DOMAIN O : ~Better(side, q, x.price)
      /\ x.qty = 0 => P = O
      /\ x.qty # 0 => DOMAIN P = DOMAIN O \ {x.price}
      /\ DOMAIN P \subseteq DOMAIN O /\ \A p \in DOMAIN P : P[p] = O[p]
      /\ \A p \in DOMAIN O : p # x.price => p \in DOMAIN P
  BY <1>2 DEF Promoted
<1>4. /\ \A j \in Places : j < at => B[j] = A[j]
      /\ \A j \in Places : ~(j < at) /\ j < Depth => j + 1 \in Places /\ B[j] = A[j + 1]
      /\ B[Depth] = x
  <2>1. \A j \in Places : j < Depth => j + 1 \in Places /\ j # Depth
    BY <1>1
  <2>2. ~(Depth < at)
    BY <1>1
  <2> QED
    BY <1>1, <2>1, <2>2 DEF ShiftedOut
<1>5. ASSUME NEW j \in Places, j < Depth
      PROVE  \E k \in Places : B[j] = A[k] /\ (j < at => k = j) /\ (~(j < at) => k = j + 1)
  BY <1>1, <1>4, <1>5
<1>6. \A i \in Places : A[i].price \in DOMAIN O => O[A[i].price] = 0
  BY DEF WellKept, OnceEach
<1>7. Typed(side, B, P)
  <2>1. \A i \in Places : /\ B[i].price \in Prices \cup {worst}
                          /\ B[i].price = worst => B[i].qty = 0
    <3> SUFFICES ASSUME NEW i \in Places
                 PROVE  /\ B[i].price \in Prices \cup {worst}
                        /\ B[i].price = worst => B[i].qty = 0
      OBVIOUS
    <3>1. CASE i < Depth
      <4>1. PICK k \in Places : B[i] = A[k]
        BY <1>5, <3>1
      <4> QED
        BY <4>1 DEF WellKept, Typed
    <3>2. CASE i = Depth
      BY <1>2, <1>3, <1>4, <3>2 DEF WellKept, Typed
    <3> QED
      BY <1>1, <3>1, <3>2
  <2>2. worst \in DOMAIN P /\ P[worst] = 0
    BY <1>2, <1>3
  <2>3. DOMAIN P \subseteq Prices \cup {worst}
    BY <1>3 DEF WellKept, Typed
  <2> HIDE DEF worst
  <2> QED
    BY <2>1, <2>2, <2>3, TypedAgain DEF worst
<1>8. Sorted(side, B, P)
  <2>1. ASSUME NEW i \in Places, NEW j \in Places, i < j
        PROVE  ~Better(side, B[j].price, B[i].price)
    <3>1. i < Depth
      BY <1>1, <2>1
    <3>2. PICK k \in Places : B[i] = A[k] /\ (i < at => k = i) /\ (~(i < at) => k = i + 1)
      BY <1>5, <3>1
    <3>3. CASE j < Depth
      <4>1. PICK l \in Places : B[j] = A[l] /\ (j < at => l = j) /\ (~(j < at) => l = j + 1)
        BY <1>5, <3>3
      <4>2. k < l
        BY <1>1, <2>1, <3>2, <4>1
      <4> QED
        BY <3>2, <4>1, <4>2 DEF WellKept, Sorted
    <3>4. CASE j = Depth
      BY <1>3, <1>4, <3>2, <3>4 DEF WellKept, Sorted
    <3> QED
      BY <1>1, <3>3, <3>4
  <2>2. ASSUME NEW i \in Places, NEW p \in DOMAIN P
        PROVE  ~Better(side, p, B[i].price)
    <3>1. CASE i < Depth
      <4>1. PICK k \in Places : B[i] = A[k]
        BY <1>5, <3>1
      <4> QED
        BY <1>3, <4>1 DEF WellKept, Sorted
    <3>2. CASE i = Depth
      BY <1>3, <1>4, <3>2
    <3> QED
      BY <1>1, <3>1, <3>2
  <2> QED
    BY <2>1, <2>2 DEF Sorted
<1>9. OnceEach(B, P)
  <2>1. ASSUME NEW i \in Places, NEW j \in Places, i < j, B[i].price = B[j].price
        PROVE  B[j].qty = 0
    <3>1. i < Depth
      BY <1>1, <2>1
    <3>2. PICK k \in Places : B[i] = A[k] /\ (i < at => k = i) /\ (~(i < at) => k = i + 1)
      BY <1>5, <3>1
    <3>3. CASE j < Depth
      <4>1. PICK l \in Places : B[j] = A[l] /\ (j < at => l = j) /\ (~(j < at) => l = j + 1)
        BY <1>5, <3>3
      <4>2. k < l
        BY <1>1, <2>1, <3>2, <4>1
      <4> QED
        BY <2>1, <3>2, <4>1, <4>2 DEF WellKept, OnceEach
    <3>4. CASE j = Depth
      BY <1>3, <1>4, <1>6, <2>1, <3>2, <3>4
    <3> QED
      BY <1>1, <3>3, <3>4
  <2>2. ASSUME NEW i \in Places, B[i].price \in DOMAIN P
        PROVE  P[B[i].price] = 0
    <3>1. CASE i < Depth
      <4>1. PICK k \in Places : B[i] = A[k]
        BY <1>5, <3>1
      <4> QED
        BY <1>3, <1>6, <2>2, <4>1
    <3>2. CASE i = Depth
      BY <1>3, <1>4, <2>2, <3>2
    <3> QED
      BY <1>1, <3>1, <3>2
  <2> QED
    BY <2>1, <2>2 DEF OnceEach
<1>10. ASSUME NEW p, NEW m, \A i \in Places : i # at => A[i].price # p,
              m = InMap(O, p)
       PROVE  Has(B, P, p, m)
  <2>1. ASSUME NEW j \in Places, j < Depth
        PROVE  B[j].price # p
    <3>1. PICK k \in Places : B[j] = A[k] /\ k # at
      BY <1>1, <1>5, <2>1
    <3> QED
      BY <1>10, <3>1
  <2>2. CASE x.price = p
    <3>1. B[Depth].price = p /\ B[Depth].qty = m
      BY <1>3, <1>4, <1>10, <2>2 DEF InMap
    <3> QED
      BY <1>1, <2>1, <3>1 DEF Has
  <2>3. CASE x.price # p
    <3>1. \A j \in Places : B[j].price # p
      <4> SUFFICES ASSUME NEW j \in Places PROVE B[j].price # p
        OBVIOUS
      <4>1. CASE j = Depth
        BY <1>4, <2>3, <4>1
      <4> QED
        BY <1>1, <2>1, <4>1
    <3>2. InMap(P, p) = InMap(O, p)
      BY <1>3, <2>3 DEF InMap
    <3> QED
      BY <1>10, <3>1, <3>2 DEF Has
  <2> QED
    BY <2>2, <2>3
<1>11. ASSUME NEW p, NEW i \in Places, A[i].price = p, i # at,
              \A j \in Places : j < i /\ j # at => A[j].price # p
       PROVE  Has(B, P, p, A[i].qty)
  <2>1. CASE i < at
    <3>1. B[i] = A[i] /\ \A j \in Places : j < i => B[j] = A[j] /\ j # at
      BY <1>1, <1>4, <2>1
    <3> QED
      BY <1>11, <3>1 DEF Has
  <2>2. CASE i > at
    <3>1. i - 1 \in Places /\ ~(i - 1 < at) /\ i - 1 < Depth /\ (i - 1) + 1 = i
      BY <1>1, <2>2
    <3>2. B[i - 1] = A[i]
      BY <1>4, <3>1
    <3>3. ASSUME NEW j \in Places, j < i - 1
          PROVE  B[j].price # p
      <4>1. j < Depth
        BY <1>1, <3>1, <3>3
      <4>2. PICK k \in Places : B[j] = A[k] /\ (j < at => k = j) /\ (~(j < at) => k = j + 1)
        BY <1>5, <4>1
      <4>3. k < i /\ k # at
        BY <1>1, <3>3, <4>2
      <4> QED
        BY <1>11, <4>2, <4>3
    <3> QED
      BY <1>11, <3>1, <3>2, <3>3 DEF Has
  <2> QED
    BY <1>1, <1>11, <2>1, <2>2
<1>12. Has(B, P, price, 0)
  <2>1. CASE \E i \in Places : i # at /\ A[i].price = price
    <3> DEFINE T == {i \in Places : i # at /\ A[i].price = price}
    <3>1. T \subseteq Nat /\ T # {}
      BY <1>1, <2>1
    <3> HIDE DEF T
    <3>2. PICK i \in T : \A j \in T : i <= j
      BY <3>1, LeastNatural
    <3>3. i \in Places /\ i # at /\ A[i].price = price
      BY <3>2 DEF T
    <3>4. \A j \in Places : j < i /\ j # at => A[j].price # price
      <4> SUFFICES ASSUME NEW j \in Places, j < i, j # at
                   PROVE  A[j].price # price
        OBVIOUS
      <4>1. j \notin T
        BY <1>1, <3>1, <3>2, <3>3
      <4> QED
        BY <4>1 DEF T
    <3>5. at < i
      BY <1>1, <3>3
    <3>6. A[i].qty = 0
      BY <3>3, <3>5 DEF WellKept, OnceEach
    <3> QED
      BY <1>11, <3>3, <3>4, <3>6
  <2>2. CASE \A i \in Places : i # at => A[i].price # price
    <3>1. InMap(O, price) = 0
      BY <1>6 DEF InMap
    <3> QED
      BY <1>10, <2>2, <3>1
  <2> QED
    BY <2>1, <2>2
<1>13. ASSUME NEW p, NEW m, p # price, Has(A, O, p, m)
       PROVE  Has(B, P, p, m)
  <2>1. CASE \E i \in Places : /\ A[i].price = p /\ A[i].qty = m
                               /\ \A j \in Places : j < i => A[j].price # p
    <3>1. PICK i \in Places : /\ A[i].price = p /\ A[i].qty = m
                              /\ \A j \in Places : j < i => A[j].price # p
      BY <2>1
    <3> QED
      BY <1>11, <1>13, <3>1
  <2>2. CASE (\A i \in Places : A[i].price # p) /\ m = InMap(O, p)
    BY <1>10, <2>2
  <2> QED
    BY <1>13, <2>1, <2>2 DEF Has
<1> QED
  BY <1>7, <1>8, <1>9, <1>12, <1>13 DEF WellKept, SameElsewhere

-----------------------------------------------------------------------------
(* A book that keeps a table of quantities.                                  *)

Tables == [Sides -> [Prices -> Nat]]

KeepsSide(side, b, row) ==
  /\ WellKept(side, b.array[side], b.outer[side])
  /\ \A p \in Prices : Has(b.array[side], b.outer[side], p, row[p])

Keeps(b, table) == b \in Book /\ \A side \in Sides : KeepsSide(side, b, table[side])

\* book_id_ moves with the visible levels.
Counted(b, c) == c.id = b.id + IF c.array = b.array THEN 0 ELSE 1

LEMMA OneRow ==
  ASSUME NEW table \in Tables, NEW side \in Sides, NEW price \in Prices, NEW n \in Nat,
         NEW next, next = [table EXCEPT ![side][price] = n]
  PROVE  /\ next \in Tables
         /\ next[side][price] = n
         /\ \A p \in Prices : p # price => next[side][p] = table[side][p]
         /\ \A t \in Sides : t # side => next[t] = table[t]
BY DEF Tables

LEMMA KeepsOneSide ==
  ASSUME NEW b, NEW table \in Tables, Keeps(b, table), NEW side \in Sides,
         NEW price \in Prices, NEW n \in Nat,
         NEW c, OneSide(b, c, side), WellKept(side, c.array[side], c.outer[side]),
         Has(c.array[side], c.outer[side], price, n),
         SameElsewhere(b.array[side], b.outer[side], c.array[side], c.outer[side], price)
  PROVE  Keeps(c, [table EXCEPT ![side][price] = n])
<1>1. PICK next : next = [table EXCEPT ![side][price] = n]
  OBVIOUS
<1>2. /\ next[side][price] = n
      /\ \A p \in Prices : p # price => next[side][p] = table[side][p]
      /\ \A t \in Sides : t # side => next[t] = table[t]
  BY <1>1, OneRow
<1>3. KeepsSide(side, c, next[side])
  BY <1>2 DEF KeepsSide, Keeps, SameElsewhere
<1>4. \A t \in Sides : t # side => KeepsSide(t, c, next[t])
  BY <1>2 DEF KeepsSide, Keeps, OneSide
<1>5. c \in Book
  BY DEF OneSide
<1> QED
  BY <1>1, <1>3, <1>4, <1>5 DEF Keeps

\* A submit.
LEMMA AddKeeps ==
  ASSUME NEW b, NEW table \in Tables, Keeps(b, table), NEW side \in Sides,
         NEW price \in Prices, NEW qty \in Nat \ {0},
         table[side][price] + qty < WordMod,
         NEW c, c = LB!AddQty(b, side, price, qty)
  PROVE  /\ Keeps(c, [table EXCEPT ![side][price] = @ + qty])
         /\ Counted(b, c)
         /\ NoGhost(b) => NoGhost(c)
<1> DEFINE A == b.array[side]
           B == c.array[side]
           O == b.outer[side]
           P == c.outer[side]
           n == table[side][price]
<1>1. b \in Book /\ price \in Int /\ qty \in Nat
  BY Parameters DEF Keeps
<1>2. OneSide(b, c, side) /\ Added(side, price, qty, b, c)
  BY <1>1, AddQtyIs
<1>3. /\ WellKept(side, A, O) /\ Has(A, O, price, n) /\ n \in Nat /\ n + qty < WordMod
      /\ n + qty # 0
  BY DEF Keeps, KeepsSide, Tables
<1>4. /\ B \in [Places -> Level] /\ P \in Maps /\ A \in [Places -> Level] /\ O \in Maps
      /\ b.id \in Nat
  BY <1>1, <1>2 DEF OneSide, Book
<1>5. n + qty \in Nat
  BY <1>3
<1>6. Depth \in Places /\ Places = 1..Depth
  BY Parameters DEF Places
<1>7. price # LB!Worst(side)
  BY Parameters
<1>12. \A t \in Sides : t # side => c.array[t] = b.array[t] /\ c.outer[t] = b.outer[t]
  BY <1>2 DEF OneSide
<1>13. c.array \in [Sides -> [Places -> Level]] /\ b.array \in [Sides -> [Places -> Level]]
  BY <1>1, <1>2 DEF OneSide, Book
<1> DEFINE moved == WellKept(side, B, P) /\ Has(B, P, price, n + qty)
                    /\ SameElsewhere(A, O, B, P, price)
           clean == NoGhost(b) =>
                      /\ \A p \in DOMAIN P : p # LB!Worst(side) => P[p] > 0
                      /\ \A i \in Places : B[i].price # LB!Worst(side) => B[i].qty > 0
<1>8. moved /\ Counted(b, c) /\ clean
  <2>1. CASE /\ \A i \in Places : Better(side, A[i].price, price)
             /\ B = A
             /\ MapSet(O, price, (InMap(O, price) + qty) % WordMod, P)
             /\ c.id = b.id /\ c.event = "none"
    <3>1. /\ WellKept(side, A, P) /\ Has(A, P, price, n + qty)
          /\ SameElsewhere(A, O, A, P, price)
      <4> HIDE DEF n, A, O, P, B
      <4> QED
        BY <1>1, <1>3, <1>4, <2>1, AddedBehind
    <3>2. c.array = b.array
      <4>1. \A t \in Sides : c.array[t] = b.array[t]
        BY <1>12, <2>1
      <4>2. c.array = [t \in Sides |-> c.array[t]] /\ b.array = [t \in Sides |-> b.array[t]]
        BY <1>13
      <4> HIDE DEF A, B, O, P, n
      <4> QED
        BY <4>1, <4>2
    <3>3. P[price] = n + qty
      <4>1. \A i \in Places : A[i].price # price
        BY <1>1, <1>3, <2>1, TypedInts DEF Better, WellKept
      <4>2. price \in DOMAIN P
        BY <2>1 DEF MapSet
      <4> QED
        BY <3>1, <4>1, <4>2 DEF Has, InMap
    <3>4. ASSUME NoGhost(b)
          PROVE  /\ \A p \in DOMAIN P : p # LB!Worst(side) => P[p] > 0
                 /\ \A i \in Places : B[i].price # LB!Worst(side) => B[i].qty > 0
      <4>1. /\ \A p \in DOMAIN O : p # LB!Worst(side) => O[p] > 0
            /\ \A i \in Places : A[i].price # LB!Worst(side) => A[i].qty > 0
        BY <3>4 DEF NoGhost, Places
      <4>2. \A p \in DOMAIN P : p # price => p \in DOMAIN O /\ P[p] = O[p]
        BY <2>1 DEF MapSet
      <4> HIDE DEF A, B, O, P, n
      <4>3. n + qty > 0
        BY <1>3
      <4> QED
        BY <2>1, <3>3, <4>1, <4>2, <4>3
    <3> QED
      BY <1>4, <2>1, <3>1, <3>2, <3>4 DEF Counted
  <2>2. ASSUME NEW at \in Places, Reached(side, A, price, at), c.id = b.id + 1,
               A[at].price = price, PlaceSet(A, at, (A[at].qty + qty) % WordMod, B), P = O
        PROVE  moved /\ Counted(b, c) /\ clean
    <3>1. \A j \in Places : j < at => A[j].price # price
      <4>1. \A j \in Places : j < at => Better(side, A[j].price, price)
        BY <2>2 DEF Reached
      <4> QED
        BY <1>1, <4>1 DEF Better
    <3>2. A[at].qty = n
      <4>1. Has(A, O, price, A[at].qty)
        BY <2>2, <3>1 DEF Has
      <4> HIDE DEF n, A, O
      <4> QED
        BY <1>3, <4>1, HasUnique
    <3>3. PlaceSet(A, at, n + qty, B)
      <4>1. (n + qty) % WordMod = n + qty
        <5> HIDE DEF n
        <5> QED
          BY <1>3, Parameters
      <4> QED
        BY <2>2, <3>2, <4>1
    <3>4. /\ WellKept(side, B, O) /\ Has(B, O, price, n + qty)
          /\ SameElsewhere(A, O, B, O, price)
      <4>1. A[at].price \in Prices /\ \A j \in Places : j < at => A[j].price # A[at].price
        BY <2>2, <3>1
      <4> HIDE DEF n, A, O, P, B
      <4> QED
        BY <1>3, <1>4, <1>5, <2>2, <3>3, <4>1, ChangedInPlace
    <3>5. c.array # b.array
      <4>1. B[at].qty # A[at].qty
        BY <1>3, <3>2, <3>3 DEF PlaceSet
      <4> QED
        BY <4>1
    <3>6. ASSUME NoGhost(b)
          PROVE  /\ \A p \in DOMAIN P : p # LB!Worst(side) => P[p] > 0
                 /\ \A i \in Places : B[i].price # LB!Worst(side) => B[i].qty > 0
      <4>1. /\ \A p \in DOMAIN O : p # LB!Worst(side) => O[p] > 0
            /\ \A i \in Places : A[i].price # LB!Worst(side) => A[i].qty > 0
        BY <3>6 DEF NoGhost, Places
      <4>2. B[at].qty > 0 /\ \A i \in Places : i # at => B[i] = A[i]
        BY <1>3, <3>3 DEF PlaceSet
      <4> HIDE DEF A, B, O, P, n
      <4> QED
        BY <2>2, <4>1, <4>2
    <3> QED
      BY <2>2, <3>4, <3>5, <3>6 DEF Counted
  <2>3. ASSUME NEW at \in Places, Reached(side, A, price, at), c.id = b.id + 1,
               A[at].price # price,
               ShiftedIn(A, at, [qty |-> qty, price |-> price], B),
               PushedOut(O, A[Depth], P)
        PROVE  moved /\ Counted(b, c) /\ clean
    <3>1. /\ WellKept(side, B, P) /\ n = 0 /\ Has(B, P, price, qty)
          /\ SameElsewhere(A, O, B, P, price)
      <4> HIDE DEF n, A, O, P, B
      <4> QED
        BY <1>1, <1>3, <1>4, <2>3, ComesBetween
    <3>2. Has(B, P, price, n + qty)
      BY <3>1
    <3>3. B[at] = [qty |-> qty, price |-> price]
      BY <1>6, <2>3 DEF ShiftedIn
    <3>4. c.array # b.array
      <4>1. B[at].price # A[at].price
        BY <2>3, <3>3
      <4> QED
        BY <4>1
    <3>5. ASSUME NoGhost(b)
          PROVE  /\ \A p \in DOMAIN P : p # LB!Worst(side) => P[p] > 0
                 /\ \A i \in Places : B[i].price # LB!Worst(side) => B[i].qty > 0
      <4>1. /\ \A p \in DOMAIN O : p # LB!Worst(side) => O[p] > 0
            /\ \A i \in Places : A[i].price # LB!Worst(side) => A[i].qty > 0
        BY <3>5 DEF NoGhost, Places
      <4>2. \A p \in DOMAIN P : \/ p \in DOMAIN O /\ P[p] = O[p]
                                \/ P[p] = A[Depth].qty /\ A[Depth].qty # 0
        BY <2>3 DEF PushedOut, MapSet
      <4>3. A[Depth].qty \in Nat
        BY <1>4, <1>6 DEF Level
      <4>4. \A p \in DOMAIN P : p # LB!Worst(side) => P[p] > 0
        BY <4>1, <4>2, <4>3
      <4>5. ASSUME NEW i \in Places, B[i].price # LB!Worst(side)
            PROVE  B[i].qty > 0
        <5>1. CASE i < at
          BY <2>3, <4>1, <4>5, <5>1 DEF ShiftedIn
        <5>2. CASE i = at
          BY <3>3, <5>2
        <5>3. CASE i > at
          <6>1. i - 1 \in Places /\ ~(i < at) /\ i # at
            BY <1>6, <5>3
          <6>2. B[i] = A[i - 1]
            BY <2>3, <6>1 DEF ShiftedIn
          <6> QED
            BY <4>1, <4>5, <6>1, <6>2
        <5> QED
          BY <1>6, <5>1, <5>2, <5>3
      <4> QED
        BY <4>4, <4>5
    <3> QED
      BY <2>3, <3>1, <3>2, <3>4, <3>5 DEF Counted
  <2> QED
    BY <1>2, <2>1, <2>2, <2>3 DEF Added
<1>9. Keeps(c, [table EXCEPT ![side][price] = n + qty])
  <2> HIDE DEF n
  <2> QED
    BY <1>2, <1>5, <1>8, KeepsOneSide
<1>10. [table EXCEPT ![side][price] = @ + qty] = [table EXCEPT ![side][price] = n + qty]
  OBVIOUS
<1>11. NoGhost(b) => NoGhost(c)
  BY <1>8, <1>12 DEF NoGhost, Places
<1> QED
  BY <1>8, <1>9, <1>10, <1>11

\* A trade or a cancel: a ghost is a level behind the array that is used up.
LEMMA RemoveKeeps ==
  ASSUME NEW b, NEW table \in Tables, Keeps(b, table), NEW side \in Sides,
         NEW price \in Prices, NEW qty \in Nat \ {0},
         qty <= table[side][price], table[side][price] < WordMod,
         NEW type \in Events, NEW junk \in LB!Junk,
         NEW c, c = LB!RemoveQty(b, side, price, qty, type, junk)
  PROVE  /\ Keeps(c, [table EXCEPT ![side][price] = @ - qty])
         /\ Counted(b, c)
         /\ NoGhost(b) /\ ~NoGhost(c) =>
              /\ price \in DOMAIN b.outer[side]
              /\ b.outer[side][price] = qty /\ c.outer[side][price] = 0
<1> DEFINE A == b.array[side]
           B == c.array[side]
           O == b.outer[side]
           P == c.outer[side]
           n == table[side][price]
           moved == WellKept(side, B, P) /\ Has(B, P, price, n - qty)
                    /\ SameElsewhere(A, O, B, P, price)
           full(X, M) == /\ \A p \in DOMAIN M : p # LB!Worst(side) => M[p] > 0
                         /\ \A i \in Places : X[i].price # LB!Worst(side) => X[i].qty > 0
           clean == full(A, O) =>
                      \/ full(B, P)
                      \/ price \in DOMAIN O /\ O[price] = qty /\ P[price] = 0
<1>1. b \in Book /\ price \in Int /\ qty \in Nat /\ qty # 0
  BY Parameters DEF Keeps
<1>2. OneSide(b, c, side) /\ Removed(side, price, qty, type, b, c)
  BY <1>1, RemoveQtyIs
<1>3. WellKept(side, A, O) /\ Has(A, O, price, n) /\ n \in Nat /\ n < WordMod /\ qty <= n
  BY DEF Keeps, KeepsSide, Tables
<1>4. /\ B \in [Places -> Level] /\ P \in Maps /\ A \in [Places -> Level] /\ O \in Maps
      /\ b.id \in Nat
  BY <1>1, <1>2 DEF OneSide, Book
<1>5. n - qty \in Nat /\ (n - qty) % WordMod = n - qty
  <2> HIDE DEF n
  <2>1. n - qty \in Nat /\ n - qty < WordMod
    BY <1>1, <1>3, Parameters
  <2> QED
    BY <2>1, Parameters
<1>6. Depth \in Places /\ Places = 1..Depth
  BY Parameters DEF Places
<1>7. \A t \in Sides : t # side => c.array[t] = b.array[t] /\ c.outer[t] = b.outer[t]
  BY <1>2 DEF OneSide
<1>8. c.array \in [Sides -> [Places -> Level]] /\ b.array \in [Sides -> [Places -> Level]]
  BY <1>1, <1>2 DEF OneSide, Book
<1>9. moved /\ Counted(b, c) /\ clean
  <2>1. CASE /\ \A i \in Places : A[i].price # price
             /\ B = A
             /\ MapSet(O, price, (InMap(O, price) - qty) % WordMod, P)
             /\ c.id = b.id /\ c.event = "none"
    <3>1. /\ WellKept(side, A, P) /\ Has(A, P, price, n - qty)
          /\ SameElsewhere(A, O, A, P, price)
          /\ price \in DOMAIN O /\ O[price] = n /\ P[price] = n - qty
      <4>1. qty \in Nat \ {0}
        OBVIOUS
      <4> HIDE DEF n, A, O, P, B, moved, clean, full
      <4> QED
        BY <1>3, <1>4, <2>1, <4>1, TakenBehind
    <3>2. c.array = b.array
      <4>1. \A t \in Sides : c.array[t] = b.array[t]
        BY <1>7, <2>1
      <4>2. c.array = [t \in Sides |-> c.array[t]] /\ b.array = [t \in Sides |-> b.array[t]]
        BY <1>8
      <4> HIDE DEF A, B, O, P, n, moved, clean, full
      <4> QED
        BY <4>1, <4>2
    <3>3. clean
      <4> SUFFICES ASSUME full(A, O), n # qty PROVE full(B, P)
        BY <3>1
      <4>1. \A p \in DOMAIN P : p # price => p \in DOMAIN O /\ P[p] = O[p]
        BY <2>1 DEF MapSet
      <4>2. P[price] > 0
        <5> HIDE DEF n, A, O, P, B, moved, clean, full
        <5> QED
          BY <1>1, <1>3, <3>1
      <4> HIDE DEF A, B, O, P, n
      <4> QED
        BY <2>1, <4>1, <4>2
    <3> QED
      BY <1>4, <2>1, <3>1, <3>2, <3>3 DEF Counted
  <2>2. ASSUME NEW at \in Places, A[at].price = price,
               \A j \in Places : j < at => A[j].price # price,
               c.id = b.id + 1,
               \/ /\ (A[at].qty - qty) % WordMod # 0
                  /\ PlaceSet(A, at, (A[at].qty - qty) % WordMod, B)
                  /\ P = O
               \/ /\ (A[at].qty - qty) % WordMod = 0
                  /\ \E x \in Level : ShiftedOut(A, at, x, B) /\ Promoted(side, O, x, P)
        PROVE  moved /\ Counted(b, c) /\ clean
    <3>1. A[at].qty = n
      <4>1. Has(A, O, price, A[at].qty)
        BY <2>2 DEF Has
      <4> HIDE DEF n, A, O, P, B, moved, clean, full
      <4> QED
        BY <1>3, <4>1, HasUnique
    <3>2. n # 0
      <4> HIDE DEF n, A, O, P, B, moved, clean, full
      <4> QED
        BY <1>1, <1>3
    <3>3. CASE n - qty # 0
      <4>1. PlaceSet(A, at, n - qty, B) /\ P = O
        BY <1>5, <2>2, <3>1, <3>3
      <4>2. /\ WellKept(side, B, O) /\ Has(B, O, price, n - qty)
            /\ SameElsewhere(A, O, B, O, price)
        <5>1. A[at].price \in Prices /\ \A j \in Places : j < at => A[j].price # A[at].price
          BY <2>2
        <5> HIDE DEF n, A, O, P, B, moved, clean, full
        <5> QED
          BY <1>3, <1>4, <1>5, <2>2, <4>1, <5>1, ChangedInPlace
      <4>3. c.array # b.array
        <5>1. B[at].qty = n - qty
          BY <4>1 DEF PlaceSet
        <5>2. n - qty # n
          <6> HIDE DEF n, A, O, P, B, moved, clean, full
          <6> QED
            BY <1>1, <1>3
        <5>3. B # A
          <6> HIDE DEF n, A, O, P, B, moved, clean, full
          <6> QED
            BY <3>1, <5>1, <5>2
        <5> QED
          BY <5>3
      <4>4. full(A, O) => full(B, P)
        <5>1. B[at].qty = n - qty /\ \A i \in Places : i # at => B[i] = A[i]
          BY <4>1 DEF PlaceSet
        <5>2. B[at].qty > 0
          <6> HIDE DEF n, A, O, P, B, moved, clean, full
          <6> QED
            BY <1>5, <3>3, <5>1
        <5> HIDE DEF A, B, O, P, n, moved, clean
        <5> QED
          BY <4>1, <5>1, <5>2
      <4> QED
        BY <2>2, <4>1, <4>2, <4>3, <4>4 DEF Counted
    <3>4. CASE n - qty = 0
      <4>1. PICK x \in Level : ShiftedOut(A, at, x, B) /\ Promoted(side, O, x, P)
        <5> HIDE DEF n, A, O, P, B, moved, clean, full
        <5> QED
          BY <1>5, <2>2, <3>1, <3>4
      <4>2. /\ WellKept(side, B, P) /\ Has(B, P, price, n - qty)
            /\ SameElsewhere(A, O, B, P, price)
        <5> HIDE DEF n, A, O, P, B, moved, clean, full
        <5> QED
          BY <1>3, <1>4, <2>2, <3>1, <3>2, <3>4, <4>1, UsedUp
      <4>3. x.price \in DOMAIN O /\ x.qty = O[x.price]
        <5>1. LB!Worst(side) \in DOMAIN O
          BY <1>3 DEF WellKept, Typed
        <5> QED
          BY <4>1, <5>1 DEF Promoted
      <4>4. c.array # b.array
        <5> SUFFICES ASSUME B = A PROVE FALSE
          OBVIOUS
        <5>1. CASE at = Depth
          <6>1. B[at] = x
            BY <1>6, <4>1, <5>1 DEF ShiftedOut
          <6>2. O[price] = 0 /\ x.price = price
            BY <1>3, <2>2, <4>3, <6>1 DEF WellKept, OnceEach
          <6> QED
            BY <3>1, <3>2, <4>3, <6>1, <6>2
        <5>2. CASE at # Depth
          <6>1. at + 1 \in Places /\ at < at + 1 /\ ~(at < at)
            BY <1>6, <5>2
          <6>2. B[at] = A[at + 1]
            BY <4>1, <5>2, <6>1 DEF ShiftedOut
          <6>3. A[at + 1].qty = 0
            BY <1>3, <6>1, <6>2 DEF WellKept, OnceEach
          <6> QED
            BY <3>1, <3>2, <6>2, <6>3
        <5> QED
          BY <5>1, <5>2
      <4>5. full(A, O) => full(B, P)
        <5> SUFFICES ASSUME full(A, O) PROVE full(B, P)
          OBVIOUS
        <5>1. \A p \in DOMAIN P : p \in DOMAIN O /\ P[p] = O[p]
          BY <4>1 DEF Promoted
        <5>2. x.price # LB!Worst(side) => x.qty > 0
          BY <4>3
        <5>3. ASSUME NEW i \in Places, B[i].price # LB!Worst(side)
              PROVE  B[i].qty > 0
          <6>1. CASE i < at
            BY <4>1, <5>3, <6>1 DEF ShiftedOut
          <6>2. CASE ~(i < at) /\ i = Depth
            BY <4>1, <5>2, <5>3, <6>2 DEF ShiftedOut
          <6>3. CASE ~(i < at) /\ i # Depth
            <7>1. i + 1 \in Places
              BY <1>6, <6>3
            <7> QED
              BY <4>1, <5>3, <6>3, <7>1 DEF ShiftedOut
          <6> QED
            BY <6>1, <6>2, <6>3
        <5> QED
          BY <5>1, <5>3
      <4> QED
        BY <2>2, <4>2, <4>4, <4>5 DEF Counted
    <3> QED
      BY <3>3, <3>4
  <2> QED
    BY <1>2, <2>1, <2>2 DEF Removed
<1>10. Keeps(c, [table EXCEPT ![side][price] = n - qty])
  <2> HIDE DEF n
  <2> QED
    BY <1>2, <1>5, <1>9, KeepsOneSide
<1>11. [table EXCEPT ![side][price] = @ - qty] = [table EXCEPT ![side][price] = n - qty]
  OBVIOUS
<1>12. ASSUME NoGhost(b), ~NoGhost(c)
       PROVE  price \in DOMAIN O /\ O[price] = qty /\ P[price] = 0
  <2>1. full(A, O)
    BY <1>12 DEF NoGhost, Places
  <2>2. full(B, P) => NoGhost(c)
    BY <1>7, <1>12 DEF NoGhost, Places
  <2> QED
    BY <1>9, <1>12, <2>1, <2>2
<1> QED
  BY <1>9, <1>10, <1>11, <1>12

-----------------------------------------------------------------------------
(* The levels of the exchange in their order.                                *)

\* r lists the elements of L, best first, each with as many before it as are
\* better.
Lists(side, L, r) ==
  /\ DOMAIN r = 1..Cardinality(L)
  /\ \A i \in DOMAIN r : r[i] \in L /\ Cardinality({q \in L : Better(side, q, r[i])}) = i - 1
  /\ \A i, j \in DOMAIN r : i < j => Better(side, r[i], r[j])
  /\ \A p \in L : \E i \in DOMAIN r : r[i] = p

\* The i-th of L.
Nth(side, L, i) == CHOOSE p \in L : Cardinality({q \in L : Better(side, q, p)}) = i - 1

LEMMA RankedLists ==
  ASSUME NEW side \in Sides, NEW L, IsFiniteSet(L), L \subseteq Int,
         NEW r, r = [i \in 1..Cardinality(L) |-> Nth(side, L, i)]
  PROVE  Lists(side, L, r)
<1> DEFINE ahead(p) == {q \in L : Better(side, q, p)}
           N == Cardinality(L)
           f == [p \in L |-> Cardinality(ahead(p)) + 1]
<1>1. N \in Nat
  BY FS_CardinalityType
<1>2. ASSUME NEW p \in L
      PROVE  Cardinality(ahead(p)) \in Nat /\ Cardinality(ahead(p)) < N
  <2>1. ahead(p) \in SUBSET L /\ p \notin ahead(p)
    BY DEF Better
  <2> HIDE DEF ahead
  <2> QED
    BY <1>1, <2>1, FS_Subset, FS_CardinalityType
<1>3. ASSUME NEW p \in L, NEW q \in L, Better(side, q, p)
      PROVE  Cardinality(ahead(q)) < Cardinality(ahead(p))
  <2>1. ahead(q) \in SUBSET ahead(p) /\ q \in ahead(p) /\ q \notin ahead(q)
    <3>1. \A t \in L : Better(side, t, q) => Better(side, t, p)
      BY <1>3 DEF Better
    <3>2. ~Better(side, q, q)
      BY DEF Better
    <3> QED
      BY <1>3, <3>1, <3>2
  <2>2. IsFiniteSet(ahead(p))
    BY FS_Subset
  <2>3. Cardinality(ahead(p)) \in Nat /\ Cardinality(ahead(q)) \in Nat
    BY <1>2
  <2> HIDE DEF ahead
  <2> QED
    BY <2>1, <2>2, <2>3, FS_Subset
<1>4. \A p, q \in L : p = q \/ Better(side, p, q) \/ Better(side, q, p)
  BY DEF Better
<1>5. f \in Injection(L, 1..N)
  <2>1. f \in [L -> 1..N]
    <3> HIDE DEF ahead
    <3> QED
      BY <1>1, <1>2
  <2>2. \A p, q \in L : f[p] = f[q] => p = q
    <3> HIDE DEF ahead
    <3>1. \A p, q \in L : f[p] = f[q] => Cardinality(ahead(p)) = Cardinality(ahead(q))
      BY <1>2
    <3>2. \A p, q \in L : Better(side, q, p) => Cardinality(ahead(p)) # Cardinality(ahead(q))
      BY <1>2, <1>3
    <3> QED
      BY <1>4, <3>1, <3>2
  <2> HIDE DEF f
  <2> QED
    BY <2>1, <2>2 DEF Injection, IsInjective
<1>6. f \in Surjection(L, 1..N)
  <2>1. IsFiniteSet(1..N) /\ Cardinality(1..N) = N
    BY <1>1, FS_Interval
  <2> HIDE DEF f
  <2> QED
    BY <1>5, <2>1, FS_Injection
<1>7. \A i \in 1..N : \E p \in L : Cardinality(ahead(p)) = i - 1
  <2>1. \A i \in 1..N : \E p \in L : f[p] = i
    <3> HIDE DEF f
    <3> QED
      BY <1>6 DEF Surjection
  <2> HIDE DEF ahead
  <2>2. \A p \in L : f[p] = Cardinality(ahead(p)) + 1
    OBVIOUS
  <2> HIDE DEF f
  <2>3. \A p \in L, i \in 1..N : f[p] = i => Cardinality(ahead(p)) = i - 1
    BY <1>2, <2>2
  <2> QED
    BY <2>1, <2>3
<1>8. \A i \in 1..N : r[i] \in L /\ Cardinality(ahead(r[i])) = i - 1
  <2> SUFFICES ASSUME NEW i \in 1..N
               PROVE  r[i] \in L /\ Cardinality(ahead(r[i])) = i - 1
    OBVIOUS
  <2>1. r[i] = CHOOSE p \in L : Cardinality(ahead(p)) = i - 1
    BY DEF Nth
  <2>2. \E p \in L : Cardinality(ahead(p)) = i - 1
    BY <1>7
  <2> HIDE DEF ahead
  <2> QED
    BY <2>1, <2>2
<1>9. DOMAIN r = 1..N
  OBVIOUS
<1>10. ASSUME NEW p \in L, NEW q \in L
       PROVE  /\ Cardinality(ahead(p)) < Cardinality(ahead(q)) => Better(side, p, q)
              /\ Cardinality(ahead(p)) = Cardinality(ahead(q)) => p = q
  <2>1. PICK a, d : a = Cardinality(ahead(p)) /\ d = Cardinality(ahead(q))
    OBVIOUS
  <2>2. a \in Nat /\ d \in Nat /\ (Better(side, p, q) => a < d) /\ (Better(side, q, p) => d < a)
    BY <1>2, <1>3, <2>1
  <2>3. p = q \/ Better(side, p, q) \/ Better(side, q, p)
    BY <1>4
  <2>4. p = q => a = d
    BY <2>1
  <2> HIDE DEF ahead
  <2>5. (a < d => Better(side, p, q)) /\ (a = d => p = q)
    BY ONLY <2>2, <2>3, <2>4
  <2> QED
    BY <2>1, <2>5
<1>11. ASSUME NEW i \in 1..N, NEW j \in 1..N, i < j
       PROVE  Better(side, r[i], r[j])
  <2>1. PICK p, q : p = r[i] /\ q = r[j]
    OBVIOUS
  <2>2. /\ p \in L /\ q \in L
        /\ Cardinality(ahead(p)) = i - 1 /\ Cardinality(ahead(q)) = j - 1
    BY <1>8, <2>1
  <2>3. i - 1 < j - 1
    BY <1>1, <1>11
  <2> HIDE DEF ahead
  <2> QED
    BY <1>10, <2>1, <2>2, <2>3
<1>12. ASSUME NEW p \in L
       PROVE  \E i \in 1..N : r[i] = p
  <2>1. PICK i : i = Cardinality(ahead(p)) + 1
    OBVIOUS
  <2>2. i \in 1..N /\ i - 1 = Cardinality(ahead(p))
    <3>1. Cardinality(ahead(p)) \in Nat /\ Cardinality(ahead(p)) < N
      BY <1>2
    <3> HIDE DEF ahead, N
    <3> QED
      BY <1>1, <2>1, <3>1
  <2>3. r[i] \in L /\ Cardinality(ahead(r[i])) = Cardinality(ahead(p))
    BY <1>8, <2>2
  <2>4. r[i] = p
    BY <1>10, <2>3
  <2> QED
    BY <2>2, <2>4
<1> HIDE DEF f
<1> QED
  BY <1>8, <1>9, <1>11, <1>12 DEF Lists

\* The places up to i hold the best of L in their order.
BestUpTo(side, A, L, i) ==
  /\ \A j \in Places : j <= i => A[j].price \in L
  /\ \A j, k \in Places : j < k /\ k <= i => Better(side, A[j].price, A[k].price)
  /\ \A q \in L : Better(side, q, A[i].price) => \E j \in Places : j < i /\ A[j].price = q

LEMMA AheadInArray ==
  ASSUME NEW side \in Sides, NEW A, NEW L, L \subseteq Int, NEW i \in Places,
         BestUpTo(side, A, L, i)
  PROVE  Cardinality({q \in L : Better(side, q, A[i].price)}) = i - 1
<1> DEFINE T == {q \in L : Better(side, q, A[i].price)}
<1>0. /\ \A j \in Places : j <= i => A[j].price \in L
      /\ \A j, k \in Places : j < k /\ k <= i => Better(side, A[j].price, A[k].price)
      /\ \A q \in L : Better(side, q, A[i].price) => \E j \in Places : j < i /\ A[j].price = q
  BY DEF BestUpTo
<1> DEFINE f == [j \in 1..(i - 1) |-> A[j].price]
<1>1. /\ i \in Nat /\ i - 1 \in Nat /\ \A j \in 1..(i - 1) : j \in Places /\ j < i
      /\ \A j \in Places : j < i => j \in 1..(i - 1)
      /\ \A j \in Places : j \in Nat
  BY Parameters DEF Places
<1>2. f \in Injection(1..(i - 1), T)
  <2>1. \A j \in 1..(i - 1) : A[j].price \in T
    BY <1>0, <1>1
  <2>2. ASSUME NEW j \in 1..(i - 1), NEW k \in 1..(i - 1), j # k
        PROVE  A[j].price # A[k].price
    <3>1. j < k \/ k < j
      BY <2>2
    <3>2. j \in Places /\ j < i /\ k \in Places /\ k < i
      BY <1>1
    <3>3. Better(side, A[j].price, A[k].price) \/ Better(side, A[k].price, A[j].price)
      BY <1>0, <1>1, <3>1, <3>2
    <3>4. A[j].price \in Int /\ A[k].price \in Int
      <4>1. j <= i /\ k <= i
        BY <1>1, <3>2
      <4>2. A[j].price \in L /\ A[k].price \in L
        BY <1>0, <3>2, <4>1
      <4> QED
        BY <4>2
    <3> QED
      BY <3>3, <3>4 DEF Better
  <2>3. f \in [1..(i - 1) -> T] /\ \A j, k \in 1..(i - 1) : f[j] = f[k] => j = k
    BY <2>1, <2>2
  <2> HIDE DEF f, T
  <2> QED
    BY <2>3 DEF Injection, IsInjective
<1>3. f \in Surjection(1..(i - 1), T)
  <2>1. \A q \in T : \E j \in 1..(i - 1) : f[j] = q
    BY <1>0, <1>1
  <2> HIDE DEF f, T
  <2> QED
    BY <1>2, <2>1 DEF Surjection, Injection
<1>4. IsFiniteSet(1..(i - 1)) /\ Cardinality(1..(i - 1)) = i - 1
  BY <1>1, FS_Interval
<1> HIDE DEF f, T
<1>5. Cardinality(T) = Cardinality(1..(i - 1))
  BY <1>2, <1>3, <1>4, FS_Surjection
<1> QED
  BY <1>4, <1>5 DEF T

\* The levels of a book are those of the table in the order r of L.
InOrder(side, b, table, L, r) ==
  /\ \A i \in Places : b.array[side][i] =
       IF i \in DOMAIN r THEN [qty |-> table[side][r[i]], price |-> r[i]]
       ELSE LB!EmptyLevel(side)
  /\ DOMAIN b.outer[side] =
       {LB!Worst(side)} \cup {r[i] : i \in (Depth + 1)..Cardinality(L)}
  /\ b.outer[side][LB!Worst(side)] = 0
  /\ \A p \in DOMAIN b.outer[side] :
       p # LB!Worst(side) => b.outer[side][p] = table[side][p]

\* Without ghosts a side is the levels of the table in their order.
LEMMA FaithfulSide ==
  ASSUME NEW b, NEW table \in Tables, Keeps(b, table), NoGhost(b), NEW side \in Sides,
         NEW L, L = {p \in Prices : table[side][p] > 0}, IsFiniteSet(L),
         NEW r, Lists(side, L, r)
  PROVE  InOrder(side, b, table, L, r)
<1>1. PICK A, O, row, worst, N : /\ A = b.array[side] /\ O = b.outer[side]
                                 /\ row = table[side] /\ worst = LB!Worst(side)
                                 /\ N = Cardinality(L)
  OBVIOUS
<1>2. /\ Typed(side, A, O) /\ Sorted(side, A, O) /\ OnceEach(A, O)
      /\ \A p \in Prices : Has(A, O, p, row[p]) /\ row[p] \in Nat
      /\ L = {p \in Prices : row[p] > 0}
  BY <1>1 DEF Keeps, KeepsSide, WellKept, Tables
<1>3. /\ \A i \in Places : A[i].price \in Int /\ A[i].qty \in Nat
      /\ \A i \in Places : A[i].price \in Prices \cup {worst}
      /\ \A i \in Places : A[i] = [qty |-> A[i].qty, price |-> A[i].price]
      /\ \A i \in Places : A[i].price = worst => A[i].qty = 0
      /\ DOMAIN O \subseteq Prices \cup {worst} /\ worst \in DOMAIN O /\ O[worst] = 0
      /\ \A p \in DOMAIN O : O[p] \in Nat /\ p \in Int
      /\ O = [p \in DOMAIN O |-> O[p]]
      /\ Places = 1..Depth /\ Depth \in Nat /\ Depth >= 1 /\ N \in Nat /\ L \subseteq Int
  <2>1. \A i \in Places : A[i] = [qty |-> A[i].qty, price |-> A[i].price]
    BY <1>2 DEF Typed
  <2>2. N \in Nat
    BY <1>1, FS_CardinalityType
  <2> QED
    BY <1>1, <1>2, <2>1, <2>2, TypedInts, Parameters DEF Typed, Places
<1>4. /\ \A i \in Places : A[i].price # worst => A[i].qty > 0
      /\ \A p \in DOMAIN O : p # worst => O[p] > 0
  BY <1>1 DEF NoGhost, Places
<1>5. /\ \A p \in Prices : Better(side, p, worst) /\ p # worst
      /\ worst \in Int /\ Prices \subseteq Int
  BY <1>1, Parameters
<1>6. ASSUME NEW i \in Places, NEW j \in Places, i < j, A[j].price # worst
      PROVE  Better(side, A[i].price, A[j].price)
  <2>1. A[j].price # A[i].price
    BY <1>2, <1>4, <1>6 DEF OnceEach
  <2>2. ~Better(side, A[j].price, A[i].price)
    BY <1>2, <1>6 DEF Sorted
  <2> QED
    BY <1>3, <2>1, <2>2 DEF Better
<1>7. ASSUME NEW i \in Places, NEW j \in Places, i < j, A[j].price # worst
      PROVE  A[i].price # worst
  <2>1. Better(side, A[i].price, A[j].price)
    BY <1>6, <1>7
  <2>2. Better(side, A[j].price, worst)
    BY <1>3, <1>5, <1>7
  <2> QED
    BY <1>3, <2>1, <2>2 DEF Better
<1>8. ASSUME NEW i \in Places, A[i].price # worst
      PROVE  row[A[i].price] = A[i].qty /\ A[i].price \in L
  <2>1. A[i].price \in Prices
    BY <1>3, <1>8
  <2>2. ASSUME NEW j \in Places, j < i
        PROVE  A[j].price # A[i].price
    <3>1. Better(side, A[j].price, A[i].price)
      BY <1>6, <1>8, <2>2
    <3> QED
      BY <1>3, <3>1 DEF Better
  <2>3. Has(A, O, A[i].price, A[i].qty)
    BY <2>2 DEF Has
  <2>4. row[A[i].price] = A[i].qty
    BY <1>2, <2>1, <2>3, HasUnique
  <2> QED
    BY <1>2, <1>4, <1>8, <2>1, <2>4
<1>9. ASSUME NEW p \in L
      PROVE  \/ \E j \in Places : A[j].price = p
             \/ p \in DOMAIN O /\ (\A j \in Places : A[j].price # p) /\ O[p] = row[p]
  <2>1. Has(A, O, p, row[p]) /\ row[p] > 0
    BY <1>2
  <2> QED
    BY <2>1 DEF Has, InMap
<1>10. ASSUME NEW i \in Places, A[i].price # worst
       PROVE  i \in DOMAIN r /\ r[i] = A[i].price
  <2>1. \A j \in Places : j <= i => A[j].price \in L
    <3> SUFFICES ASSUME NEW j \in Places, j <= i PROVE A[j].price \in L
      OBVIOUS
    <3>1. j = i \/ j < i
      BY <1>3
    <3> QED
      BY <1>7, <1>8, <1>10, <3>1
  <2>2. \A j, k \in Places : j < k /\ k <= i => Better(side, A[j].price, A[k].price)
    <3> SUFFICES ASSUME NEW j \in Places, NEW k \in Places, j < k, k <= i
                 PROVE  Better(side, A[j].price, A[k].price)
      OBVIOUS
    <3>1. k = i \/ k < i
      BY <1>3
    <3>2. A[k].price # worst
      BY <1>7, <1>10, <3>1
    <3> QED
      BY <1>6, <3>2
  <2>3. ASSUME NEW q \in L, Better(side, q, A[i].price)
        PROVE  \E j \in Places : j < i /\ A[j].price = q
    <3>1. q \notin DOMAIN O
      BY <1>2, <2>3 DEF Sorted
    <3>2. PICK j \in Places : A[j].price = q
      BY <1>9, <3>1
    <3>3. ~(i < j)
      BY <1>2, <2>3, <3>2 DEF Sorted
    <3>4. i # j
      BY <1>3, <2>3, <3>2 DEF Better
    <3>5. j < i
      BY <1>3, <3>3, <3>4
    <3> QED
      BY <3>2, <3>5
  <2>4. Cardinality({q \in L : Better(side, q, A[i].price)}) = i - 1
    <3>1. \A q \in L : Better(side, q, A[i].price) => \E j \in Places : j < i /\ A[j].price = q
      BY <2>3
    <3>2. L \subseteq Int
      BY <1>3
    <3>3. BestUpTo(side, A, L, i)
      BY <2>1, <2>2, <3>1 DEF BestUpTo
    <3> QED
      BY <3>2, <3>3, AheadInArray
  <2>5. A[i].price \in L
    BY <1>8, <1>10
  <2>6. PICK k \in DOMAIN r : r[k] = A[i].price
    BY <2>5 DEF Lists
  <2>7. Cardinality({q \in L : Better(side, q, r[k])}) = k - 1
    BY DEF Lists
  <2>8. k \in Nat /\ i \in Nat /\ k - 1 = i - 1
    <3>1. k - 1 = i - 1
      BY <2>4, <2>6, <2>7
    <3>2. k \in 1..N
      BY <1>1 DEF Lists
    <3> QED
      BY <1>3, <3>1, <3>2
  <2>9. k = i
    BY <2>8
  <2> QED
    BY <2>6, <2>9
<1>11. ASSUME NEW i \in Places, A[i].price = worst
       PROVE  i \notin DOMAIN r
  <2> SUFFICES ASSUME i \in DOMAIN r PROVE FALSE
    OBVIOUS
  <2>1. r[i] \in L /\ r[i] \in Prices
    BY <1>2 DEF Lists
  <2>2. r[i] \notin DOMAIN O
    <3>1. Better(side, r[i], A[i].price)
      BY <1>5, <1>11, <2>1
    <3> QED
      BY <1>2, <3>1 DEF Sorted
  <2>3. PICK j \in Places : A[j].price = r[i]
    BY <1>9, <2>1, <2>2
  <2>4. j \in DOMAIN r /\ r[j] = r[i]
    BY <1>5, <1>10, <2>1, <2>3
  <2>5. j # i
    BY <1>5, <1>11, <2>1, <2>3
  <2>6. j < i \/ i < j
    BY <1>3, <2>5
  <2>7. Better(side, r[i], r[i])
    BY <2>4, <2>6 DEF Lists
  <2>8. r[i] \in Int
    BY <1>5, <2>1
  <2> QED
    BY <2>7, <2>8 DEF Better
<1>12. \A i, j \in DOMAIN r : r[i] = r[j] => i = j
  <2> SUFFICES ASSUME NEW i \in DOMAIN r, NEW j \in DOMAIN r, r[i] = r[j], i # j
               PROVE  FALSE
    OBVIOUS
  <2>1. i < j \/ j < i
    BY <1>1, <1>3 DEF Lists
  <2>2. Better(side, r[i], r[i])
    BY <2>1 DEF Lists
  <2>3. r[i] \in Int
    BY <1>3 DEF Lists
  <2> QED
    BY <2>2, <2>3 DEF Better
<1>13. ASSUME NEW i \in Places
       PROVE  A[i] = IF i \in DOMAIN r THEN [qty |-> row[r[i]], price |-> r[i]]
                     ELSE LB!EmptyLevel(side)
  <2>1. CASE A[i].price # worst
    <3>1. row[A[i].price] = A[i].qty /\ i \in DOMAIN r /\ r[i] = A[i].price
      BY <1>8, <1>10, <2>1
    <3> QED
      BY <1>3, <3>1
  <2>2. CASE A[i].price = worst
    <3>1. i \notin DOMAIN r /\ A[i] = [qty |-> 0, price |-> worst]
      BY <1>3, <1>11, <2>2
    <3> QED
      BY <1>1, <3>1 DEF LB!EmptyLevel
  <2> QED
    BY <2>1, <2>2
<1>14. ASSUME NEW p \in DOMAIN O, p # worst
       PROVE  /\ O[p] = row[p]
              /\ \E i \in (Depth + 1)..N : p = r[i]
  <2>1. p \in Prices /\ O[p] > 0
    BY <1>3, <1>4, <1>14
  <2>2. \A j \in Places : A[j].price # p
    BY <1>2, <2>1 DEF OnceEach
  <2>3. O[p] = row[p]
    <3>1. Has(A, O, p, row[p])
      BY <1>2, <2>1
    <3> QED
      BY <1>14, <2>2, <3>1 DEF Has, InMap
  <2>4. p \in L
    BY <1>2, <2>1, <2>3
  <2>5. PICK k \in DOMAIN r : r[k] = p
    BY <2>4 DEF Lists
  <2>6. k \in 1..N
    BY <1>1 DEF Lists
  <2>7. k \notin Places
    <3> SUFFICES ASSUME k \in Places PROVE FALSE
      OBVIOUS
    <3>1. A[k].price # worst
      BY <1>11
    <3> QED
      BY <1>10, <2>2, <2>5, <3>1
  <2>8. k \in (Depth + 1)..N
    BY <1>3, <2>6, <2>7
  <2> QED
    BY <2>3, <2>5, <2>8
<1>15. ASSUME NEW i \in (Depth + 1)..N
       PROVE  r[i] \in DOMAIN O
  <2>1. i \in DOMAIN r /\ i \notin Places
    <3>1. i \in 1..N /\ i \notin Places
      BY <1>3
    <3> QED
      BY <1>1, <3>1 DEF Lists
  <2>2. r[i] \in L /\ r[i] # worst
    BY <1>2, <1>5, <2>1 DEF Lists
  <2>3. \A j \in Places : A[j].price # r[i]
    BY <1>10, <1>12, <2>1, <2>2
  <2> QED
    BY <1>9, <2>2, <2>3
<1>16. DOMAIN O = {worst} \cup {r[i] : i \in (Depth + 1)..N}
  <2>1. \A p \in DOMAIN O : p # worst => \E i \in (Depth + 1)..N : p = r[i]
    BY <1>14
  <2>2. \A i \in (Depth + 1)..N : r[i] \in DOMAIN O
    BY <1>15
  <2>3. worst \in DOMAIN O
    BY <1>3
  <2> QED
    BY <2>1, <2>2, <2>3
<1> QED
  BY <1>1, <1>3, <1>13, <1>14, <1>16 DEF InOrder

-----------------------------------------------------------------------------
(* Rebuilding a book from a snapshot.                                        *)

Entries == [side : Sides, qty : Nat, price : Int]

AddEntry(b, entry) == LB!AddQty(b, entry.side, entry.price, entry.qty)

\* The recursion FoldLeft computes in Rebuild.
Adds(base, levels, iter) ==
  iter = [s \in SUBSET DOMAIN levels |->
            IF s = {} THEN base
            ELSE AddEntry(iter[s \ {Max(s)}], levels[Max(s)])]

LEMMA RebuildIsFold ==
  ASSUME NEW b, NEW levels
  PROVE  LB!Rebuild(b, levels) =
           [(CHOOSE iter : Adds(LB!Clear(b), levels, iter))[DOMAIN levels]
              EXCEPT !.event = "levels"]
BY DEF LB!Rebuild, LB!FoldLeft, LB!MapThenFoldSet, LB!Max, Max, Adds, AddEntry

\* It adds the entries one after the other.
LEMMA RebuildSteps ==
  ASSUME NEW b, LB!Clear(b) \in Book, NEW levels \in Seq(Entries)
  PROVE  \E c : /\ c[0] = LB!Clear(b)
                /\ \A k \in 1..Len(levels) : c[k] = AddEntry(c[k - 1], levels[k])
                /\ LB!Rebuild(b, levels) = [c[Len(levels)] EXCEPT !.event = "levels"]
<1>0. PICK n \in Nat : n = Len(levels)
  OBVIOUS
<1> DEFINE D == 1..n
           F == [x \in D \X Book |-> AddEntry(x[2], levels[x[1]])]
<1>1. PICK base \in Book : base = LB!Clear(b)
  OBVIOUS
<1>2. n \in Nat /\ DOMAIN levels = D /\ \A k \in D : levels[k] \in Entries
  BY <1>0
<1>3. \A x \in Book, k \in D : AddEntry(x, levels[k]) \in Book
  <2> SUFFICES ASSUME NEW x \in Book, NEW k \in D
               PROVE  AddEntry(x, levels[k]) \in Book
    OBVIOUS
  <2>1. PICK entry \in Entries : entry = levels[k]
    BY <1>2
  <2>2. entry.side \in Sides /\ entry.price \in Int /\ entry.qty \in Nat
    BY DEF Entries
  <2>3. OneSide(x, AddEntry(x, entry), entry.side)
    BY <2>2, AddQtyIs DEF AddEntry
  <2> QED
    BY <2>1, <2>3 DEF OneSide
<1>4. F \in [D \X Book -> Book] /\ \A x \in Book, k \in D : F[<<k, x>>] = AddEntry(x, levels[k])
  BY <1>3
<1> HIDE DEF F
<1>5. PICK h \in [SUBSET D -> Book] : \A s \in SUBSET D :
        h[s] = IF s = {} THEN base ELSE F[<<Max(s), h[s \ {Max(s)}]>>]
  <2>1. \E h : FoldsLeft(Book, base, n, F, h)
    BY <1>4, LeftFoldExists
  <2> QED
    BY <2>1 DEF FoldsLeft
<1>6. \A s \in SUBSET D : s # {} => Max(s) \in D /\ s \ {Max(s)} \in SUBSET D
  BY <1>2, GreatestNatural
<1>7. Adds(base, levels, h)
  <2>1. \A s \in SUBSET D : h[s] = IF s = {} THEN base
                                   ELSE AddEntry(h[s \ {Max(s)}], levels[Max(s)])
    <3> HIDE DEF D
    <3> QED
      BY <1>4, <1>5, <1>6
  <2>2. h = [s \in SUBSET D |-> h[s]]
    OBVIOUS
  <2> HIDE DEF D
  <2> QED
    BY <1>2, <2>1, <2>2 DEF Adds
<1>8. PICK iter : iter = CHOOSE g : Adds(base, levels, g)
  OBVIOUS
<1>9. Adds(base, levels, iter)
  BY <1>7, <1>8
<1>10. \A s \in SUBSET D : iter[s] = IF s = {} THEN base
                                     ELSE AddEntry(iter[s \ {Max(s)}], levels[Max(s)])
  BY <1>2, <1>9 DEF Adds
<1> DEFINE c == [k \in 0..n |-> iter[1..k]]
<1>11. c[0] = base
  <2>1. 1..0 = {} /\ {} \in SUBSET D
    OBVIOUS
  <2>2. iter[{}] = base
    BY <1>10, <2>1
  <2>3. 0 \in 0..n
    OBVIOUS
  <2> QED
    BY <2>1, <2>2, <2>3
<1>12. ASSUME NEW k \in D
       PROVE  c[k] = AddEntry(c[k - 1], levels[k])
  <2>1. 1..k \in SUBSET D /\ 1..k # {} /\ Max(1..k) = k /\ (1..k) \ {k} = 1..(k - 1)
    BY <1>2, PlacesUpTo
  <2>2. iter[1..k] = AddEntry(iter[1..(k - 1)], levels[k])
    BY <1>10, <2>1
  <2>3. k \in 0..n /\ k - 1 \in 0..n
    BY <1>2
  <2> QED
    BY <2>2, <2>3
<1>13. c[n] = iter[DOMAIN levels]
  BY <1>2
<1>14. LB!Rebuild(b, levels) = [iter[DOMAIN levels] EXCEPT !.event = "levels"]
  BY <1>1, <1>8, RebuildIsFold
<1> HIDE DEF c
<1> QED
  BY <1>0, <1>1, <1>11, <1>12, <1>13, <1>14

-----------------------------------------------------------------------------
(* What holds of every book, whatever was done to it.                        *)

\* A level at the worst price is empty.
Sound(b) ==
  /\ b \in Book
  /\ \A side \in Sides :
       /\ \A i \in Places : b.array[side][i].price = LB!Worst(side) => b.array[side][i].qty = 0
       /\ LB!Worst(side) \in DOMAIN b.outer[side] => b.outer[side][LB!Worst(side)] = 0

LEMMA KeepsSound ==
  ASSUME NEW b, NEW table, Keeps(b, table)
  PROVE  Sound(b)
BY DEF Keeps, KeepsSide, WellKept, Typed, Sound

\* One side is enough.
LEMMA SoundOneSide ==
  ASSUME NEW b, Sound(b), NEW side \in Sides, NEW c, OneSide(b, c, side),
         \A i \in Places : c.array[side][i].price = LB!Worst(side) => c.array[side][i].qty = 0,
         LB!Worst(side) \in DOMAIN c.outer[side] => c.outer[side][LB!Worst(side)] = 0
  PROVE  Sound(c)
BY DEF Sound, OneSide

LEMMA AddSound ==
  ASSUME NEW b, Sound(b), NEW side \in Sides, NEW price \in Prices, NEW qty \in Nat,
         NEW c, c = LB!AddQty(b, side, price, qty)
  PROVE  Sound(c) /\ (c.id = b.id \/ c.id = b.id + 1)
<1>1. PICK A, O, B, P, worst : /\ A = b.array[side] /\ O = b.outer[side] /\ B = c.array[side]
                               /\ P = c.outer[side] /\ worst = LB!Worst(side)
  OBVIOUS
<1>2. b \in Book /\ price \in Int /\ price # worst /\ Places = 1..Depth /\ Depth \in Places
  BY <1>1, Parameters DEF Sound, Places
<1>3. OneSide(b, c, side) /\ Added(side, price, qty, b, c)
  BY <1>2, AddQtyIs
<1>4. /\ \A i \in Places : A[i].price = worst => A[i].qty = 0
      /\ worst \in DOMAIN O => O[worst] = 0
  BY <1>1 DEF Sound
<1>5. /\ \A i \in Places : B[i].price = worst => B[i].qty = 0
      /\ worst \in DOMAIN P => P[worst] = 0
      /\ c.id = b.id \/ c.id = b.id + 1
  <2>1. CASE B = A /\ MapSet(O, price, (InMap(O, price) + qty) % WordMod, P) /\ c.id = b.id
    BY <1>2, <1>4, <2>1 DEF MapSet
  <2>2. ASSUME NEW at \in Places, A[at].price = price,
               PlaceSet(A, at, (A[at].qty + qty) % WordMod, B), P = O, c.id = b.id + 1
        PROVE  /\ \A i \in Places : B[i].price = worst => B[i].qty = 0
               /\ worst \in DOMAIN P => P[worst] = 0
               /\ c.id = b.id \/ c.id = b.id + 1
    <3>1. \A i \in Places : B[i] = A[i] \/ B[i].price = price
      BY <2>2 DEF PlaceSet
    <3> QED
      BY <1>2, <1>4, <2>2, <3>1
  <2>3. ASSUME NEW at \in Places, ShiftedIn(A, at, [qty |-> qty, price |-> price], B),
               PushedOut(O, A[Depth], P), c.id = b.id + 1
        PROVE  /\ \A i \in Places : B[i].price = worst => B[i].qty = 0
               /\ worst \in DOMAIN P => P[worst] = 0
               /\ c.id = b.id \/ c.id = b.id + 1
    <3>1. ASSUME NEW i \in Places
          PROVE  B[i].price = price \/ \E j \in Places : B[i] = A[j]
      <4>1. CASE i < at
        BY <2>3, <4>1 DEF ShiftedIn
      <4>2. CASE i = at
        BY <1>2, <2>3, <4>2 DEF ShiftedIn
      <4>3. CASE i > at
        <5>1. i - 1 \in Places /\ ~(i < at) /\ i # at
          BY <1>2, <4>3
        <5> QED
          BY <2>3, <5>1 DEF ShiftedIn
      <4> QED
        BY <1>2, <4>1, <4>2, <4>3
    <3>2. worst \in DOMAIN P => P[worst] = 0
      BY <1>2, <1>4, <2>3 DEF PushedOut, MapSet
    <3> QED
      BY <1>2, <1>4, <2>3, <3>1, <3>2
  <2> QED
    BY <1>1, <1>3, <2>1, <2>2, <2>3 DEF Added
<1> QED
  BY <1>1, <1>3, <1>5, SoundOneSide

LEMMA RemoveSound ==
  ASSUME NEW b, Sound(b), NEW side \in Sides, NEW price \in Prices, NEW qty \in Nat,
         NEW type \in Events, NEW junk \in LB!Junk,
         NEW c, c = LB!RemoveQty(b, side, price, qty, type, junk)
  PROVE  Sound(c)
<1>1. PICK A, O, B, P, worst : /\ A = b.array[side] /\ O = b.outer[side] /\ B = c.array[side]
                               /\ P = c.outer[side] /\ worst = LB!Worst(side)
  OBVIOUS
<1>2. b \in Book /\ price \in Int /\ price # worst /\ Places = 1..Depth /\ Depth \in Places
  BY <1>1, Parameters DEF Sound, Places
<1>3. OneSide(b, c, side) /\ Removed(side, price, qty, type, b, c)
  BY <1>2, RemoveQtyIs
<1>4. /\ \A i \in Places : A[i].price = worst => A[i].qty = 0
      /\ worst \in DOMAIN O => O[worst] = 0
  BY <1>1 DEF Sound
<1>5. /\ \A i \in Places : B[i].price = worst => B[i].qty = 0
      /\ worst \in DOMAIN P => P[worst] = 0
  <2>1. CASE B = A /\ MapSet(O, price, (InMap(O, price) - qty) % WordMod, P)
    BY <1>2, <1>4, <2>1 DEF MapSet
  <2>2. ASSUME NEW at \in Places, A[at].price = price,
               PlaceSet(A, at, (A[at].qty - qty) % WordMod, B), P = O
        PROVE  /\ \A i \in Places : B[i].price = worst => B[i].qty = 0
               /\ worst \in DOMAIN P => P[worst] = 0
    <3>1. \A i \in Places : B[i] = A[i] \/ B[i].price = price
      BY <2>2 DEF PlaceSet
    <3> QED
      BY <1>2, <1>4, <2>2, <3>1
  <2>3. ASSUME NEW at \in Places, NEW x, ShiftedOut(A, at, x, B), Promoted(side, O, x, P)
        PROVE  /\ \A i \in Places : B[i].price = worst => B[i].qty = 0
               /\ worst \in DOMAIN P => P[worst] = 0
    <3>1. ASSUME NEW i \in Places
          PROVE  B[i] = x \/ \E j \in Places : B[i] = A[j]
      <4>1. CASE i < at
        BY <2>3, <4>1 DEF ShiftedOut
      <4>2. CASE ~(i < at) /\ i = Depth
        BY <2>3, <4>2 DEF ShiftedOut
      <4>3. CASE ~(i < at) /\ i # Depth
        <5>1. i + 1 \in Places
          BY <1>2, <4>3
        <5> QED
          BY <2>3, <4>3, <5>1 DEF ShiftedOut
      <4> QED
        BY <4>1, <4>2, <4>3
    <3>2. x.price = worst => x.qty = 0
      <4>1. CASE x \in LB!Junk
        <5>1. worst # 0
          BY <1>1, Parameters DEF LB!Worst
        <5> QED
          BY <4>1, <5>1 DEF LB!Junk
      <4>2. CASE x \notin LB!Junk
        BY <1>4, <2>3, <4>2 DEF Promoted
      <4> QED
        BY <4>1, <4>2
    <3>3. worst \in DOMAIN P => P[worst] = 0
      BY <1>4, <2>3 DEF Promoted
    <3> QED
      BY <1>4, <3>1, <3>2, <3>3
  <2> QED
    BY <1>1, <1>3, <2>1, <2>2, <2>3 DEF Removed
<1> QED
  BY <1>1, <1>3, <1>5, SoundOneSide

\* A cleared book has nothing, if the sentinels are what is left of the maps.
NoQuantity == [side \in Sides |-> [p \in Prices |-> 0]]

LEMMA ClearIs ==
  ASSUME NEW b, Sound(b), NEW c, c = LB!Clear(b)
  PROVE  /\ Sound(c) /\ c.id = b.id + 1
         /\ (\A side \in Sides : /\ DOMAIN b.outer[side] # {}
                                 /\ LB!Begin(b.outer[side], side) = LB!Worst(side))
              => Keeps(c, NoQuantity)
<1>1. PICK array, outer : /\ array = LB!EmptyArray
                          /\ outer = [side \in Sides |->
                               [p \in {q \in DOMAIN b.outer[side] : q = LB!Begin(b.outer[side], side)} |->
                                  b.outer[side][p]]]
  OBVIOUS
<1>2. c = [b EXCEPT !.array = array, !.outer = outer, !.id = @ + 1, !.event = "none"]
  BY <1>1 DEF LB!Clear, LB!Sides, Sides
<1>3. array \in [Sides -> [Places -> Level]]
      /\ \A side \in Sides, i \in Places :
           array[side][i].price = LB!Worst(side) /\ array[side][i].qty = 0
  <2>1. array = [side \in Sides |-> [i \in Places |-> [qty |-> 0, price |-> LB!Worst(side)]]]
    BY <1>1 DEF LB!EmptyArray, LB!EmptyLevel, LB!Sides, Sides, Places
  <2>2. \A side \in Sides : [qty |-> 0, price |-> LB!Worst(side)] \in Level
    BY Parameters DEF Level
  <2> QED
    BY <2>1, <2>2
<1>4. outer \in [Sides -> Maps]
      /\ \A side \in Sides : /\ DOMAIN outer[side] \subseteq DOMAIN b.outer[side]
                             /\ \A p \in DOMAIN outer[side] : outer[side][p] = b.outer[side][p]
                             /\ \A p \in DOMAIN outer[side] : p = LB!Begin(b.outer[side], side)
  <2>1. ASSUME NEW side \in Sides
        PROVE  /\ outer[side] \in Maps
               /\ DOMAIN outer[side] \subseteq DOMAIN b.outer[side]
               /\ \A p \in DOMAIN outer[side] : outer[side][p] = b.outer[side][p]
               /\ \A p \in DOMAIN outer[side] : p = LB!Begin(b.outer[side], side)
    <3>1. PICK O : O = b.outer[side]
      OBVIOUS
    <3>2. PICK first : first = LB!Begin(O, side)
      OBVIOUS
    <3>3. PICK P : P = [p \in {q \in DOMAIN O : q = first} |-> O[p]]
      OBVIOUS
    <3>4. outer[side] = P
      BY <1>1, <3>1, <3>2, <3>3
    <3>5. O \in Maps
      BY <3>1 DEF Sound, Book
    <3>6. /\ DOMAIN O \subseteq Int /\ IsFiniteSet(DOMAIN O) /\ O \in [DOMAIN O -> Nat]
      BY <3>5, InMaps
    <3>7. DOMAIN P \in SUBSET DOMAIN O
      BY <3>3
    <3>8. IsFiniteSet(DOMAIN P)
      BY <3>6, <3>7, FS_Subset
    <3>9. P \in [DOMAIN P -> Nat] /\ DOMAIN P \subseteq Int
      BY <3>3, <3>6
    <3>10. P \in Maps
      BY <3>8, <3>9, InMaps
    <3> QED
      BY <3>1, <3>2, <3>3, <3>4, <3>10
  <2>2. outer = [side \in Sides |-> outer[side]]
    BY <1>1
  <2> QED
    BY <2>1, <2>2
<1>5. c.array = array /\ c.outer = outer /\ c.id = b.id + 1 /\ c.event = "none"
  BY <1>2 DEF Sound, Book
<1>6. c \in Book
  <2>1. b.id + 1 \in Nat
    BY DEF Sound, Book
  <2> QED
    BY <1>2, <1>3, <1>4, <2>1 DEF Sound, Book, Events
<1>7. Sound(c)
  BY <1>3, <1>4, <1>5, <1>6 DEF Sound
<1>8. ASSUME \A side \in Sides : /\ DOMAIN b.outer[side] # {}
                                 /\ LB!Begin(b.outer[side], side) = LB!Worst(side)
      PROVE  Keeps(c, NoQuantity)
  <2> SUFFICES ASSUME NEW side \in Sides
               PROVE  KeepsSide(side, c, NoQuantity[side])
    BY <1>6 DEF Keeps
  <2>1. PICK A, P, worst : A = c.array[side] /\ P = c.outer[side] /\ worst = LB!Worst(side)
    OBVIOUS
  <2>2. /\ worst \in Int
        /\ A \in [Places -> Level] /\ P \in Maps
        /\ \A i \in Places : A[i].price = worst /\ A[i].qty = 0
    BY <1>3, <1>4, <1>5, <2>1, Parameters
  <2>3. DOMAIN P = {worst} /\ P[worst] = 0
    <3>1. IsFiniteSet(DOMAIN b.outer[side]) /\ DOMAIN b.outer[side] \subseteq Int
      <4>1. b.outer[side] \in Maps
        BY DEF Sound, Book
      <4> QED
        BY <4>1, InMaps
    <3>2. worst \in DOMAIN b.outer[side] /\ worst = LB!Begin(b.outer[side], side)
      BY <1>8, <2>1, <3>1, BeginIsBest
    <3>3. worst \in DOMAIN P
      BY <1>1, <1>5, <2>1, <3>2
    <3>4. \A p \in DOMAIN P : p = worst
      BY <1>4, <1>5, <2>1, <3>2
    <3>5. P[worst] = 0
      <4>1. P[worst] = b.outer[side][worst]
        BY <1>4, <1>5, <2>1, <3>3
      <4>2. b.outer[side][worst] = 0
        BY <2>1, <3>2 DEF Sound
      <4> QED
        BY <4>1, <4>2
    <3> QED
      BY <3>3, <3>4, <3>5
  <2>4. Typed(side, A, P)
    BY <2>1, <2>2, <2>3, TypedAgain
  <2>5. ~Better(side, worst, worst)
    BY <2>2 DEF Better
  <2>6. Sorted(side, A, P) /\ OnceEach(A, P)
    BY <2>2, <2>3, <2>5 DEF Sorted, OnceEach
  <2>7. \A p \in Prices : Has(A, P, p, 0)
    <3>1. \A p \in Prices : p # worst
      BY <2>1, Parameters
    <3> QED
      BY <2>2, <2>3, <3>1 DEF Has, InMap
  <2> QED
    BY <2>1, <2>4, <2>6, <2>7 DEF KeepsSide, WellKept, NoQuantity
<1> QED
  BY <1>5, <1>7, <1>8

\* Each level of the table once, with its quantity.
Complete(table, levels) ==
  /\ levels \in Seq(Entries)
  /\ \A k \in 1..Len(levels) : /\ levels[k].price \in Prices /\ levels[k].qty > 0
                               /\ levels[k].qty = table[levels[k].side][levels[k].price]
  /\ \A j, k \in 1..Len(levels) :
       levels[j].side = levels[k].side /\ levels[j].price = levels[k].price => j = k
  /\ \A side \in Sides, p \in Prices :
       table[side][p] > 0 => \E k \in 1..Len(levels) : levels[k].side = side /\ levels[k].price = p

\* A snapshot adds all of it to a book that has nothing.
LEMMA RebuildKeeps ==
  ASSUME NEW b, Sound(b), Keeps(LB!Clear(b), NoQuantity),
         NEW table \in Tables, \A side \in Sides, p \in Prices : table[side][p] < WordMod,
         NEW levels, Complete(table, levels)
  PROVE  Keeps(LB!Rebuild(b, levels), table)
<1> DEFINE done(k) == [side \in Sides |-> [p \in Prices |->
                         IF \E j \in 1..k : levels[j].side = side /\ levels[j].price = p
                         THEN table[side][p] ELSE 0]]
<1>1. levels \in Seq(Entries) /\ LB!Clear(b) \in Book
  BY DEF Complete, Keeps
<1>2. PICK n \in Nat : n = Len(levels)
  BY <1>1
<1>3. PICK c : /\ c[0] = LB!Clear(b)
               /\ \A k \in 1..n : c[k] = AddEntry(c[k - 1], levels[k])
               /\ LB!Rebuild(b, levels) = [c[n] EXCEPT !.event = "levels"]
  BY <1>1, <1>2, RebuildSteps
<1>4. \A k \in Nat : done(k) \in Tables
  BY DEF Tables
<1> DEFINE S == {k \in Nat : k <= n => Keeps(c[k], done(k))}
<1>5. 0 \in S
  <2>1. done(0) = NoQuantity
    BY DEF NoQuantity
  <2> QED
    BY <1>3, <2>1
<1>6. ASSUME NEW k \in Nat, k \in S
      PROVE  k + 1 \in S
  <2> SUFFICES ASSUME k + 1 <= n
               PROVE  Keeps(c[k + 1], done(k + 1))
    OBVIOUS
  <2>1. k + 1 \in 1..n /\ (k + 1) - 1 = k /\ k <= n
    OBVIOUS
  <2>2. PICK side \in Sides, price \in Prices, qty \in Nat \ {0} :
          levels[k + 1].side = side /\ levels[k + 1].price = price /\ levels[k + 1].qty = qty
    <3>1. levels[k + 1] \in Entries
      BY <1>1, <1>2, <2>1
    <3>2. levels[k + 1].price \in Prices /\ levels[k + 1].qty > 0
      BY <1>2, <2>1 DEF Complete
    <3> QED
      BY <3>1, <3>2 DEF Entries
  <2>3. qty = table[side][price]
    BY <1>2, <2>1, <2>2 DEF Complete
  <2>4. c[k + 1] = LB!AddQty(c[k], side, price, qty)
    BY <1>3, <2>1, <2>2 DEF AddEntry
  <2>5. \A j \in 1..k : ~(levels[j].side = side /\ levels[j].price = price)
    <3> SUFFICES ASSUME NEW j \in 1..k, levels[j].side = side, levels[j].price = price
                 PROVE  FALSE
      OBVIOUS
    <3>1. j \in 1..n /\ j # k + 1
      BY <2>1
    <3> QED
      BY <1>2, <2>1, <2>2, <3>1 DEF Complete
  <2>6. done(k)[side][price] = 0
    BY <2>5
  <2>7. done(k + 1) = [done(k) EXCEPT ![side][price] = @ + qty]
    <3>1. [done(k) EXCEPT ![side][price] = @ + qty] = [done(k) EXCEPT ![side][price] = qty]
      <4>1. done(k)[side][price] + qty = qty
        BY <2>6
      <4> QED
        BY <4>1
    <3>2. PICK next : next = [done(k) EXCEPT ![side][price] = qty]
      OBVIOUS
    <3>3. /\ next \in Tables
          /\ next[side][price] = qty
          /\ \A p \in Prices : p # price => next[side][p] = done(k)[side][p]
          /\ \A t \in Sides : t # side => next[t] = done(k)[t]
      <4>1. PICK T \in Tables : T = done(k)
        BY <1>4
      <4>2. next = [T EXCEPT ![side][price] = qty] /\ qty \in Nat
        BY <3>2, <4>1
      <4> HIDE DEF done
      <4>3. /\ next \in Tables
            /\ next[side][price] = qty
            /\ \A p \in Prices : p # price => next[side][p] = T[side][p]
            /\ \A t \in Sides : t # side => next[t] = T[t]
        BY <4>2 DEF Tables
      <4> QED
        BY <4>1, <4>3
    <3>4. \A t \in Sides, p \in Prices : next[t][p] = done(k + 1)[t][p]
      <4> SUFFICES ASSUME NEW t \in Sides, NEW p \in Prices
                   PROVE  next[t][p] = done(k + 1)[t][p]
        OBVIOUS
      <4>1. CASE t = side /\ p = price
        <5>1. k + 1 \in 1..(k + 1)
          OBVIOUS
        <5> QED
          BY <2>2, <2>3, <3>3, <4>1, <5>1
      <4>2. CASE ~(t = side /\ p = price)
        <5>1. next[t][p] = done(k)[t][p]
          <6> HIDE DEF done
          <6> QED
            BY <3>3, <4>2
        <5>2. \A j \in 1..(k + 1) : j \in 1..k \/ j = k + 1
          OBVIOUS
        <5>3. \A j \in 1..k : j \in 1..(k + 1)
          OBVIOUS
        <5>4. (\E j \in 1..(k + 1) : levels[j].side = t /\ levels[j].price = p)
              <=> (\E j \in 1..k : levels[j].side = t /\ levels[j].price = p)
          BY <2>2, <4>2, <5>2, <5>3
        <5> QED
          BY <5>1, <5>4
      <4> QED
        BY <4>1, <4>2
    <3>5. next = [t \in Sides |-> [p \in Prices |-> next[t][p]]]
      BY <3>3 DEF Tables
    <3>6. done(k + 1) = [t \in Sides |-> [p \in Prices |-> done(k + 1)[t][p]]]
      OBVIOUS
    <3>7. next = done(k + 1)
      <4> HIDE DEF done
      <4> QED
        BY <3>4, <3>5, <3>6
    <3> QED
      BY <3>1, <3>2, <3>7
  <2>8. Keeps(c[k], done(k)) /\ done(k) \in Tables /\ done(k)[side][price] + qty < WordMod
    BY <1>4, <1>6, <2>1, <2>3, <2>6
  <2> HIDE DEF done
  <2>9. Keeps(c[k + 1], [done(k) EXCEPT ![side][price] = @ + qty])
    BY <2>4, <2>8, AddKeeps
  <2> QED
    BY <2>7, <2>9
<1> HIDE DEF S
<1>7. n \in S
  BY <1>5, <1>6, SetInduction
<1>8. done(n) = table
  <2>1. \A side \in Sides, p \in Prices : done(n)[side][p] = table[side][p]
    <3> SUFFICES ASSUME NEW side \in Sides, NEW p \in Prices
                 PROVE  done(n)[side][p] = table[side][p]
      OBVIOUS
    <3>1. table[side][p] \in Nat
      BY DEF Tables
    <3>2. CASE table[side][p] = 0
      BY <3>2
    <3>3. CASE table[side][p] # 0
      <4>1. \E j \in 1..n : levels[j].side = side /\ levels[j].price = p
        BY <1>2, <3>1, <3>3 DEF Complete
      <4> QED
        BY <4>1
    <3> QED
      BY <3>2, <3>3
  <2>2. table = [side \in Sides |-> [p \in Prices |-> table[side][p]]]
    BY DEF Tables
  <2>3. done(n) = [side \in Sides |-> [p \in Prices |-> done(n)[side][p]]]
    OBVIOUS
  <2> HIDE DEF done
  <2> QED
    BY <2>1, <2>2, <2>3
<1>9. Keeps(c[n], table)
  BY <1>7, <1>8 DEF S
<1>10. PICK d, e : d = c[n] /\ e = [d EXCEPT !.event = "levels"]
  OBVIOUS
<1>11. d \in Book
  BY <1>9, <1>10 DEF Keeps
<1>12. e \in Book /\ e.array = d.array /\ e.outer = d.outer
  BY <1>10, <1>11 DEF Book, Events
<1>13. Keeps(e, table)
  BY <1>9, <1>10, <1>12 DEF Keeps, KeepsSide
<1> QED
  BY <1>3, <1>10, <1>13

-----------------------------------------------------------------------------
(* A snapshot.                                                               *)

\* q has each element of L once, as a level of the side with what the row has.
ListsSide(row, side, L, q) ==
  /\ q \in Seq(Entries)
  /\ \A k \in 1..Len(q) : q[k].side = side /\ q[k].price \in L /\ q[k].qty = row[q[k].price]
  /\ \A j, k \in 1..Len(q) : q[j].price = q[k].price => j = k
  /\ \A p \in L : \E k \in 1..Len(q) : q[k].price = p

\* Ranked has as many levels as there are.
LEMMA RankedIs ==
  ASSUME NEW s \in Symbols, NEW side \in Sides, ladder[s] \in Tables,
         NEW L, L = Levels(s, side), IsFiniteSet(L)
  PROVE  /\ Lists(side, L, Ranked(s, side))
         /\ Ranked(s, side) \in Seq(L) /\ Len(Ranked(s, side)) = Cardinality(L)
<1>1. L \subseteq Prices /\ L \subseteq Int
  BY Parameters DEF Levels
<1>2. PICK n \in Nat : n = Cardinality(L)
  BY FS_CardinalityType
<1>3. PICK r : r = Ranked(s, side)
  OBVIOUS
<1>4. r = [i \in 1..Cardinality(L) |-> Nth(side, L, i)]
  BY <1>3 DEF Ranked, Nth
<1>5. Lists(side, L, r)
  BY <1>1, <1>4, RankedLists
<1>6. DOMAIN r = 1..n /\ \A i \in 1..n : r[i] \in L
  BY <1>2, <1>5 DEF Lists
<1>7. r = [i \in 1..n |-> r[i]]
  BY <1>2, <1>4
<1>8. r \in Seq(L) /\ Len(r) = n
  BY <1>6, <1>7
<1> QED
  BY <1>2, <1>3, <1>5, <1>8

\* The levels of a side, if as many were asked for as there are.
LEMMA SideSnapshot ==
  ASSUME NEW s \in Symbols, NEW side \in Sides, ladder[s] \in Tables,
         NEW L, L = Levels(s, side), IsFiniteSet(L), Cardinality(L) <= SnapLevels
  PROVE  ListsSide(ladder[s][side], side, L, SnapSide(s, side))
<1>1. PICK r : r = Ranked(s, side)
  OBVIOUS
<1>2. Lists(side, L, r) /\ r \in Seq(L) /\ Len(r) = Cardinality(L)
  BY <1>1, RankedIs
<1>3. PICK n \in Nat : n = Cardinality(L)
  BY FS_CardinalityType
<1>4. PICK v : v = Reverse(r)
  OBVIOUS
<1>5. v = [i \in 1..n |-> r[n - i + 1]]
  BY <1>2, <1>3, <1>4 DEF Reverse
<1>6. SnapLevels \in Nat
  BY LevelFeedAssumption DEF LevelFeedAssumption
<1>7. DOMAIN v \cap 1..SnapLevels = 1..n
  BY <1>3, <1>5, <1>6
<1>8. PICK row, q : row = ladder[s][side] /\ q = SnapSide(s, side)
  OBVIOUS
<1> DEFINE level(i) == [side |-> side, qty |-> row[v[i]], price |-> v[i]]
<1>9. q = [i \in 1..n |-> level(i)]
  BY <1>1, <1>4, <1>7, <1>8 DEF SnapSide
<1>10. row \in [Prices -> Nat] /\ L \subseteq Prices /\ Prices \subseteq Int
  BY <1>8, Parameters DEF Tables, Levels
<1>11. ASSUME NEW i \in 1..n
       PROVE  /\ n - i + 1 \in 1..n /\ v[i] = r[n - i + 1] /\ v[i] \in L
              /\ q[i].side = side /\ q[i].qty = row[v[i]] /\ q[i].price = v[i]
              /\ q[i] \in Entries
  <2>1. n - i + 1 \in 1..n
    OBVIOUS
  <2>2. v[i] = r[n - i + 1]
    BY <1>5
  <2>3. v[i] \in L
    BY <1>2, <1>3, <2>1, <2>2
  <2>4. q[i] = [side |-> side, qty |-> row[v[i]], price |-> v[i]]
    BY <1>9
  <2>5. v[i] \in Prices /\ v[i] \in Int /\ row[v[i]] \in Nat
    BY <1>10, <2>3
  <2> QED
    BY <2>1, <2>2, <2>3, <2>4, <2>5 DEF Entries
<1>12. q \in Seq(Entries) /\ Len(q) = n
  <2> HIDE DEF level
  <2>1. \A i \in 1..n : level(i) \in Entries
    BY <1>9, <1>11
  <2> QED
    BY <1>9, <2>1
<1>13. ASSUME NEW j \in 1..n, NEW k \in 1..n, q[j].price = q[k].price
       PROVE  j = k
  <2>1. PICK x, y \in 1..n : x = n - j + 1 /\ y = n - k + 1
    BY <1>11
  <2>2. r[x] = r[y]
    BY <1>11, <1>13, <2>1
  <2>3. r[x] \in Int /\ r[y] \in Int
    BY <1>2, <1>3, <1>10 DEF Lists
  <2>4. x < y => Better(side, r[x], r[y])
    BY <1>2, <1>3, <2>1 DEF Lists
  <2>5. y < x => Better(side, r[y], r[x])
    BY <1>2, <1>3, <2>1 DEF Lists
  <2>6. x = y
    BY <2>2, <2>3, <2>4, <2>5 DEF Better
  <2> QED
    BY <2>1, <2>6
<1>14. ASSUME NEW p \in L
       PROVE  \E k \in 1..n : q[k].price = p
  <2>1. PICK i \in 1..n : r[i] = p
    BY <1>2, <1>3 DEF Lists
  <2>2. PICK k \in 1..n : k = n - i + 1
    OBVIOUS
  <2>3. n - k + 1 = i
    BY <2>2
  <2> QED
    BY <1>11, <2>1, <2>3
<1> QED
  BY <1>8, <1>11, <1>12, <1>13, <1>14 DEF ListsSide

\* A snapshot that is not cut off has everything.
LEMMA SnapshotIsComplete ==
  ASSUME NEW s \in Symbols, ladder[s] \in Tables,
         \A side \in Sides : /\ IsFiniteSet(Levels(s, side))
                             /\ Len(Ranked(s, side)) <= SnapLevels
  PROVE  Complete(ladder[s], Snapshot(s))
<1>1. PICK sells, buys : sells = SnapSide(s, "S") /\ buys = SnapSide(s, "B")
  OBVIOUS
<1>2. PICK table : table = ladder[s]
  OBVIOUS
<1>3. ASSUME NEW side \in Sides
      PROVE  ListsSide(table[side], side, Levels(s, side), SnapSide(s, side))
  <2>1. Len(Ranked(s, side)) = Cardinality(Levels(s, side))
    BY RankedIs
  <2> QED
    BY <1>2, <2>1, SideSnapshot
<1>4. /\ ListsSide(table["S"], "S", Levels(s, "S"), sells)
      /\ ListsSide(table["B"], "B", Levels(s, "B"), buys)
  BY <1>1, <1>3 DEF Sides
<1>5. PICK m \in Nat, n \in Nat : m = Len(sells) /\ n = Len(buys)
  BY <1>4 DEF ListsSide
<1>6. PICK q : q = sells \o buys
  OBVIOUS
<1>7. /\ q \in Seq(Entries) /\ Len(q) = m + n
      /\ \A j \in 1..m : q[j] = sells[j]
      /\ \A j \in 1..n : q[m + j] = buys[j]
  BY <1>4, <1>5, <1>6, Concat DEF ListsSide
<1>8. \A k \in 1..(m + n) : k \in 1..m \/ (k - m \in 1..n /\ k = m + (k - m))
  OBVIOUS
<1>9. \A side \in Sides : Levels(s, side) = {p \in Prices : table[side][p] > 0}
  BY <1>2 DEF Levels
<1>10. ASSUME NEW k \in 1..(m + n)
       PROVE  /\ q[k].side \in Sides /\ q[k].price \in Levels(s, q[k].side)
              /\ q[k].qty = table[q[k].side][q[k].price]
              /\ q[k].side = IF k \in 1..m THEN "S" ELSE "B"
  <2>1. CASE k \in 1..m
    <3>1. q[k] = sells[k]
      BY <1>7, <2>1
    <3> QED
      BY <1>4, <1>5, <2>1, <3>1 DEF ListsSide, Sides
  <2>2. CASE k \notin 1..m
    <3>1. PICK j \in 1..n : k = m + j
      BY <1>8, <2>2
    <3>2. q[k] = buys[j]
      BY <1>7, <3>1
    <3> QED
      BY <1>4, <1>5, <2>2, <3>2 DEF ListsSide, Sides
  <2> QED
    BY <2>1, <2>2
<1>11. ASSUME NEW j \in 1..(m + n), NEW k \in 1..(m + n),
              q[j].side = q[k].side, q[j].price = q[k].price
       PROVE  j = k
  <2>1. CASE j \in 1..m
    <3>1. k \in 1..m
      BY <1>10, <1>11, <2>1
    <3>2. q[j] = sells[j] /\ q[k] = sells[k]
      BY <1>7, <2>1, <3>1
    <3> QED
      BY <1>4, <1>5, <1>11, <2>1, <3>1, <3>2 DEF ListsSide
  <2>2. CASE j \notin 1..m
    <3>1. k \notin 1..m
      BY <1>10, <1>11, <2>2
    <3>2. PICK x, y \in 1..n : j = m + x /\ k = m + y
      BY <1>8, <2>2, <3>1
    <3>3. q[j] = buys[x] /\ q[k] = buys[y]
      BY <1>7, <3>2
    <3>4. x = y
      BY <1>4, <1>5, <1>11, <3>3 DEF ListsSide
    <3> QED
      BY <3>2, <3>4
  <2> QED
    BY <2>1, <2>2
<1>12. ASSUME NEW side \in Sides, NEW p \in Prices, table[side][p] > 0
       PROVE  \E k \in 1..(m + n) : q[k].side = side /\ q[k].price = p
  <2>1. p \in Levels(s, side)
    BY <1>9, <1>12
  <2>2. CASE side = "S"
    <3>1. PICK k \in 1..m : sells[k].price = p
      BY <1>4, <1>5, <2>1, <2>2 DEF ListsSide
    <3>2. k \in 1..(m + n) /\ q[k] = sells[k]
      BY <1>7
    <3> QED
      BY <1>10, <2>2, <3>1, <3>2
  <2>3. CASE side = "B"
    <3>1. PICK k \in 1..n : buys[k].price = p
      BY <1>4, <1>5, <2>1, <2>3 DEF ListsSide
    <3>2. m + k \in 1..(m + n) /\ m + k \notin 1..m /\ q[m + k] = buys[k]
      BY <1>7
    <3> QED
      BY <1>10, <2>3, <3>1, <3>2
  <2> QED
    BY <2>2, <2>3 DEF Sides
<1>13. \A k \in 1..(m + n) : q[k].price \in Prices /\ q[k].qty > 0
  BY <1>9, <1>10
<1>14. Complete(table, q)
  BY <1>7, <1>10, <1>11, <1>12, <1>13 DEF Complete
<1> QED
  BY <1>1, <1>2, <1>6, <1>14 DEF Snapshot

\* Cut off or not, a snapshot is made of levels.
Listable == {q \in Seq(Entries) : \A k \in 1..Len(q) : q[k].price \in Prices}

LEMMA SnapshotIsTyped ==
  ASSUME NEW s \in Symbols, ladder[s] \in Tables,
         \A side \in Sides : IsFiniteSet(Levels(s, side))
  PROVE  Snapshot(s) \in Listable
<1>1. ASSUME NEW side \in Sides
      PROVE  SnapSide(s, side) \in Listable
  <2>1. PICK L : L = Levels(s, side)
    OBVIOUS
  <2>2. PICK r : r = Ranked(s, side)
    OBVIOUS
  <2>3. r \in Seq(L)
    BY <2>1, <2>2, RankedIs
  <2>4. PICK n \in Nat : n = Len(r)
    BY <2>3
  <2>5. PICK v : v = Reverse(r)
    OBVIOUS
  <2>6. v = [i \in 1..n |-> r[n - i + 1]]
    BY <2>3, <2>4, <2>5 DEF Reverse
  <2>7. SnapLevels \in Nat
    BY LevelFeedAssumption DEF LevelFeedAssumption
  <2>8. PICK m \in Nat : m <= n /\ 1..n \cap 1..SnapLevels = 1..m
    <3>1. CASE n <= SnapLevels
      BY <2>7, <3>1
    <3>2. CASE SnapLevels <= n
      BY <2>7, <3>2
    <3> QED
      BY <2>7, <3>1, <3>2
  <2>9. PICK row, q : row = ladder[s][side] /\ q = SnapSide(s, side)
    OBVIOUS
  <2> DEFINE level(i) == [side |-> side, qty |-> row[v[i]], price |-> v[i]]
  <2>10. q = [i \in 1..m |-> level(i)]
    <3>1. DOMAIN v = 1..n
      BY <2>6
    <3> QED
      BY <2>2, <2>5, <2>8, <2>9, <3>1 DEF SnapSide
  <2>11. row \in [Prices -> Nat] /\ L \subseteq Prices /\ Prices \subseteq Int
    BY <2>1, <2>9, Parameters DEF Tables, Levels
  <2>12. ASSUME NEW i \in 1..m
         PROVE  level(i) \in Entries /\ level(i).price \in Prices
    <3>1. n - i + 1 \in 1..n /\ i \in 1..n
      BY <2>8
    <3>2. v[i] = r[n - i + 1]
      BY <2>6, <3>1
    <3>3. v[i] \in L
      BY <2>3, <2>4, <3>1, <3>2
    <3> QED
      BY <2>11, <3>3 DEF Entries
  <2> HIDE DEF level
  <2> QED
    BY <2>9, <2>10, <2>12 DEF Listable
<1>2. PICK p, q : p = SnapSide(s, "S") /\ q = SnapSide(s, "B")
  OBVIOUS
<1>3. p \in Listable /\ q \in Listable
  BY <1>1, <1>2 DEF Sides
<1>4. PICK m, n \in Nat : m = Len(p) /\ n = Len(q)
  BY <1>3 DEF Listable
<1>5. PICK t : t = p \o q
  OBVIOUS
<1>6. /\ t \in Seq(Entries) /\ Len(t) = m + n
      /\ \A j \in 1..m : t[j] = p[j]
      /\ \A j \in 1..n : t[m + j] = q[j]
  BY <1>3, <1>4, <1>5, Concat DEF Listable
<1>7. \A k \in 1..(m + n) : k \in 1..m \/ (k - m \in 1..n /\ k = m + (k - m))
  OBVIOUS
<1>8. ASSUME NEW k \in 1..(m + n)
      PROVE  t[k].price \in Prices
  <2>1. CASE k \in 1..m
    BY <1>3, <1>4, <1>6, <2>1 DEF Listable
  <2>2. CASE k \notin 1..m
    <3>1. PICK j \in 1..n : k = m + j
      BY <1>7, <2>2
    <3> QED
      BY <1>3, <1>4, <1>6, <3>1 DEF Listable
  <2> QED
    BY <2>1, <2>2
<1>9. t \in Listable
  BY <1>6, <1>8 DEF Listable
<1> QED
  BY <1>2, <1>5, <1>9 DEF Snapshot

LEMMA ResponsesAreTyped ==
  ASSUME NEW s \in Symbols, ladder[s] \in Tables,
         \A side \in Sides : IsFiniteSet(Levels(s, side)),
         NEW levels \in SnapResponses(s)
  PROVE  levels \in Listable
<1>1. CASE levels = Snapshot(s)
  BY <1>1, SnapshotIsTyped
<1>2. CASE levels = <<>>
  BY <1>2, EmptyInSeq DEF Listable
<1>3. CASE \E side \in Sides, p \in Prices : levels = <<[side |-> side, qty |-> 1, price |-> p]>>
  <2>1. PICK side \in Sides, p \in Prices : levels = <<[side |-> side, qty |-> 1, price |-> p]>>
    BY <1>3
  <2>2. PICK e : e = [side |-> side, qty |-> 1, price |-> p]
    OBVIOUS
  <2>3. e \in Entries /\ e.price \in Prices
    BY <2>2, Parameters DEF Entries
  <2>4. levels = <<e>>
    BY <2>1, <2>2
  <2>5. levels \in Seq(Entries) /\ Len(levels) = 1 /\ levels[1] = e
    BY <2>3, <2>4
  <2>6. \A k \in 1..1 : k = 1
    OBVIOUS
  <2>7. \A k \in 1..Len(levels) : levels[k].price \in Prices
    BY <2>3, <2>5, <2>6
  <2> QED
    BY <2>5, <2>7 DEF Listable
<1> QED
  BY <1>1, <1>2, <1>3 DEF SnapResponses, Uninitialised

\* Whatever is rebuilt, the book stays sound, and book_id_ goes up.
LEMMA RebuildSound ==
  ASSUME NEW b, Sound(b), NEW levels \in Listable
  PROVE  Sound(LB!Rebuild(b, levels)) /\ LB!Rebuild(b, levels).id > b.id
<1>1. PICK base : base = LB!Clear(b)
  OBVIOUS
<1>2. Sound(base) /\ base.id = b.id + 1
  BY <1>1, ClearIs
<1>3. PICK n \in Nat : n = Len(levels)
  BY DEF Listable
<1>4. PICK c : /\ c[0] = base
               /\ \A k \in 1..n : c[k] = AddEntry(c[k - 1], levels[k])
               /\ LB!Rebuild(b, levels) = [c[n] EXCEPT !.event = "levels"]
  <2>1. levels \in Seq(Entries) /\ LB!Clear(b) \in Book
    BY <1>1, <1>2 DEF Listable, Sound
  <2> QED
    BY <1>1, <1>3, <2>1, RebuildSteps
<1>5. b.id \in Nat
  BY DEF Sound, Book
<1> DEFINE S == {k \in Nat : k <= n => Sound(c[k]) /\ c[k].id > b.id}
<1>6. 0 \in S
  BY <1>2, <1>4, <1>5
<1>7. ASSUME NEW k \in Nat, k \in S
      PROVE  k + 1 \in S
  <2> SUFFICES ASSUME k + 1 <= n
               PROVE  Sound(c[k + 1]) /\ c[k + 1].id > b.id
    OBVIOUS
  <2>1. k + 1 \in 1..n /\ (k + 1) - 1 = k /\ k <= n
    OBVIOUS
  <2>2. PICK e : e = levels[k + 1]
    OBVIOUS
  <2>3. e \in Entries /\ e.price \in Prices
    BY <1>3, <2>1, <2>2 DEF Listable
  <2>4. e.side \in Sides /\ e.qty \in Nat
    BY <2>3 DEF Entries
  <2>5. PICK d, f : d = c[k] /\ f = c[k + 1]
    OBVIOUS
  <2>6. f = LB!AddQty(d, e.side, e.price, e.qty)
    BY <1>4, <2>1, <2>2, <2>5 DEF AddEntry
  <2>7. Sound(d) /\ d.id > b.id
    BY <1>7, <2>1, <2>5
  <2>8. Sound(f) /\ (f.id = d.id \/ f.id = d.id + 1)
    BY <2>3, <2>4, <2>6, <2>7, AddSound
  <2>9. d.id \in Nat
    BY <2>7 DEF Sound, Book
  <2> QED
    BY <1>5, <2>5, <2>7, <2>8, <2>9
<1> HIDE DEF S
<1>8. n \in S
  BY <1>6, <1>7, SetInduction
<1>9. PICK d, e : d = c[n] /\ e = [d EXCEPT !.event = "levels"]
  OBVIOUS
<1>10. Sound(d) /\ d.id > b.id
  BY <1>8, <1>9 DEF S
<1>11. d \in Book
  BY <1>10 DEF Sound
<1>12. e \in Book /\ e.array = d.array /\ e.outer = d.outer /\ e.id = d.id
  BY <1>9, <1>11 DEF Book, Events
<1>13. Sound(e)
  BY <1>10, <1>12 DEF Sound
<1> QED
  BY <1>4, <1>9, <1>10, <1>12, <1>13

-----------------------------------------------------------------------------
(* The exchange's side of a step.                                            *)

\* Finitely many levels, and the best buy below the best sell.
ExchangeOK ==
  /\ ladder \in [Symbols -> Tables]
  /\ \A s \in Symbols, side \in Sides : IsFiniteSet(Levels(s, side))
  /\ \A s \in Symbols : \A p \in Levels(s, "B"), q \in Levels(s, "S") : p < q

\* What a datagram tells of the change of a level.
Change(s, side, qty, price) ==
  /\ \A t \in Symbols : t # s => ladder'[t] = ladder[t]
  /\ sent'.price = price /\ sent'.qty = qty
  /\ \/ /\ sent'.type = "submit" /\ sent'.side = side
        /\ Passive(s, side, price)
        /\ ladder'[s] = [ladder[s] EXCEPT ![side][price] = @ + qty]
     \/ /\ sent'.type \in {"trade", "cancel"}
        /\ sent'.type = "trade" => Best(s, side, price)
        /\ qty <= ladder[s][side][price]
        /\ ladder'[s] = [ladder[s] EXCEPT ![side][price] = @ - qty]

LEMMA AnnouncedIs ==
  ASSUME ExchangeOK, NEW s \in Symbols, Announced(s)
  PROVE  /\ ladder' = [ladder EXCEPT ![s] = ladder'[s]]
         /\ \E side \in Sides, qty \in Nat \ {0}, price \in Prices :
              Change(s, side, qty, price)
<1>1. PICK side \in Sides, qty \in Quantities, price \in Prices :
         \/ Submit(s, side, qty, price)
         \/ Trade(s, side, qty, price)
         \/ Cancel(s, side, qty, price)
  BY DEF Announced
<1>2. qty \in Nat \ {0}
  BY LevelFeedAssumption DEF LevelFeedAssumption
<1>3. ladder \in [Symbols -> Tables]
  BY DEF ExchangeOK
<1>4. CASE Submit(s, side, qty, price)
  <2>1. ladder' = [ladder EXCEPT ![s][side][price] = @ + qty]
    BY <1>4 DEF Submit
  <2>2. PICK row : row = [ladder[s] EXCEPT ![side][price] = @ + qty]
    OBVIOUS
  <2>3. ladder' = [ladder EXCEPT ![s] = row]
    BY <2>1, <2>2
  <2>4. ladder'[s] = row /\ \A t \in Symbols : t # s => ladder'[t] = ladder[t]
    BY <1>3, <2>3
  <2>5. Change(s, side, qty, price)
    BY <1>4, <2>2, <2>4 DEF Submit, Announce, Change
  <2> QED
    BY <1>2, <2>3, <2>4, <2>5
<1>5. CASE Trade(s, side, qty, price) \/ Cancel(s, side, qty, price)
  <2>1. /\ ladder' = [ladder EXCEPT ![s][side][price] = @ - qty]
        /\ qty <= ladder[s][side][price]
    BY <1>5 DEF Trade, Cancel, Reduce
  <2>2. PICK row : row = [ladder[s] EXCEPT ![side][price] = @ - qty]
    OBVIOUS
  <2>3. ladder' = [ladder EXCEPT ![s] = row]
    BY <2>1, <2>2
  <2>4. ladder'[s] = row /\ \A t \in Symbols : t # s => ladder'[t] = ladder[t]
    BY <1>3, <2>3
  <2>5. /\ sent'.type \in {"trade", "cancel"} /\ sent'.price = price /\ sent'.qty = qty
        /\ sent'.type = "trade" => Best(s, side, price)
    BY <1>5 DEF Trade, Cancel, Announce
  <2>6. Change(s, side, qty, price)
    BY <2>1, <2>2, <2>4, <2>5 DEF Change
  <2> QED
    BY <1>2, <2>3, <2>4, <2>6
<1> QED
  BY <1>1, <1>4, <1>5

\* The one level that changes.
LEMMA ChangedLevel ==
  ASSUME ExchangeOK, NEW s \in Symbols, NEW side \in Sides, NEW qty \in Nat \ {0},
         NEW price \in Prices, Change(s, side, qty, price)
  PROVE  /\ ladder'[s] \in Tables
         /\ \A t \in Sides, p \in Prices : ~(t = side /\ p = price) =>
              ladder'[s][t][p] = ladder[s][t][p]
         /\ ladder'[s][side][price] # ladder[s][side][price]
         /\ sent'.type # "submit" => ladder'[s][side][price] < ladder[s][side][price]
         /\ TrueSide(s) = side
<1>1. PICK table, row : table = ladder[s] /\ row = ladder'[s]
  OBVIOUS
<1>2. table \in Tables
  BY <1>1 DEF ExchangeOK
<1>3. PICK n \in Nat : /\ row = [table EXCEPT ![side][price] = n] /\ n # table[side][price]
                       /\ sent'.type # "submit" => n < table[side][price]
  <2>1. table[side][price] \in Nat
    BY <1>2 DEF Tables
  <2>2. CASE sent'.type = "submit"
    <3>1. row = [table EXCEPT ![side][price] = @ + qty]
      BY <1>1, <2>2 DEF Change
    <3>2. table[side][price] + qty \in Nat /\ table[side][price] + qty # table[side][price]
      BY <2>1
    <3> QED
      BY <2>2, <3>1, <3>2
  <2>3. CASE sent'.type # "submit"
    <3>1. row = [table EXCEPT ![side][price] = @ - qty] /\ qty <= table[side][price]
      BY <1>1, <2>3 DEF Change
    <3>2. /\ table[side][price] - qty \in Nat
          /\ table[side][price] - qty < table[side][price]
      BY <2>1, <3>1
    <3>3. table[side][price] - qty # table[side][price]
      BY <2>1, <3>2
    <3> QED
      BY <3>1, <3>2, <3>3
  <2> QED
    BY <2>2, <2>3
<1>4. /\ row \in Tables /\ row[side][price] = n
      /\ \A t \in Sides, p \in Prices : ~(t = side /\ p = price) => row[t][p] = table[t][p]
      /\ \A t \in Sides : t # side => row[t] = table[t]
  BY <1>2, <1>3 DEF Tables
<1>5. TrueSide(s) = side
  <2>1. row[side] # table[side]
    BY <1>3, <1>4
  <2>2. \A t \in Sides : row[t] # table[t] <=> t = side
    BY <1>4, <2>1
  <2> QED
    BY <1>1, <2>2 DEF TrueSide
<1> QED
  BY <1>1, <1>3, <1>4, <1>5

LEMMA ExchangeStep ==
  ASSUME ExchangeOK, NEW s \in Symbols, Announced(s)
  PROVE  ExchangeOK'
<1>1. PICK side \in Sides, qty \in Nat \ {0}, price \in Prices : Change(s, side, qty, price)
  BY AnnouncedIs
<1>2. /\ ladder'[s] \in Tables
      /\ \A t \in Sides, p \in Prices : ~(t = side /\ p = price) =>
           ladder'[s][t][p] = ladder[s][t][p]
      /\ sent'.type # "submit" => ladder'[s][side][price] < ladder[s][side][price]
  BY <1>1, ChangedLevel
<1>3. \A t \in Symbols : t # s => ladder'[t] = ladder[t]
  BY <1>1 DEF Change
<1>4. ladder' \in [Symbols -> Tables]
  <2>1. ladder' = [ladder EXCEPT ![s] = ladder'[s]]
    BY AnnouncedIs
  <2>2. PICK row : row = ladder'[s]
    OBVIOUS
  <2>3. ladder' = [ladder EXCEPT ![s] = row] /\ row \in Tables
    BY <1>2, <2>1, <2>2
  <2> QED
    BY <2>3 DEF ExchangeOK
<1>5. \A t \in Sides : ladder[s][t] \in [Prices -> Nat] /\ ladder'[s][t] \in [Prices -> Nat]
  BY <1>2 DEF ExchangeOK, Tables
<1>6. ASSUME NEW t \in Sides
      PROVE  Levels(s, t)' \subseteq Levels(s, t) \cup (IF t = side THEN {price} ELSE {})
  BY <1>2, <1>5 DEF Levels
<1>7. sent'.type # "submit" => Levels(s, side)' \subseteq Levels(s, side)
  BY <1>2, <1>5 DEF Levels
<1>8. ASSUME NEW u \in Symbols, NEW t \in Sides
      PROVE  IsFiniteSet(Levels(u, t)')
  <2>1. IsFiniteSet(Levels(u, t))
    BY DEF ExchangeOK
  <2>2. CASE u # s
    BY <1>3, <2>1, <2>2 DEF Levels
  <2>3. CASE u = s
    <3>1. IsFiniteSet(Levels(s, t) \cup {price})
      BY <2>1, <2>3, FS_AddElement
    <3>2. Levels(s, t)' \subseteq Levels(s, t) \cup {price}
      BY <1>6
    <3> QED
      BY <2>3, <3>1, <3>2, FS_Subset
  <2> QED
    BY <2>2, <2>3
<1>9. ASSUME NEW u \in Symbols, NEW p \in Levels(u, "B")', NEW q \in Levels(u, "S")'
      PROVE  p < q
  <2>1. \A x \in Levels(u, "B"), y \in Levels(u, "S") : x < y
    BY DEF ExchangeOK
  <2>2. CASE u # s
    BY <1>3, <2>1, <2>2 DEF Levels
  <2>3. CASE u = s /\ sent'.type # "submit"
    <3>1. p \in Levels(s, "B") /\ q \in Levels(s, "S")
      BY <1>6, <1>7, <2>3 DEF Sides
    <3> QED
      BY <2>1, <2>3, <3>1
  <2>4. CASE u = s /\ sent'.type = "submit"
    <3>1. Passive(s, side, price)
      BY <1>1, <2>4 DEF Change
    <3>2. CASE side = "B"
      <4>1. \A y \in Levels(s, "S") : price < y
        <5> SUFFICES ASSUME NEW y \in Levels(s, "S")
                     PROVE  price < y
          OBVIOUS
        <5>1. Better(side, y, price)
          BY <3>1, <3>2 DEF Passive, Opposite
        <5>2. y \in Int /\ price \in Int
          BY Parameters DEF Levels
        <5> QED
          BY <3>2, <5>1, <5>2 DEF Better
      <4>2. q \in Levels(s, "S") /\ (p \in Levels(s, "B") \/ p = price)
        BY <1>6, <2>4, <3>2 DEF Sides
      <4> QED
        BY <2>1, <2>4, <4>1, <4>2
    <3>3. CASE side = "S"
      <4>1. \A y \in Levels(s, "B") : y < price
        <5> SUFFICES ASSUME NEW y \in Levels(s, "B")
                     PROVE  y < price
          OBVIOUS
        <5>1. Better(side, y, price)
          BY <3>1, <3>3 DEF Passive, Opposite
        <5> QED
          BY <3>3, <5>1 DEF Better
      <4>2. p \in Levels(s, "B") /\ (q \in Levels(s, "S") \/ q = price)
        BY <1>6, <2>4, <3>3 DEF Sides
      <4> QED
        BY <2>1, <2>4, <4>1, <4>2
    <3> QED
      BY <3>2, <3>3 DEF Sides
  <2> QED
    BY <2>2, <2>3, <2>4
<1> QED
  BY <1>4, <1>8, <1>9 DEF ExchangeOK

-----------------------------------------------------------------------------
(* The subscriber's side of a step.                                          *)

\* A sell at a real price that has nothing is shown first.
GhostFirst(b) == LB!BestSell(b) \in Prices /\ b.array["S"][1].qty = 0

\* The first sell shown is the best there is, or a ghost before it.
LEMMA FirstSell ==
  ASSUME NEW b, NEW table \in Tables, Keeps(b, table)
  PROVE  /\ LB!BestSell(b) \in Int
         /\ LB!BestSell(b) \in Prices \/ LB!BestSell(b) = Infinity
         /\ LB!BestSell(b) \in Prices => b.array["S"][1].qty = table["S"][LB!BestSell(b)]
         /\ \A p \in Prices : table["S"][p] > 0 => LB!BestSell(b) <= p
<1>1. PICK A, O, best : A = b.array["S"] /\ O = b.outer["S"] /\ best = A[1].price
  OBVIOUS
<1>2. /\ Typed("S", A, O) /\ Sorted("S", A, O)
      /\ \A p \in Prices : Has(A, O, p, table["S"][p])
  BY <1>1 DEF Keeps, KeepsSide, WellKept, Sides
<1>3. 1 \in Places /\ \A j \in Places : ~(j < 1)
  BY Parameters DEF Places
<1>4. best \in Prices \cup {Infinity} /\ best \in Int /\ LB!Worst("S") = Infinity
  <2>1. LB!Worst("S") = Infinity
    BY DEF LB!Worst
  <2>2. A[1].price \in Prices \cup {LB!Worst("S")}
    BY <1>2, <1>3 DEF Typed
  <2>3. best \in Prices \cup {Infinity}
    BY <1>1, <2>1, <2>2
  <2> QED
    BY <2>1, <2>3, Parameters
<1>5. best \in Prices => A[1].qty = table["S"][best]
  <2> SUFFICES ASSUME best \in Prices
               PROVE  A[1].qty = table["S"][best]
    OBVIOUS
  <2>1. Has(A, O, best, A[1].qty)
    BY <1>1, <1>3 DEF Has
  <2>2. Has(A, O, best, table["S"][best])
    BY <1>2
  <2> QED
    BY <2>1, <2>2, HasUnique
<1>6. ASSUME NEW p \in Prices, table["S"][p] > 0
      PROVE  best <= p
  <2>1. Has(A, O, p, table["S"][p])
    BY <1>2
  <2>2. CASE \E i \in Places : A[i].price = p
    <3>1. PICK i \in Places : A[i].price = p
      BY <2>2
    <3>2. i = 1 \/ 1 < i
      BY <1>3, <3>1 DEF Places
    <3>3. 1 < i => ~Better("S", p, best)
      BY <1>1, <1>2, <1>3, <3>1 DEF Sorted
    <3> QED
      BY <1>1, <1>4, <3>1, <3>2, <3>3, Parameters DEF Better
  <2>3. CASE \A i \in Places : A[i].price # p
    <3>1. p \in DOMAIN O
      BY <1>6, <2>1, <2>3 DEF Has, InMap
    <3>2. ~Better("S", p, best)
      BY <1>1, <1>2, <1>3, <3>1 DEF Sorted
    <3> QED
      BY <1>4, <3>2, Parameters DEF Better
  <2> QED
    BY <2>2, <2>3
<1> QED
  BY <1>1, <1>4, <1>5, <1>6 DEF LB!BestSell

\* Which side a book takes a datagram for.
LEMMA SideTakenIs ==
  ASSUME NEW b, NEW msg, msg.type \in {"submit", "trade", "cancel"}
  PROVE  /\ msg.type = "submit" => SideTaken(b, msg) = msg.side
         /\ msg.type = "trade" =>
              SideTaken(b, msg) = IF msg.price = LB!BestSell(b) THEN "S" ELSE "B"
         /\ msg.type = "cancel" =>
              SideTaken(b, msg) = IF msg.price < LB!BestSell(b) THEN "B" ELSE "S"
BY DEF SideTaken, LB!TradeSide, LB!CancelSide

LEMMA WrongSideMeansGhost ==
  ASSUME ExchangeOK, NEW s \in Symbols, NEW side \in Sides, NEW qty \in Nat \ {0},
         NEW price \in Prices, Change(s, side, qty, price),
         NEW b, Keeps(b, ladder[s]), SideTaken(b, sent') # side
  PROVE  GhostFirst(b) /\ sent'.type # "submit"
<1>1. PICK table, best : table = ladder[s] /\ best = LB!BestSell(b)
  OBVIOUS
<1>2. table \in Tables
  BY <1>1 DEF ExchangeOK
<1>3. /\ best \in Int /\ best \in Prices \cup {Infinity}
      /\ best \in Prices => b.array["S"][1].qty = table["S"][best]
      /\ \A p \in Prices : table["S"][p] > 0 => best <= p
  BY <1>1, <1>2, FirstSell
<1>4. sent'.type \in {"submit", "trade", "cancel"} /\ sent'.price = price
  BY DEF Change
<1>5. sent'.type # "submit"
  BY <1>4, SideTakenIs DEF Change
<1>6. /\ sent'.type = "trade" => Best(s, side, price)
      /\ qty <= table[side][price]
  BY <1>1, <1>5 DEF Change
<1>7. \A t \in Sides : table[t] \in [Prices -> Nat]
  BY <1>2 DEF Tables
<1>8. table[side][price] > 0
  BY <1>6, <1>7
<1>9. \A t \in Sides, p \in Prices : p \in Levels(s, t) <=> table[t][p] > 0
  BY <1>1 DEF Levels
<1>10. price \in Int /\ price < Infinity
  BY Parameters
<1>11. CASE side = "S"
  <2>1. best <= price
    BY <1>3, <1>8, <1>11
  <2>2. sent'.type = "trade"
    <3> SUFFICES ASSUME sent'.type = "cancel"
                 PROVE  FALSE
      BY <1>4, <1>5
    <3>1. price < best
      BY <1>1, <1>4, <1>11, SideTakenIs
    <3> QED
      BY <1>3, <1>10, <2>1, <3>1
  <2>3. best # price
    BY <1>1, <1>4, <1>11, <2>2, SideTakenIs
  <2>4. best \in Prices /\ best < price
    <3>1. best < price
      BY <1>3, <1>10, <2>1, <2>3
    <3>2. best # Infinity
      BY <1>3, <1>10, <3>1, Parameters
    <3> QED
      BY <1>3, <3>1, <3>2
  <2>5. ~(table["S"][best] > 0)
    <3> SUFFICES ASSUME table["S"][best] > 0
                 PROVE  FALSE
      OBVIOUS
    <3>1. best \in Levels(s, "S")
      BY <1>9, <2>4 DEF Sides
    <3>2. ~Better("S", best, price)
      BY <1>6, <1>11, <2>2, <3>1 DEF Best
    <3> QED
      BY <2>4, <3>2 DEF Better
  <2>6. table["S"][best] = 0
    <3>1. table["S"][best] \in Nat
      BY <1>7, <2>4 DEF Sides
    <3> QED
      BY <2>5, <3>1
  <2> QED
    BY <1>1, <1>3, <1>5, <2>4, <2>6 DEF GhostFirst
<1>12. CASE side = "B"
  <2>1. SideTaken(b, sent') = "S"
    BY <1>4, <1>5, <1>12, SideTakenIs
  <2>2. best <= price
    <3>1. CASE sent'.type = "trade"
      <4>1. best = price
        BY <1>1, <1>4, <2>1, <3>1, SideTakenIs
      <4> QED
        BY <1>10, <4>1
    <3>2. CASE sent'.type = "cancel"
      <4>1. ~(price < best)
        BY <1>1, <1>4, <2>1, <3>2, SideTakenIs
      <4> QED
        BY <1>3, <1>10, <4>1
    <3> QED
      BY <1>4, <1>5, <3>1, <3>2
  <2>3. best \in Prices
    <3>1. best # Infinity
      BY <1>3, <1>10, <2>2, Parameters
    <3> QED
      BY <1>3, <3>1
  <2>4. ~(table["S"][best] > 0)
    <3> SUFFICES ASSUME table["S"][best] > 0
                 PROVE  FALSE
      OBVIOUS
    <3>1. best \in Levels(s, "S") /\ price \in Levels(s, "B")
      BY <1>8, <1>9, <1>12, <2>3 DEF Sides
    <3>2. price < best
      BY <3>1 DEF ExchangeOK
    <3> QED
      BY <1>3, <1>10, <2>2, <3>2
  <2>5. table["S"][best] = 0
    <3>1. table["S"][best] \in Nat
      BY <1>7, <2>3 DEF Sides
    <3> QED
      BY <2>4, <3>1
  <2> QED
    BY <1>1, <1>3, <1>5, <2>3, <2>5 DEF GhostFirst
<1> QED
  BY <1>11, <1>12 DEF Sides

\* A datagram taken for the wrong side still moves book_id_ as it should: the
\* side it is taken for has nothing at that price, so something is left over.
LEMMA WrongSideCounts ==
  ASSUME NEW b, NEW table \in Tables, Keeps(b, table), NEW side \in Sides,
         NEW price \in Prices, NEW qty \in Nat \ {0}, qty < WordMod,
         table[side][price] = 0,
         NEW type \in Events, NEW junk \in LB!Junk,
         NEW c, c = LB!RemoveQty(b, side, price, qty, type, junk)
  PROVE  Counted(b, c)
<1>1. b \in Book /\ price \in Int
  BY Parameters DEF Keeps
<1>2. OneSide(b, c, side) /\ Removed(side, price, qty, type, b, c)
  BY <1>1, RemoveQtyIs
<1>3. PICK A, B, O, P : A = b.array[side] /\ B = c.array[side] /\ O = b.outer[side] /\ P = c.outer[side]
  OBVIOUS
<1>4. WellKept(side, A, O) /\ Has(A, O, price, 0)
  BY <1>3 DEF Keeps, KeepsSide
<1>5. b.id \in Nat /\ b.array \in [Sides -> [Places -> Level]] /\ c.array \in [Sides -> [Places -> Level]]
  BY <1>1, <1>2 DEF OneSide, Book
<1>6. ASSUME B = A
      PROVE  c.array = b.array
  <2>1. \A t \in Sides : c.array[t] = b.array[t]
    BY <1>2, <1>3, <1>6 DEF OneSide
  <2>2. PICK f, g : f = c.array /\ g = b.array
    OBVIOUS
  <2>3. f = [t \in Sides |-> f[t]] /\ g = [t \in Sides |-> g[t]]
    BY <1>5, <2>2
  <2> QED
    BY <2>1, <2>2, <2>3
<1>7. CASE c.id = b.id /\ B = A
  BY <1>5, <1>6, <1>7 DEF Counted
<1>8. CASE \E at \in Places :
             /\ A[at].price = price
             /\ \A j \in Places : j < at => A[j].price # price
             /\ c.id = b.id + 1
             /\ \/ /\ (A[at].qty - qty) % WordMod # 0
                   /\ PlaceSet(A, at, (A[at].qty - qty) % WordMod, B)
                \/ (A[at].qty - qty) % WordMod = 0
  <2>1. PICK at \in Places :
             /\ A[at].price = price
             /\ \A j \in Places : j < at => A[j].price # price
             /\ c.id = b.id + 1
             /\ \/ /\ (A[at].qty - qty) % WordMod # 0
                   /\ PlaceSet(A, at, (A[at].qty - qty) % WordMod, B)
                \/ (A[at].qty - qty) % WordMod = 0
    BY <1>8
  <2>2. A[at].qty = 0
    <3>1. Has(A, O, price, A[at].qty)
      BY <2>1 DEF Has
    <3> QED
      BY <1>4, <3>1, HasUnique
  <2>3. (0 - qty) % WordMod # 0
    <3>1. PICK w \in Nat \ {0} : w = WordMod
      BY Parameters
    <3>2. qty < w
      BY <3>1
    <3>3. (0 - qty) % w = w - qty
      BY <3>2
    <3> QED
      BY <3>1, <3>2, <3>3
  <2>4. B[at].qty # A[at].qty
    BY <2>1, <2>2, <2>3 DEF PlaceSet
  <2>5. c.array # b.array
    BY <1>3, <2>4
  <2> QED
    BY <2>1, <2>5 DEF Counted
<1> QED
  BY <1>2, <1>3, <1>7, <1>8 DEF Removed

\* The quantities of the exchange's levels are within a word, as those of the
\* messages that carry them are.
FitsWord == \A s \in Symbols, side \in Sides, p \in Prices : ladder[s][side][p] < WordMod

\* A level kept in the map was used up.
UsedUpBehind(b, c, qty) ==
  \E side \in Sides, p \in Prices :
    p \in DOMAIN b.outer[side] /\ b.outer[side][p] = qty /\ c.outer[side][p] = 0

LEMMA ApplyIs ==
  ASSUME NEW b, NEW msg, msg.type \in {"submit", "trade", "cancel"}, NEW junk
  PROVE  /\ msg.type = "submit" =>
              LB!Apply(b, msg, junk) = LB!AddQty(b, SideTaken(b, msg), msg.price, msg.qty)
         /\ msg.type # "submit" =>
              LB!Apply(b, msg, junk) =
                LB!RemoveQty(b, SideTaken(b, msg), msg.price, msg.qty, msg.type, junk)
BY DEF SideTaken, LB!Apply

LEMMA TakesDatagram ==
  ASSUME ExchangeOK, FitsWord, FitsWord', NEW s \in Symbols, NEW side \in Sides,
         NEW qty \in Nat \ {0}, NEW price \in Prices, Change(s, side, qty, price),
         NEW b, Sound(b), NEW junk \in LB!Junk, NEW c, c = LB!Apply(b, sent', junk)
  PROVE  /\ Sound(c)
         /\ Keeps(b, ladder[s]) => Counted(b, c)
         /\ Keeps(b, ladder[s]) /\ SideTaken(b, sent') = side =>
              /\ Keeps(c, ladder'[s])
              /\ NoGhost(b) /\ ~NoGhost(c) => UsedUpBehind(b, c, sent'.qty)
<1>1. PICK table, next, taken, type :
        /\ table = ladder[s] /\ next = ladder'[s]
        /\ taken = SideTaken(b, sent') /\ type = sent'.type
  OBVIOUS
<1>2. table \in Tables
  BY <1>1 DEF ExchangeOK
<1>3. type \in {"submit", "trade", "cancel"} /\ sent'.price = price /\ sent'.qty = qty
  BY <1>1 DEF Change
<1>4. /\ type = "submit" => taken = sent'.side
      /\ type = "trade" => taken \in Sides
      /\ type = "cancel" => taken \in Sides
  BY <1>1, <1>3, SideTakenIs DEF Sides
<1>5. /\ type = "submit" => c = LB!AddQty(b, taken, price, qty)
      /\ type # "submit" => c = LB!RemoveQty(b, taken, price, qty, type, junk)
  BY <1>1, <1>3, ApplyIs
<1>6. \A t \in Sides, p \in Prices :
        table[t][p] \in Nat /\ table[t][p] < WordMod /\ next[t][p] < WordMod
  BY <1>1, <1>2 DEF FitsWord, Tables
<1>7. CASE type = "submit"
  <2>1. taken = side
    BY <1>1, <1>4, <1>7 DEF Change
  <2>2. next = [table EXCEPT ![side][price] = @ + qty]
    BY <1>1, <1>7 DEF Change
  <2>3. next[side][price] = table[side][price] + qty
    BY <1>2, <2>2 DEF Tables
  <2>4. table[side][price] + qty < WordMod
    BY <1>6, <2>3
  <2>5. Sound(c)
    BY <1>5, <1>7, <2>1, AddSound
  <2>6. ASSUME Keeps(b, table)
        PROVE  Keeps(c, next) /\ Counted(b, c) /\ (NoGhost(b) => NoGhost(c))
    BY <1>2, <1>5, <1>7, <2>1, <2>2, <2>4, <2>6, AddKeeps
  <2> QED
    BY <1>1, <2>5, <2>6
<1>8. CASE type \in {"trade", "cancel"}
  <2>1. type # "submit" /\ type \in Events /\ taken \in Sides
    BY <1>4, <1>8 DEF Events
  <2>2. c = LB!RemoveQty(b, taken, price, qty, type, junk)
    BY <1>5, <2>1
  <2>3. Sound(c)
    BY <2>1, <2>2, RemoveSound
  <2>4. qty <= table[side][price] /\ next = [table EXCEPT ![side][price] = @ - qty]
    BY <1>1, <2>1 DEF Change
  <2>5. ASSUME Keeps(b, table), taken = side
        PROVE  /\ Keeps(c, next) /\ Counted(b, c)
               /\ NoGhost(b) /\ ~NoGhost(c) => UsedUpBehind(b, c, qty)
    <3>1. table[side][price] < WordMod
      BY <1>6
    <3>2. /\ Keeps(c, [table EXCEPT ![side][price] = @ - qty])
          /\ Counted(b, c)
          /\ NoGhost(b) /\ ~NoGhost(c) =>
               /\ price \in DOMAIN b.outer[side]
               /\ b.outer[side][price] = qty /\ c.outer[side][price] = 0
      <4>1. c = LB!RemoveQty(b, side, price, qty, type, junk)
        BY <2>2, <2>5
      <4>2. qty <= table[side][price] /\ type \in Events /\ Keeps(b, table)
        BY <2>1, <2>4, <2>5
      <4>3. side \in Sides /\ price \in Prices /\ qty \in Nat \ {0} /\ junk \in LB!Junk
        OBVIOUS
      <4> QED
        BY ONLY <1>2, <3>1, <4>1, <4>2, <4>3, RemoveKeeps
    <3> QED
      BY <2>4, <3>2 DEF UsedUpBehind
  <2>6. ASSUME Keeps(b, table), taken # side
        PROVE  Counted(b, c)
    <3>1. table[side][price] > 0 /\ qty < WordMod
      <4>1. table[side][price] \in Nat /\ table[side][price] < WordMod
        BY <1>6
      <4>2. WordMod \in Nat
        BY Parameters
      <4> QED
        BY <2>4, <4>1, <4>2
    <3>2. table[taken][price] = 0
      <4> SUFFICES ASSUME table[taken][price] # 0
                   PROVE  FALSE
        OBVIOUS
      <4>1. table[taken][price] > 0
        BY <1>6, <2>1
      <4>2. price \in Levels(s, taken) /\ price \in Levels(s, side)
        BY <1>1, <3>1, <4>1 DEF Levels
      <4>3. price \in Levels(s, "B") /\ price \in Levels(s, "S")
        BY <2>1, <2>6, <4>2 DEF Sides
      <4>4. price < price
        BY <4>3 DEF ExchangeOK
      <4> QED
        BY <4>4, Parameters
    <3> QED
      BY <1>2, <2>1, <2>2, <2>6, <3>1, <3>2, WrongSideCounts
  <2> QED
    BY <1>1, <1>3, <2>3, <2>5, <2>6
<1> QED
  BY <1>3, <1>7, <1>8

-----------------------------------------------------------------------------
(* The invariant.                                                            *)

\* Every book is sound, and one that has followed the feed has at each price
\* what the exchange has, in one place.
IInv ==
  /\ ExchangeOK
  /\ books \in [Symbols -> Book]
  /\ \A s \in Symbols : Sound(books[s])
  /\ \A s \in Followed : Keeps(books[s], ladder[s])

LEMMA NewBookKeeps ==
  Sound(LB!NewBook) /\ Keeps(LB!NewBook, NoQuantity)
<1> DEFINE b == LB!NewBook
<1>1. /\ b.array = LB!EmptyArray
      /\ b.outer = [side \in Sides |-> [p \in {LB!Worst(side)} |-> 0]]
      /\ b = [array |-> b.array, outer |-> b.outer, id |-> 0, event |-> "none"]
  BY DEF LB!NewBook, LB!Sides, Sides
<1>2. ASSUME NEW side \in Sides
      PROVE  /\ b.array[side] \in [Places -> Level]
             /\ \A i \in Places : b.array[side][i].price = LB!Worst(side) /\ b.array[side][i].qty = 0
             /\ b.outer[side] \in Maps
             /\ DOMAIN b.outer[side] = {LB!Worst(side)}
             /\ b.outer[side][LB!Worst(side)] = 0
  <2>1. PICK worst : worst = LB!Worst(side)
    OBVIOUS
  <2>2. worst \in Int
    BY <2>1, Parameters
  <2>3. b.array[side] = [i \in Places |-> [qty |-> 0, price |-> worst]]
    BY <1>1, <2>1 DEF LB!EmptyArray, LB!EmptyLevel, LB!Sides, Sides, Places
  <2>4. b.outer[side] = [p \in {worst} |-> 0]
    BY <1>1, <2>1
  <2>5. [p \in {worst} |-> 0] \in Maps
    <3>1. PICK O : O = [p \in {worst} |-> 0]
      OBVIOUS
    <3>2. DOMAIN O = {worst} /\ O \in [DOMAIN O -> Nat] /\ IsFiniteSet({worst})
      BY <3>1, FS_Singleton
    <3> QED
      BY <2>2, <3>1, <3>2, InMaps
  <2> QED
    BY <2>1, <2>2, <2>3, <2>4, <2>5 DEF Level
<1>3. b \in Book
  <2>1. b.array \in [Sides -> [Places -> Level]]
    <3>1. b.array = [side \in Sides |-> b.array[side]]
      BY <1>1 DEF LB!EmptyArray, LB!Sides, Sides
    <3> QED
      BY <1>2, <3>1
  <2>2. b.outer \in [Sides -> Maps]
    <3>1. b.outer = [side \in Sides |-> b.outer[side]]
      BY <1>1
    <3> QED
      BY <1>2, <3>1
  <2>3. PICK A, O : A = b.array /\ O = b.outer
    OBVIOUS
  <2>4. b = [array |-> A, outer |-> O, id |-> 0, event |-> "none"]
    BY <1>1, <2>3
  <2> HIDE DEF b
  <2> QED
    BY <2>1, <2>2, <2>3, <2>4 DEF Book, Events
<1> HIDE DEF b
<1>4. Sound(b)
  BY <1>2, <1>3 DEF Sound
<1>5. ASSUME NEW side \in Sides
      PROVE  KeepsSide(side, b, NoQuantity[side])
  <2>1. PICK A, P, worst : A = b.array[side] /\ P = b.outer[side] /\ worst = LB!Worst(side)
    OBVIOUS
  <2>2. /\ worst \in Int
        /\ A \in [Places -> Level] /\ P \in Maps
        /\ \A i \in Places : A[i].price = worst /\ A[i].qty = 0
        /\ DOMAIN P = {worst} /\ P[worst] = 0
    BY <1>2, <2>1, Parameters
  <2>3. Typed(side, A, P)
    BY <2>1, <2>2, TypedAgain
  <2>4. ~Better(side, worst, worst)
    BY <2>2 DEF Better
  <2>5. Sorted(side, A, P) /\ OnceEach(A, P)
    BY <2>2, <2>4 DEF Sorted, OnceEach
  <2>6. \A p \in Prices : Has(A, P, p, 0)
    <3>1. \A p \in Prices : p # worst
      BY <2>1, Parameters
    <3> QED
      BY <2>2, <3>1 DEF Has, InMap
  <2> QED
    BY <2>1, <2>3, <2>5, <2>6 DEF KeepsSide, WellKept, NoQuantity
<1> QED
  BY <1>3, <1>4, <1>5 DEF Keeps, b

LEMMA InitKeeps ==
  FeedInit => IInv
<1> SUFFICES ASSUME FeedInit
             PROVE  IInv
  OBVIOUS
<1>1. /\ ladder = [s \in Symbols |-> NoQuantity]
      /\ books = [s \in Symbols |-> LB!NewBook]
  BY DEF FeedInit, Init, NoQuantity
<1>2. \A s \in Symbols, side \in Sides : Levels(s, side) = {}
  BY <1>1 DEF Levels, NoQuantity
<1>3. NoQuantity \in Tables
  BY DEF NoQuantity, Tables
<1>4. ExchangeOK
  BY <1>1, <1>2, <1>3, FS_EmptySet DEF ExchangeOK, Sides
<1> QED
  BY <1>1, <1>4, NewBookKeeps DEF IInv, Sound, Followed

\* The parts of the invariant the other symbols keep.
LEMMA OthersKeep ==
  ASSUME IInv, ExchangeOK', NEW s \in Symbols,
         \A t \in Symbols : t # s => ladder'[t] = ladder[t] /\ books'[t] = books[t],
         \A t \in Symbols : t # s /\ t \in Followed' => t \in Followed,
         books' \in [Symbols -> Book], Sound(books'[s]),
         s \in Followed' => Keeps(books'[s], ladder'[s])
  PROVE  IInv'
<1>1. \A t \in Symbols : Sound(books'[t])
  BY DEF IInv
<1>2. \A t \in Followed' : Keeps(books'[t], ladder'[t])
  <2> SUFFICES ASSUME NEW t \in Followed'
               PROVE  Keeps(books'[t], ladder'[t])
    OBVIOUS
  <2>1. t \in Symbols
    BY DEF Followed
  <2>2. CASE t = s
    BY <2>2
  <2>3. CASE t # s
    <3>1. Keeps(books[t], ladder[t])
      BY <2>1, <2>3 DEF IInv
    <3> QED
      BY <2>1, <2>3, <3>1
  <2> QED
    BY <2>2, <2>3
<1> QED
  BY <1>1, <1>2 DEF IInv

LEMMA DeliverStep ==
  ASSUME IInv, FitsWord, FitsWord', NEW s \in Symbols, Deliver(s)
  PROVE  /\ IInv'
         /\ \A t \in Symbols : t # s => books'[t] = books[t] /\ (t \in misrouted' => t \in misrouted)
         /\ s \notin behind
         /\ s \in Followed => Counted(books[s], books'[s])
         /\ s \in Followed \cap misrouted' => GhostFirst(books[s])
         /\ s \in Followed \ misrouted' =>
              (NoGhost(books[s]) /\ ~NoGhost(books'[s])
                 => UsedUpBehind(books[s], books'[s], sent'.qty))
<1>1. ExchangeOK /\ ExchangeOK'
  BY ExchangeStep DEF IInv, Deliver
<1>2. PICK side \in Sides, qty \in Nat \ {0}, price \in Prices : Change(s, side, qty, price)
  BY <1>1, AnnouncedIs DEF Deliver
<1>3. PICK junk \in LB!Junk : books' = [books EXCEPT ![s] = LB!Apply(@, sent', junk)]
  BY DEF Deliver
<1>4. PICK b, c : b = books[s] /\ c = LB!Apply(b, sent', junk)
  OBVIOUS
<1>5. /\ Sound(b) /\ books' = [books EXCEPT ![s] = c] /\ books \in [Symbols -> Book]
      /\ s \in Followed => Keeps(b, ladder[s])
  BY <1>3, <1>4 DEF IInv
<1>6. /\ Sound(c)
      /\ Keeps(b, ladder[s]) => Counted(b, c)
      /\ Keeps(b, ladder[s]) /\ SideTaken(b, sent') = side =>
           /\ Keeps(c, ladder'[s])
           /\ NoGhost(b) /\ ~NoGhost(c) => UsedUpBehind(b, c, sent'.qty)
  BY <1>1, <1>2, <1>4, <1>5, TakesDatagram
<1>7. TrueSide(s) = side
  BY <1>1, <1>2, ChangedLevel
<1>8. /\ SideTaken(b, sent') = side => misrouted' = misrouted
      /\ SideTaken(b, sent') # side => misrouted' = misrouted \cup {s}
      /\ behind' = behind /\ stale' = stale /\ s \notin behind
  BY <1>4, <1>7 DEF Deliver
<1>9. c \in Book
  BY <1>6 DEF Sound
<1>10. /\ books' \in [Symbols -> Book] /\ books'[s] = c
       /\ \A t \in Symbols : t # s => books'[t] = books[t]
  BY <1>5, <1>9
<1>11. s \in Followed /\ s \notin misrouted' => SideTaken(b, sent') = side
  BY <1>8
<1>12. \A t \in Symbols : t \in Followed' => t \in Followed
  BY <1>8 DEF Followed
<1>13. IInv'
  <2>1. \A t \in Symbols : t # s => ladder'[t] = ladder[t]
    BY <1>2 DEF Change
  <2>2. s \in Followed' => Keeps(books'[s], ladder'[s])
    <3>1. s \in Followed' => s \in Followed /\ s \notin misrouted'
      BY <1>12 DEF Followed
    <3> QED
      BY <1>5, <1>6, <1>10, <1>11, <3>1
  <2> QED
    BY <1>1, <1>6, <1>10, <1>12, <2>1, <2>2, OthersKeep
<1>14. s \in Followed \cap misrouted' => GhostFirst(books[s])
  <2> SUFFICES ASSUME s \in Followed, s \in misrouted'
               PROVE  GhostFirst(b)
    BY <1>4
  <2>1. SideTaken(b, sent') # side
    BY <1>8 DEF Followed
  <2> QED
    BY <1>1, <1>2, <1>5, <2>1, WrongSideMeansGhost
<1> QED
  BY <1>4, <1>5, <1>6, <1>8, <1>10, <1>11, <1>13, <1>14

LEMMA MissStep ==
  ASSUME IInv, NEW s \in Symbols, Miss(s)
  PROVE  IInv' /\ books' = books /\ misrouted' = misrouted
<1>1. ExchangeOK'
  BY ExchangeStep DEF IInv, Miss
<1>2. PICK side \in Sides, qty \in Nat \ {0}, price \in Prices : Change(s, side, qty, price)
  BY AnnouncedIs DEF Miss, IInv
<1>3. \A t \in Symbols : t # s => ladder'[t] = ladder[t]
  BY <1>2 DEF Change
<1>4. /\ books' = books /\ misrouted' = misrouted
      /\ \A t \in Symbols : t \in Followed' => t \in Followed
      /\ s \notin Followed'
  BY DEF Miss, Followed
<1>5. books' \in [Symbols -> Book] /\ Sound(books'[s])
  BY <1>4 DEF IInv
<1> QED
  BY <1>1, <1>3, <1>4, <1>5, OthersKeep

\* A snapshot that has everything, and a book that clear() empties.
LEMMA ReplacedKeeps ==
  ASSUME IInv, FitsWord, NEW s \in Symbols, NEW levels, Replaces(s, levels)
  PROVE  Keeps(LB!Rebuild(books[s], levels), ladder[s])
<1>1. PICK b, table : b = books[s] /\ table = ladder[s]
  OBVIOUS
<1>2. Sound(b) /\ table \in Tables
  BY <1>1 DEF IInv, ExchangeOK
<1>3. \A side \in Sides : DOMAIN b.outer[side] # {} /\ LB!Begin(b.outer[side], side) = LB!Worst(side)
  BY <1>1 DEF Replaces
<1>4. Keeps(LB!Clear(b), NoQuantity)
  BY <1>2, <1>3, ClearIs
<1>5. Complete(table, levels)
  <2>1. levels = Snapshot(s)
    BY DEF Replaces
  <2>2. \A side \in Sides : IsFiniteSet(Levels(s, side)) /\ Len(Ranked(s, side)) <= SnapLevels
    BY DEF Replaces, IInv, ExchangeOK
  <2> QED
    BY <1>1, <1>2, <2>1, <2>2, SnapshotIsComplete
<1>6. \A side \in Sides, p \in Prices : table[side][p] < WordMod
  BY <1>1 DEF FitsWord
<1>7. Keeps(LB!Rebuild(b, levels), table)
  BY <1>2, <1>4, <1>5, <1>6, RebuildKeeps
<1> QED
  BY <1>1, <1>7

LEMMA ResyncStep ==
  ASSUME IInv, FitsWord, NEW s \in Symbols, Resync(s)
  PROVE  /\ IInv' /\ s \in behind /\ books'[s].id > books[s].id
         /\ \A t \in Symbols : t # s => books'[t] = books[t]
         /\ \A t \in Symbols : t \in misrouted' => t \in misrouted
<1>1. PICK levels \in SnapResponses(s) :
        /\ books' = [books EXCEPT ![s] = LB!Rebuild(@, levels)]
        /\ \/ /\ Replaces(s, levels)
              /\ misrouted' = misrouted \ {s} /\ stale' = stale \ {s}
           \/ /\ ~Replaces(s, levels)
              /\ misrouted' = misrouted /\ stale' = stale \cup {s}
  BY DEF Resync
<1>2. PICK b, c : b = books[s] /\ c = LB!Rebuild(b, levels)
  OBVIOUS
<1>3. Sound(b) /\ books \in [Symbols -> Book] /\ books' = [books EXCEPT ![s] = c]
  BY <1>1, <1>2 DEF IInv
<1>4. Sound(c) /\ c.id > b.id
  <2>1. levels \in Listable
    BY ResponsesAreTyped DEF IInv, ExchangeOK
  <2> QED
    BY <1>2, <1>3, <2>1, RebuildSound
<1>5. c \in Book
  BY <1>4 DEF Sound
<1>6. /\ books' \in [Symbols -> Book] /\ books'[s] = c
      /\ \A t \in Symbols : t # s => books'[t] = books[t]
  BY <1>3, <1>5
<1>7. ladder' = ladder /\ s \in behind /\ behind' = behind \ {s}
  BY DEF Resync, Quiet
<1>8. ExchangeOK'
  BY <1>7 DEF IInv, ExchangeOK, Levels
<1>9. \A t \in Symbols : t # s /\ t \in Followed' => t \in Followed
  BY <1>1, <1>7 DEF Followed
<1>10. s \in Followed' => Keeps(c, ladder'[s])
  <2> SUFFICES ASSUME s \in Followed'
               PROVE  Keeps(c, ladder'[s])
    OBVIOUS
  <2>1. Replaces(s, levels)
    BY <1>1 DEF Followed
  <2> QED
    BY <1>2, <1>7, <2>1, ReplacedKeeps
<1>11. IInv'
  BY <1>4, <1>6, <1>7, <1>8, <1>9, <1>10, OthersKeep
<1> QED
  BY <1>1, <1>2, <1>4, <1>6, <1>7, <1>11

LEMMA NextKeeps ==
  IInv /\ FitsWord /\ FitsWord' /\ [FeedNext]_feedVars => IInv'
<1> SUFFICES ASSUME IInv, FitsWord, FitsWord', [FeedNext]_feedVars
             PROVE  IInv'
  OBVIOUS
<1>1. ASSUME NEW s \in Symbols, Deliver(s)
      PROVE  IInv'
  BY <1>1, DeliverStep
<1>2. ASSUME NEW s \in Symbols, Miss(s)
      PROVE  IInv'
  BY <1>2, MissStep
<1>3. ASSUME NEW s \in Symbols, Resync(s)
      PROVE  IInv'
  BY <1>3, ResyncStep
<1>4. CASE UNCHANGED feedVars
  BY <1>4 DEF feedVars, ladderVars, IInv, ExchangeOK, Levels, Followed
<1> QED
  BY <1>1, <1>2, <1>3, <1>4 DEF FeedNext

\* The inductive invariant, as long as no level outgrows a word.
THEOREM BooksFollow ==
  FeedSpec /\ []FitsWord => []IInv
<1>1. FeedInit => IInv
  BY InitKeeps
<1>2. IInv /\ FitsWord /\ FitsWord' /\ [FeedNext]_feedVars => IInv'
  BY NextKeeps
<1> QED
  BY <1>1, <1>2, PTL DEF FeedSpec

-----------------------------------------------------------------------------
(* What subscribers see.                                                     *)

\* As long as a book takes its datagrams for the right side it has at every
\* price what the exchange has: nothing is lost or counted twice between array
\* and map, ghosts or not.
THEOREM QuantitiesFollow ==
  FeedSpec /\ []FitsWord => []NothingLostUnlessMisrouted
<1>1. IInv => NothingLostUnlessMisrouted
  <2> SUFFICES ASSUME IInv, NEW s \in Followed, NEW side \in Sides, NEW p \in Prices
               PROVE  Quantity(books[s], side, p) = ladder[s][side][p]
    BY DEF NothingLostUnlessMisrouted
  <2>1. PICK b, n : b = books[s] /\ n = ladder[s][side][p]
    OBVIOUS
  <2>2. WellKept(side, b.array[side], b.outer[side]) /\ Has(b.array[side], b.outer[side], p, n)
    BY <2>1 DEF IInv, Keeps, KeepsSide
  <2>3. Quantity(b, side, p) = n
    BY <2>2, QuantityIsHad
  <2> QED
    BY <2>1, <2>3
<1> QED
  BY <1>1, BooksFollow, PTL

\* Without ghosts the array shows the best levels of the exchange in their
\* order, and the map holds the others.
THEOREM BooksAreFaithful ==
  FeedSpec /\ []FitsWord => []FaithfulUnlessGhost
<1>1. IInv => FaithfulUnlessGhost
  <2> SUFFICES ASSUME IInv, NEW s \in Followed, NoGhost(books[s]), NEW side \in Sides
               PROVE  ShowsBest(s, side) /\ HoldsRest(s, side)
    BY DEF FaithfulUnlessGhost
  <2>1. PICK b, table, L, r :
          b = books[s] /\ table = ladder[s] /\ L = Levels(s, side) /\ r = Ranked(s, side)
    OBVIOUS
  <2>2. s \in Symbols /\ table \in Tables /\ IsFiniteSet(L) /\ Keeps(b, table) /\ NoGhost(b)
    BY <2>1 DEF IInv, ExchangeOK, Followed
  <2>3. L = {p \in Prices : table[side][p] > 0}
    BY <2>1 DEF Levels
  <2>4. Lists(side, L, r) /\ r \in Seq(L) /\ Len(r) = Cardinality(L)
    BY <2>1, <2>2, RankedIs
  <2>5. PICK A, O, worst : A = b.array[side] /\ O = b.outer[side] /\ worst = LB!Worst(side)
    OBVIOUS
  <2>6. /\ \A i \in Places : A[i] = IF i \in DOMAIN r THEN [qty |-> table[side][r[i]], price |-> r[i]]
                                    ELSE LB!EmptyLevel(side)
        /\ DOMAIN O = {worst} \cup {r[i] : i \in (Depth + 1)..Len(r)}
        /\ O[worst] = 0
        /\ \A p \in DOMAIN O : p # worst => O[p] = table[side][p]
    <3>1. Lists(side, L, r)
      BY <2>4
    <3>2. InOrder(side, b, table, L, r)
      BY <2>2, <2>3, <3>1, FaithfulSide
    <3> QED
      BY <2>4, <2>5, <3>2 DEF InOrder
  <2>7. /\ A \in [Places -> Level] /\ O \in [DOMAIN O -> Nat]
    <3>1. O \in Maps /\ A \in [Places -> Level]
      BY <2>2, <2>5 DEF Keeps, Book
    <3> QED
      BY <3>1, InMaps
  <2>8. ShowsBest(s, side)
    <3>1. \A i \in Places : A[i] = Shown(s, side, i)
      BY <2>1, <2>6 DEF Shown
    <3>2. A = [i \in Places |-> A[i]]
      BY <2>7
    <3>3. A = [i \in Places |-> Shown(s, side, i)]
      BY <3>1, <3>2
    <3> QED
      BY <2>1, <2>5, <3>3 DEF ShowsBest, Places
  <2>9. HoldsRest(s, side)
    <3> DEFINE rest == {worst} \cup {r[i] : i \in (Depth + 1)..Len(r)}
               value(p) == IF p = worst THEN 0 ELSE table[side][p]
    <3>1. DOMAIN O = rest /\ \A p \in rest : O[p] = value(p)
      BY <2>6
    <3>2. O = [p \in rest |-> O[p]]
      BY <2>7, <3>1
    <3>3. O = [p \in rest |-> value(p)]
      <4> HIDE DEF rest, value
      <4> QED
        BY <3>1, <3>2
    <3> QED
      BY <2>1, <2>5, <3>3 DEF HoldsRest
  <2> QED
    BY <2>8, <2>9
<1> QED
  BY <1>1, BooksFollow, PTL

\* A ghost is what is left of a level that was used up in the map.
THEOREM GhostsAreUsedUpLevels ==
  FeedSpec /\ []FitsWord => GhostsComeFromOuterLevels
<1>1. ASSUME IInv, FitsWord, FitsWord', [FeedNext]_feedVars, NEW s \in Followed,
             NoGhost(books[s]), ~NoGhost(books'[s])
      PROVE  UsedUpBehind(books[s], books'[s], sent'.qty)
  <2>1. s \in Symbols /\ s \notin behind
    BY DEF Followed
  <2>2. books'[s] # books[s]
    BY <1>1
  <2>3. ASSUME NEW t \in Symbols, Deliver(t)
        PROVE  UsedUpBehind(books[s], books'[s], sent'.qty)
    <3>1. t = s
      BY <1>1, <2>1, <2>2, <2>3, DeliverStep
    <3>2. s \in misrouted' => GhostFirst(books[s])
      BY <1>1, <2>3, <3>1, DeliverStep
    <3>3. ~GhostFirst(books[s])
      <4>1. PICK first : first = books[s].array["S"][1]
        OBVIOUS
      <4>2. 1 \in 1..Depth /\ \A p \in Prices : p # LB!Worst("S")
        BY Parameters DEF Sides
      <4>3. first.price # LB!Worst("S") => first.qty > 0
        BY <1>1, <4>1, <4>2 DEF NoGhost, Sides
      <4>4. first.price \in Prices => first.qty # 0
        BY <4>2, <4>3
      <4> QED
        BY <4>1, <4>4 DEF GhostFirst, LB!BestSell
    <3> QED
      BY <1>1, <2>1, <2>3, <3>1, <3>2, <3>3, DeliverStep
  <2>4. ASSUME NEW t \in Symbols, Miss(t)
        PROVE  FALSE
    BY <1>1, <2>2, <2>4, MissStep
  <2>5. ASSUME NEW t \in Symbols, Resync(t)
        PROVE  FALSE
    BY <1>1, <2>1, <2>2, <2>5, ResyncStep
  <2>6. CASE UNCHANGED feedVars
    BY <2>2, <2>6 DEF feedVars
  <2> QED
    BY <1>1, <2>3, <2>4, <2>5, <2>6 DEF FeedNext
<1>2. IInv /\ FitsWord /\ FitsWord' /\ [FeedNext]_feedVars =>
        [\A s \in Followed : NoGhost(books[s]) /\ ~NoGhost(books'[s]) =>
           \E side \in Sides, p \in Prices :
             /\ p \in DOMAIN books[s].outer[side]
             /\ books[s].outer[side][p] = sent'.qty
             /\ books'[s].outer[side][p] = 0]_feedVars
  BY <1>1 DEF UsedUpBehind
<1> QED
  BY <1>2, BooksFollow, PTL DEF FeedSpec, GhostsComeFromOuterLevels

\* A datagram is taken for the wrong side only if the first sell shown is a ghost.
THEOREM OnlyGhostsMisroute ==
  FeedSpec /\ []FitsWord => MisroutedOnlyByGhost
<1>1. ASSUME IInv, FitsWord, FitsWord', [FeedNext]_feedVars, NEW s \in Followed, s \in misrouted'
      PROVE  GhostFirst(books[s])
  <2>1. s \in Symbols /\ s \notin misrouted
    BY DEF Followed
  <2>2. ASSUME NEW t \in Symbols, Deliver(t)
        PROVE  GhostFirst(books[s])
    <3>1. t = s
      BY <1>1, <2>1, <2>2, DeliverStep
    <3> QED
      BY <1>1, <2>2, <3>1, DeliverStep
  <2>3. ASSUME NEW t \in Symbols, Miss(t)
        PROVE  FALSE
    BY <1>1, <2>1, <2>3, MissStep
  <2>4. ASSUME NEW t \in Symbols, Resync(t)
        PROVE  FALSE
    BY <1>1, <2>1, <2>4, ResyncStep
  <2>5. CASE UNCHANGED feedVars
    BY <1>1, <2>1, <2>5 DEF feedVars
  <2> QED
    BY <1>1, <2>2, <2>3, <2>4, <2>5 DEF FeedNext
<1>2. IInv /\ FitsWord /\ FitsWord' /\ [FeedNext]_feedVars =>
        [\A s \in Followed \cap misrouted' :
           /\ LB!BestSell(books[s]) \in Prices
           /\ books[s].array["S"][1].qty = 0]_feedVars
  BY <1>1 DEF GhostFirst
<1> QED
  BY <1>2, BooksFollow, PTL DEF FeedSpec, MisroutedOnlyByGhost

\* book_id_ moves with the visible levels, and a snapshot moves it on.
THEOREM BookIdsCount ==
  FeedSpec /\ []FitsWord => BookIdCountsChanges
<1> DEFINE moves(s) ==
      IF s \in behind THEN books'[s].id >= books[s].id
      ELSE s \notin misrouted \cup stale => books'[s].id - books[s].id =
             IF books'[s].array = books[s].array THEN 0 ELSE 1
<1>1. ASSUME IInv, FitsWord, FitsWord', [FeedNext]_feedVars, NEW s \in Symbols
      PROVE  moves(s)
  <2>1. books[s].id \in Nat /\ books'[s].id \in Nat
    <3>1. books \in [Symbols -> Book] /\ books' \in [Symbols -> Book]
      BY <1>1, NextKeeps DEF IInv
    <3>2. books[s] \in Book /\ books'[s] \in Book
      BY <3>1
    <3> QED
      BY <3>2 DEF Book
  <2>2. CASE books'[s] = books[s]
    BY <2>1, <2>2
  <2>3. CASE books'[s] # books[s]
    <3>1. ASSUME NEW t \in Symbols, Deliver(t)
          PROVE  moves(s)
      <4>1. t = s
        BY <1>1, <2>3, <3>1, DeliverStep
      <4>2. s \notin behind /\ (s \in Followed => Counted(books[s], books'[s]))
        BY <1>1, <3>1, <4>1, DeliverStep
      <4>3. s \notin misrouted \cup stale => Counted(books[s], books'[s])
        BY <4>2 DEF Followed
      <4> QED
        BY <2>1, <4>2, <4>3 DEF Counted
    <3>2. ASSUME NEW t \in Symbols, Miss(t)
          PROVE  FALSE
      BY <1>1, <2>3, <3>2, MissStep
    <3>3. ASSUME NEW t \in Symbols, Resync(t)
          PROVE  moves(s)
      <4>1. t = s
        BY <1>1, <2>3, <3>3, ResyncStep
      <4>2. s \in behind /\ books'[s].id > books[s].id
        BY <1>1, <3>3, <4>1, ResyncStep
      <4> QED
        BY <2>1, <4>2
    <3>4. CASE UNCHANGED feedVars
      BY <2>3, <3>4 DEF feedVars
    <3> QED
      BY <1>1, <3>1, <3>2, <3>3, <3>4 DEF FeedNext
  <2> QED
    BY <2>2, <2>3
<1>2. IInv /\ FitsWord /\ FitsWord' /\ [FeedNext]_feedVars =>
        [\A s \in Symbols :
           IF s \in behind THEN books'[s].id >= books[s].id
           ELSE s \notin misrouted \cup stale => books'[s].id - books[s].id =
                  IF books'[s].array = books[s].array THEN 0 ELSE 1]_feedVars
  BY <1>1
<1> QED
  BY <1>2, BooksFollow, PTL DEF FeedSpec, BookIdCountsChanges
=============================================================================
