----------------------------- MODULE LevelBook -----------------------------
(***************************************************************************)
(* LevelBook<t_levels_> (level_book.h): the subscriber's copy of one       *)
(* instrument.  The best Depth levels of each side are kept in an array,   *)
(* best first, and the levels behind them in a sorted map ("outer"), which *)
(* starts with one sentinel level of quantity 0 at the worst price.  The   *)
(* operators take a book and return the book the method leaves behind.     *)
(*                                                                         *)
(* clear() may erase the sentinel.  When such a map has run empty, begin() *)
(* is dereferenced all the same: what is read is then `junk', any level of *)
(* Junk, which the caller chooses.                                         *)
(*                                                                         *)
(* A definition named Bad... is the one that follows it with a plausible   *)
(* bug; no specification uses it.                                          *)
(***************************************************************************)
EXTENDS Integers, Sequences, SequencesExt

CONSTANTS
  Prices,     \* limit prices
  Depth,      \* t_levels_, 4 in the code
  Infinity,   \* std::numeric_limits<double>::infinity()
  WordMod     \* 2^32 in the code: quantities of levels are uint32_t

\* What the parameters must be; modules that instantiate this one assume it.
LevelBookParameters ==
  /\ Prices \subseteq Int
  /\ Depth \in Nat \ {0}
  /\ Infinity \in Nat
  /\ \A p \in Prices : -Infinity < p /\ p < Infinity
  /\ WordMod \in Nat \ {0}

Sides == {"B", "S"}
Better(side, p, q) == IF side = "B" THEN p > q ELSE p < q
Worst(side) == IF side = "B" THEN -Infinity ELSE Infinity

EmptyLevel(side) == [qty |-> 0, price |-> Worst(side)]
EmptyArray == [side \in Sides |-> [i \in 1..Depth |-> EmptyLevel(side)]]

\* Bytes past an empty map, read as a level.
Junk == [qty : {0, 1}, price : {0}]

NewBook ==
  [array |-> EmptyArray,
   outer |-> [side \in Sides |-> [p \in {Worst(side)} |-> 0]],
   id    |-> 0,           \* book_id_
   event |-> "none"]      \* the callback the last operation made

\* The comparison of the map is turned around.
BadBegin(outer, side) ==
  CHOOSE p \in DOMAIN outer : \A q \in DOMAIN outer : ~Better(side, p, q)

\* begin() of an outer map.
Begin(outer, side) ==
  CHOOSE p \in DOMAIN outer : \A q \in DOMAIN outer : ~Better(side, q, p)

\* clear() keeps the first outer level, whichever it is, and drops the rest.  A
\* map without one is taken to stay empty: ++begin() has no meaning there.
Clear(b) ==
  [b EXCEPT !.array = EmptyArray,
            !.outer = [side \in Sides |->
               [p \in {q \in DOMAIN b.outer[side] : q = Begin(b.outer[side], side)} |->
                  b.outer[side][p]]],
            !.id = @ + 1,
            !.event = "none"]

\* Changes behind the array are counted as well.
BadAddOuter(b, side, price, delta) ==
  [b EXCEPT !.outer[side] =
     [p \in DOMAIN @ \cup {price} |->
        IF p # price THEN @[p]
        ELSE ((IF price \in DOMAIN @ THEN @[price] ELSE 0) + delta) % WordMod],
            !.id = @ + 1,
            !.event = "none"]

\* operator[] of an outer map followed by += or -=.
AddOuter(b, side, price, delta) ==
  [b EXCEPT !.outer[side] =
     [p \in DOMAIN @ \cup {price} |->
        IF p # price THEN @[p]
        ELSE ((IF price \in DOMAIN @ THEN @[price] ELSE 0) + delta) % WordMod],
            !.event = "none"]

-----------------------------------------------------------------------------
\* The level that makes room is dropped.
BadPushOut(outer, last) == outer

\* The worst visible level makes room; an empty one is just dropped.
PushOut(outer, last) ==
  IF last.qty = 0 THEN outer
  ELSE [p \in DOMAIN outer \cup {last.price} |->
          IF p = last.price THEN last.qty ELSE outer[p]]

\* add_buy, add_sell
AddQty(b, side, price, qty) ==
  LET array == b.array[side]
      reached == {i \in 1..Depth : ~Better(side, array[i].price, price)}
      at == CHOOSE i \in reached : \A j \in reached : i <= j
  IN  IF reached = {} THEN AddOuter(b, side, price, qty)
      ELSE IF array[at].price = price
      THEN [b EXCEPT !.array[side][at].qty = (@ + qty) % WordMod,
                     !.id = @ + 1, !.event = "submit"]
      ELSE [b EXCEPT !.array[side] =
                       Front(InsertAt(@, at, [qty |-> qty, price |-> price])),
                     !.outer[side] = PushOut(@, array[Depth]),
                     !.id = @ + 1, !.event = "levels"]

\* A level that is used up stays in the array.
BadStays(left) == TRUE

Stays(left) == left # 0

\* remove_buy, remove_sell.  A level that is used up is replaced by the first
\* outer level, which stays in the map when its quantity is 0.
RemoveQty(b, side, price, qty, type, junk) ==
  LET array == b.array[side]
      found == {i \in 1..Depth : array[i].price = price}
      at == CHOOSE i \in found : \A j \in found : i <= j
      left == (array[at].qty - qty) % WordMod
      next == Begin(b.outer[side], side)
      promoted == IF b.outer[side] = <<>> THEN junk
                  ELSE [qty |-> b.outer[side][next], price |-> next]
  IN  IF found = {} THEN AddOuter(b, side, price, -qty)
      ELSE IF Stays(left)
      THEN [b EXCEPT !.array[side][at].qty = left, !.id = @ + 1, !.event = type]
      ELSE [b EXCEPT !.array[side] = Append(RemoveAt(@, at), promoted),
                     !.outer[side] = IF promoted.qty = 0 THEN @
                       ELSE [p \in DOMAIN @ \ {promoted.price} |-> @[p]],
                     !.id = @ + 1, !.event = "levels"]

BestSell(b) == b.array["S"][1].price

\* A trade belongs to the sells when its price is the best sell ...
TradeSide(b, price) == IF price = BestSell(b) THEN "S" ELSE "B"

\* `<=' for `<'.
BadCancelSide(b, price) == IF price <= BestSell(b) THEN "B" ELSE "S"

\* ... and a cancel to the buys when its price is below it.
CancelSide(b, price) == IF price < BestSell(b) THEN "B" ELSE "S"

\* submit, trade and cancel as Md::recv_cb calls them for a datagram.
Apply(b, msg, junk) ==
  CASE msg.type = "submit" -> AddQty(b, msg.side, msg.price, msg.qty)
    [] msg.type = "trade" ->
         RemoveQty(b, TradeSide(b, msg.price), msg.price, msg.qty, "trade", junk)
    [] msg.type = "cancel" ->
         RemoveQty(b, CancelSide(b, msg.price), msg.price, msg.qty, "cancel", junk)

\* Md::on_snapshot: the levels of a snapshot in the order they were sent.
Rebuild(b, levels) ==
  [FoldLeft(LAMBDA book, level : AddQty(book, level.side, level.price, level.qty),
            Clear(b), levels)
     EXCEPT !.event = "levels"]
=============================================================================
