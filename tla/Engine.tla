------------------------------- MODULE Engine -------------------------------
(***************************************************************************)
(* The matching engine of bmatch: class Engine (engine.h, engine.cpp) with *)
(* the books it keeps (book.h) and the request path that feeds it          *)
(* (BasicMatch::action in basic_match.cpp, Serializer::deserialize).       *)
(*                                                                         *)
(* The process is single threaded and run to completion: a request is read *)
(* only when the handler of the previous one has returned.  A submit is    *)
(* modelled at the grain of the matching loop, one action per iteration,   *)
(* because every iteration sends one market-data datagram before the       *)
(* handler returns.  `incoming' is the order the handler is working on;    *)
(* while it is not NoOrder only the loop of that handler can move.         *)
(*                                                                         *)
(* A definition named Bad... is the one that follows it with a plausible   *)
(* bug; no specification uses it.  It shows which bug which property finds. *)
(***************************************************************************)
EXTENDS Integers, Sequences, SequencesExt

CONSTANTS
  Symbols,    \* instruments, one book each
  OrderIds,   \* ids that clients put in their requests
  Prices,     \* limit prices; only their order matters to the engine
  QtyTexts,   \* quantities as clients write them
  QtyMod,     \* 2^16 in the code: OrderInfo::qty_ is a uint16_t
  MaxTxn,     \* bound: no new request once a book has used this many txn ids
  NoOrder,    \* no handler is running
  NoMsg       \* the step sent no datagram

VARIABLES
  book,       \* [symbol -> [side -> (price -> queue of resting orders)]]
  orders,     \* Engine::orders_, id -> where the iterator points
  completed,  \* Engine::completed_orders_
  txn,        \* Book::txn_id_, the NEXT transaction id of each book
  incoming,   \* the order handle_submit is working on
  results,    \* the records emplaced so far for the last request
  sent        \* the datagram this step handed to the multicast socket

vars == <<book, orders, completed, txn, incoming, results, sent>>

Sides == {"B", "S"}
Opposite(side) == IF side = "B" THEN "S" ELSE "B"

Order == [id : OrderIds, sym : Symbols, side : Sides,
          qty : 0..(QtyMod - 1), price : Prices]

\* A list iterator: the level list it points into (the id names the node).
OrderRef == [sym : Symbols, side : Sides, price : Prices]

\* std::map<double, level_t>: only the prices that have a level are keys.
IsLevelMap(levels) == \E D \in SUBSET Prices : levels \in [D -> Seq(Order)]

Msg == [type : {"submit", "cancel", "trade"}, sym : Symbols, txn : Nat,
        side : Sides \cup {"N"}, qty : 0..(QtyMod - 1), price : Prices]

ASSUME EngineAssumption ==
  /\ Prices \subseteq Int
  /\ QtyTexts \subseteq Nat
  /\ QtyMod \in Nat \ {0}
  /\ MaxTxn \in Nat
  /\ NoOrder \notin Order
  /\ NoMsg \notin Msg

-----------------------------------------------------------------------------
(* Levels.  Sells are kept in ascending and buys in descending price order, *)
(* so begin() is the best price of either side.                             *)

Before(side, p, q) == IF side = "B" THEN p > q ELSE p < q

IsBegin(side, levels, p) ==
  /\ p \in DOMAIN levels
  /\ \A q \in DOMAIN levels : ~Before(side, q, p)

\* `<' and `>' for `<=' and `>='.
BadCrosses(o, p) == IF o.side = "B" THEN p < o.price ELSE p > o.price

Crosses(o, p) == IF o.side = "B" THEN p <= o.price ELSE p >= o.price

\* operator[] of the map: an absent level is created empty.
LevelAt(levels, p) == IF p \in DOMAIN levels THEN levels[p] ELSE <<>>

\* The empty level stays in the map.
BadPutLevel(levels, p, queue) ==
  [q \in DOMAIN levels \cup {p} |-> IF q = p THEN queue ELSE levels[q]]

\* Store a level, erasing its key when the list has become empty.
PutLevel(levels, p, queue) ==
  [q \in IF queue = <<>> THEN DOMAIN levels \ {p} ELSE DOMAIN levels \cup {p}
     |-> IF q = p THEN queue ELSE levels[q]]

\* Ahead of the orders that came first.
BadEnqueue(queue, o) == <<o>> \o queue

\* add_order: behind all orders of the level.
Enqueue(queue, o) == Append(queue, o)

EmptyMap == [x \in {} |-> <<>>]

Without(f, x) == [y \in DOMAIN f \ {x} |-> f[y]]

-----------------------------------------------------------------------------
(* Output: one record per result line, one datagram per transaction.        *)

Rec(type, id, qty, price) ==
  [type |-> type, id |-> id, qty |-> qty, price |-> price]

Error(id) == <<Rec("E", id, 0, 0)>>

\* The larger order is reported with its own quantity.
BadFillReport(small, large, price) ==
  <<Rec("F", small.id, small.qty, price), Rec("F", large.id, large.qty, price)>>

\* The completed order first; both sides report the completed quantity at
\* the price of the resting level.
FillReport(small, large, price) ==
  <<Rec("F", small.id, small.qty, price), Rec("F", large.id, small.qty, price)>>

\* The id is not counted up.
BadPublish(type, sym, side, qty, price) ==
  /\ sent' = [type |-> type, sym |-> sym, txn |-> txn[sym],
              side |-> side, qty |-> qty, price |-> price]
  /\ UNCHANGED txn

Publish(type, sym, side, qty, price) ==
  /\ sent' = [type |-> type, sym |-> sym, txn |-> txn[sym],
              side |-> side, qty |-> qty, price |-> price]
  /\ txn' = [txn EXCEPT ![sym] = @ + 1]

-----------------------------------------------------------------------------
Init ==
  /\ book = [s \in Symbols |-> [side \in Sides |-> EmptyMap]]
  /\ orders = EmptyMap
  /\ completed = {}
  /\ txn = [s \in Symbols |-> 1]
  /\ incoming = NoOrder
  /\ results = <<>>
  /\ sent = NoMsg

\* A request is taken from a client only between two handlers.
TakeRequest == incoming = NoOrder

\* MaxTxn bounds the accepted requests; refused ones cost no transaction id.
WithinBound == \A s \in Symbols : txn[s] <= MaxTxn

\* The quantity is not narrowed.
BadDeserialized(id, sym, side, text, price) ==
  [id |-> id, sym |-> sym, side |-> side, qty |-> text, price |-> price]

\* Deserialization narrows the quantity to 16 bits.
Deserialized(id, sym, side, text, price) ==
  [id |-> id, sym |-> sym, side |-> side, qty |-> text % QtyMod, price |-> price]

Requests ==
  {Deserialized(id, sym, side, text, price) :
     id \in OrderIds, sym \in Symbols, side \in Sides,
     text \in QtyTexts, price \in Prices}

\* A line no pattern matches, or whose numbers std::stoi or std::stod refuse.
InvalidLine ==
  /\ TakeRequest
  /\ results' = Error(0)
  /\ sent' = NoMsg
  /\ UNCHANGED <<book, orders, completed, txn, incoming>>

\* The ids of resting orders, or of completed ones, are not looked up.
BadRefusedCompleted(o) == o.id \in completed \/ o.qty = 0
BadRefusedLive(o) == o.id \in DOMAIN orders \/ o.qty = 0

Refused(o) ==
  \/ o.id \in DOMAIN orders
  \/ o.id \in completed
  \/ o.qty = 0

RefuseSubmit(o) ==
  /\ TakeRequest
  /\ Refused(o)
  /\ results' = Error(o.id)
  /\ sent' = NoMsg
  /\ UNCHANGED <<book, orders, completed, txn, incoming>>

AcceptSubmit(o) ==
  /\ TakeRequest
  /\ ~Refused(o)
  /\ WithinBound
  /\ incoming' = o
  /\ results' = <<>>
  /\ sent' = NoMsg
  /\ UNCHANGED <<book, orders, completed, txn>>

Submit == \E o \in Requests : RefuseSubmit(o) \/ AcceptSubmit(o)

-----------------------------------------------------------------------------
(* The matching loop.                                                       *)

\* The best opposite level, when the incoming order crosses it.
Matchable(p) ==
  /\ incoming # NoOrder
  /\ IsBegin(Opposite(incoming.side), book[incoming.sym][Opposite(incoming.side)], p)
  /\ Crosses(incoming, p)

\* The incoming order is not reduced by the fill.
BadReduced(o, n) == IF o.qty = n THEN NoOrder ELSE o

\* The incoming order after a fill of n; at 0 the handler is done with it.
Reduced(o, n) == IF o.qty = n THEN NoOrder ELSE [o EXCEPT !.qty = @ - n]

Queue(p) == book[incoming.sym][Opposite(incoming.side)][p]

\* The order at the front of the level is filled completely and leaves the
\* book; the incoming order goes on, or is filled completely as well.
FillResting(p) ==
  LET resting == Head(Queue(p))
  IN  /\ Matchable(p)
      /\ incoming.qty >= resting.qty
      /\ book' = [book EXCEPT ![incoming.sym][Opposite(incoming.side)] =
                    PutLevel(@, p, Tail(Queue(p)))]
      /\ incoming' = Reduced(incoming, resting.qty)
      /\ orders' = Without(orders, resting.id)
      /\ completed' = completed \cup {resting.id}
      /\ results' = results \o FillReport(resting, incoming, p)
      /\ Publish("trade", incoming.sym, "N", resting.qty, p)

\* The incoming order is filled completely by part of the front order.
FillIncoming(p) ==
  LET resting == Head(Queue(p))
  IN  /\ Matchable(p)
      /\ incoming.qty < resting.qty
      /\ book' = [book EXCEPT ![incoming.sym][Opposite(incoming.side)] =
                    PutLevel(@, p, [Queue(p) EXCEPT ![1].qty = @ - incoming.qty])]
      /\ incoming' = NoOrder
      /\ orders' = Without(orders, incoming.id)
      /\ completed' = completed \cup {incoming.id}
      /\ results' = results \o FillReport(incoming, resting, p)
      /\ Publish("trade", incoming.sym, "N", incoming.qty, p)

\* Nothing left to match: the remainder joins the end of its own level.
RestIncoming ==
  LET o == incoming
      opposite == book[o.sym][Opposite(o.side)]
  IN  /\ incoming # NoOrder
      /\ \/ DOMAIN opposite = {}
         \/ \E p \in Prices : IsBegin(Opposite(o.side), opposite, p) /\ ~Crosses(o, p)
      /\ book' = [book EXCEPT ![o.sym][o.side] =
                    PutLevel(@, o.price, Enqueue(LevelAt(@, o.price), o))]
      /\ orders' = [id \in DOMAIN orders \cup {o.id} |->
                      IF id = o.id
                      THEN [sym |-> o.sym, side |-> o.side, price |-> o.price]
                      ELSE orders[id]]
      /\ incoming' = NoOrder
      /\ Publish("submit", o.sym, o.side, o.qty, o.price)
      /\ UNCHANGED <<completed, results>>

-----------------------------------------------------------------------------
RefuseCancel(id) ==
  /\ TakeRequest
  /\ id \notin DOMAIN orders
  /\ results' = Error(id)
  /\ sent' = NoMsg
  /\ UNCHANGED <<book, orders, completed, txn, incoming>>

\* The datagram goes out before the order leaves its level.
AcceptCancel(id) ==
  LET ref == orders[id]
      queue == book[ref.sym][ref.side][ref.price]
  IN  /\ TakeRequest
      /\ WithinBound
      /\ id \in DOMAIN orders
      /\ \E i \in DOMAIN queue :
           /\ queue[i].id = id
           /\ book' = [book EXCEPT ![ref.sym][ref.side] =
                         PutLevel(@, ref.price, RemoveAt(queue, i))]
           /\ Publish("cancel", ref.sym, "N", queue[i].qty, queue[i].price)
      /\ orders' = Without(orders, id)
      /\ completed' = completed \cup {id}
      /\ results' = <<Rec("X", id, 0, 0)>>
      /\ UNCHANGED incoming

Cancel == \E id \in OrderIds : RefuseCancel(id) \/ AcceptCancel(id)

\* Worst sell to best sell, then best buy to worst buy, each in queue order.
Dump(sym) ==
  LET levels(side) == book[sym][side]
      lines(side) == FlattenSeq([k \in 1..Cardinality(DOMAIN levels(side)) |->
                       levels(side)[SetToSortSeq(DOMAIN levels(side), >)[k]]])
  IN  lines("S") \o lines("B")

Printed(shown) ==
  [i \in DOMAIN shown |-> Rec("P", shown[i].id, shown[i].qty, shown[i].price)]

PrintBooks ==
  /\ TakeRequest
  /\ \E perm \in SetToSeqs(Symbols) :
       results' = Printed(FlattenSeq([k \in DOMAIN perm |-> Dump(perm[k])]))
  /\ sent' = NoMsg
  /\ UNCHANGED <<book, orders, completed, txn, incoming>>

-----------------------------------------------------------------------------
Match == \E p \in Prices : FillResting(p) \/ FillIncoming(p)

Next == InvalidLine \/ Submit \/ Match \/ RestIncoming \/ Cancel \/ PrintBooks

Spec == Init /\ [][Next]_vars

-----------------------------------------------------------------------------
(* Correctness.                                                             *)

\* The engine's state and the datagram it sends are well formed.  `results'
\* is only output and is judged by the properties of EngineAudit.
TypeOK ==
  /\ book = [s \in Symbols |-> [side \in Sides |-> book[s][side]]]
  /\ \A s \in Symbols, side \in Sides : IsLevelMap(book[s][side])
  /\ \E D \in SUBSET OrderIds : orders \in [D -> OrderRef]
  /\ completed \in SUBSET OrderIds
  /\ txn \in [Symbols -> Nat \ {0}]
  /\ incoming \in Order \cup {NoOrder}
  /\ sent \in Msg \cup {NoMsg}

\* The book is never crossed or locked, not even between two fills of one
\* sweep: an order rests only after every level it crosses has been eaten.
Uncrossed ==
  \A s \in Symbols :
    \A bid \in DOMAIN book[s]["B"], ask \in DOMAIN book[s]["S"] : bid < ask

\* No level is left without orders (front() would be undefined) and no order
\* without quantity (the loop of match would fill 0 for ever).
NoEmptyEntries ==
  /\ \A s \in Symbols, side \in Sides :
       \A p \in DOMAIN book[s][side] :
         /\ book[s][side][p] # <<>>
         /\ \A i \in DOMAIN book[s][side][p] : book[s][side][p][i].qty > 0
  /\ incoming # NoOrder => incoming.qty > 0

\* The order knows its place, and the index points there.
IndexedAt(index, o, s, side, p) ==
  /\ o.sym = s /\ o.side = side /\ o.price = p
  /\ o.id \in DOMAIN index
  /\ index[o.id] = [sym |-> s, side |-> side, price |-> p]

\* Every resting order is found through orders_ at the level it rests in, and
\* no level holds an id twice ...
RestingIsIndexed ==
  \A s \in Symbols, side \in Sides : \A p \in DOMAIN book[s][side] :
    /\ \A i \in DOMAIN book[s][side][p] :
         IndexedAt(orders, book[s][side][p][i], s, side, p)
    /\ \A i, j \in DOMAIN book[s][side][p] :
         book[s][side][p][i].id = book[s][side][p][j].id => i = j

RestsAt(books, id, ref) ==
  /\ ref.price \in DOMAIN books[ref.sym][ref.side]
  /\ \E i \in DOMAIN books[ref.sym][ref.side][ref.price] :
       books[ref.sym][ref.side][ref.price][i].id = id

\* ... and no entry of orders_ is an iterator to an order that has left.
IndexIsResting == \A id \in DOMAIN orders : RestsAt(book, id, orders[id])

\* An order is never both live and completed.
LiveNotCompleted ==
  /\ DOMAIN orders \cap completed = {}
  /\ incoming # NoOrder => incoming.id \notin DOMAIN orders \cup completed

\* orders_ holds exactly the orders of the books, each iterator valid: what a
\* later cancel dereferences is the order it names.
IndexMatchesBook == RestingIsIndexed /\ IndexIsResting /\ LiveNotCompleted

\* The matching loop terminates: every iteration that does not end the handler
\* leaves the incoming order strictly smaller.
HandlerProgress ==
  [][incoming # NoOrder /\ incoming' # NoOrder => incoming'.qty < incoming.qty]_vars
=============================================================================
