-------------------------- MODULE EngineImplements --------------------------
(***************************************************************************)
(* The engine implements two abstract specifications: PriceTime, what its  *)
(* clients see, and Ladder, what the subscribers of its feed see.          *)
(***************************************************************************)
EXTENDS Engine

VARIABLE request  \* history: the order the last request entered or withdrew

\* The orders of the books whose id has left orders_.
Withdrawn ==
  {ord \in UNION {Range(book[orders[id].sym][orders[id].side][orders[id].price]) :
                   id \in DOMAIN orders} : ord.id \notin DOMAIN orders'}

RequestNext ==
  /\ Next
  /\ request' = IF incoming # NoOrder THEN request
                ELSE IF incoming' # NoOrder THEN incoming'
                ELSE IF Withdrawn # {} THEN CHOOSE ord \in Withdrawn : TRUE
                ELSE NoOrder

RequestSpec == Init /\ request = NoOrder /\ [][RequestNext]_<<vars, request>>

-----------------------------------------------------------------------------
(* Price-time priority.  A submit takes effect when handle_submit accepts   *)
(* it: while the loop runs, the abstract queue already is what the loop is  *)
(* going to leave behind.                                                   *)

\* The queues of a side; a price without a level has an empty one.
Queues(s, side) == [p \in Prices |-> LevelAt(book[s][side], p)]

Outcome == INSTANCE PriceTime WITH
  Orders <- Requests, fills <- <<>>,
  queue <- [s \in Symbols |-> [side \in Sides |-> Queues(s, side)]]

Across == Queues(incoming.sym, Opposite(incoming.side))

Settled(side) ==
  LET left == Outcome!Unfilled(incoming, Across)
      own == Queues(incoming.sym, side)
  IN  IF side # incoming.side THEN Outcome!Remainder(incoming, Across)
      ELSE IF left = 0 THEN own
      ELSE Outcome!Join([incoming EXCEPT !.qty = left], own)

SettledQueue ==
  [s \in Symbols |-> [side \in Sides |->
     IF incoming # NoOrder /\ s = incoming.sym THEN Settled(side)
     ELSE Queues(s, side)]]

\* The lines of a request are fill lines or none is.
FillLines == IF \E i \in DOMAIN results : results[i].type # "F" THEN <<>> ELSE results

SettledFills ==
  FillLines \o IF incoming = NoOrder THEN <<>> ELSE Outcome!Executions(incoming, Across)

Market == INSTANCE PriceTime WITH
  Orders <- Requests, queue <- SettledQueue, fills <- SettledFills

\* Whatever the loop of match does, its result is the one-step allocation in
\* price-time order, fill lines included, and no other request moves an order.
ImplementsPriceTime == Market!Spec

-----------------------------------------------------------------------------
(* The feed.                                                                *)

QtyAt(levels, p) ==
  FoldSeq(LAMBDA o, sum : o.qty + sum, 0, LevelAt(levels, p))

Feed == INSTANCE Ladder WITH
  ladder <- [s \in Symbols |-> [side \in Sides |->
               [p \in Prices |-> QtyAt(book[s][side], p)]]],
  nextTxn <- txn,
  Quantities <- 1..(QtyMod - 1)

\* Between two datagrams nothing in any book changes, and each datagram is
\* enough to follow the change: type, price, quantity and, for submits, side.
ImplementsLadder == Feed!Spec
=============================================================================
