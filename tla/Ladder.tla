------------------------------- MODULE Ladder -------------------------------
(***************************************************************************)
(* What the market-data feed promises its subscribers: per symbol, every   *)
(* datagram carries the next transaction id and describes the whole change *)
(* of one price level.  Trades and cancels carry no side; the level they   *)
(* mean is the only one of that price, because the book is never crossed.  *)
(***************************************************************************)
EXTENDS Integers

CONSTANTS Symbols, Prices, Quantities, NoMsg

VARIABLES
  ladder,    \* [symbol -> [side -> [price -> quantity at that price]]]
  nextTxn,   \* [symbol -> id of the next datagram]
  sent       \* the last datagram, or NoMsg

ladderVars == <<ladder, nextTxn, sent>>

Sides == {"B", "S"}
Opposite(side) == IF side = "B" THEN "S" ELSE "B"
Better(side, p, q) == IF side = "B" THEN p > q ELSE p < q

Levels(s, side) == {p \in Prices : ladder[s][side][p] > 0}

Best(s, side, p) ==
  /\ p \in Levels(s, side)
  /\ \A q \in Levels(s, side) : ~Better(side, q, p)

\* An order of this side and price would find nothing to trade with.
Passive(s, side, price) ==
  \A q \in Levels(s, Opposite(side)) : Better(side, q, price)

Announce(type, s, side, qty, price) ==
  /\ sent' = [type |-> type, sym |-> s, txn |-> nextTxn[s],
              side |-> side, qty |-> qty, price |-> price]
  /\ nextTxn' = [nextTxn EXCEPT ![s] = @ + 1]

-----------------------------------------------------------------------------
Init ==
  /\ ladder = [s \in Symbols |-> [side \in Sides |-> [p \in Prices |-> 0]]]
  /\ nextTxn = [s \in Symbols |-> 1]
  /\ sent = NoMsg

Submit(s, side, qty, price) ==
  /\ Announce("submit", s, side, qty, price)
  /\ Passive(s, side, price)
  /\ ladder' = [ladder EXCEPT ![s][side][price] = @ + qty]

Reduce(s, side, qty, price) ==
  /\ qty <= ladder[s][side][price]
  /\ ladder' = [ladder EXCEPT ![s][side][price] = @ - qty]

\* Only the best level of a side trades.
Trade(s, side, qty, price) ==
  /\ Announce("trade", s, "N", qty, price)
  /\ Best(s, side, price)
  /\ Reduce(s, side, qty, price)

Cancel(s, side, qty, price) ==
  /\ Announce("cancel", s, "N", qty, price)
  /\ Reduce(s, side, qty, price)

Quiet ==
  /\ sent' = NoMsg
  /\ UNCHANGED <<ladder, nextTxn>>

Next ==
  \/ \E s \in Symbols, side \in Sides, qty \in Quantities, price \in Prices :
       \/ Submit(s, side, qty, price)
       \/ Trade(s, side, qty, price)
       \/ Cancel(s, side, qty, price)
  \/ Quiet

Spec == Init /\ [][Next]_ladderVars
=============================================================================
