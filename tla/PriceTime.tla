----------------------------- MODULE PriceTime -----------------------------
(***************************************************************************)
(* What the matching engine promises its clients: a submit trades, in one  *)
(* step, with the crossing orders of the other side taken strictly in the  *)
(* order of price and then of arrival, and only what is left of it joins   *)
(* the queue of its own price.  There is no best level, no iterator and no *)
(* loop here; how much of each order is taken is stated in closed form.    *)
(***************************************************************************)
EXTENDS Integers, Sequences, SequencesExt

CONSTANTS
  Orders,    \* the orders clients may submit: id, sym, side, qty, price
  Symbols,
  Prices,
  NoOrder

VARIABLES
  request,   \* the order the last request submitted or cancelled, or NoOrder
  queue,     \* [symbol -> [side -> [price -> resting orders, oldest first]]]
  fills      \* the fill lines the last request produced

priceTimeVars == <<request, queue, fills>>

Sides == {"B", "S"}
Opposite(side) == IF side = "B" THEN "S" ELSE "B"

\* Price p is better than q for an order resting on this side.
Better(side, p, q) == IF side = "B" THEN p > q ELSE p < q

\* A price the order may trade at: its limit is not better than it.
Acceptable(o, p) == ~Better(o.side, p, o.price)

Smaller(a, b) == IF a < b THEN a ELSE b

-----------------------------------------------------------------------------
(* Allocation.  q is the side an order meets; a place is a price and a      *)
(* position in the queue there.  Each acceptable place gets what the places *)
(* ahead of it have left over.                                              *)

Places(q) == UNION {{p} \X DOMAIN q[p] : p \in Prices}

OrderAt(q, at) == q[at[1]][at[2]]

\* Price first, then time.
Earlier(side, a, b) ==
  \/ Better(side, a[1], b[1])
  \/ a[1] = b[1] /\ a[2] < b[2]

Volume(q, places) == FoldFunction(+, 0, [at \in places |-> OrderAt(q, at).qty])

Eligible(o, q) == {at \in Places(q) : Acceptable(o, at[1])}

Ahead(o, q, at) ==
  Volume(q, {b \in Places(q) : Earlier(Opposite(o.side), b, at)})

Share(o, q, at) ==
  IF Acceptable(o, at[1]) /\ Ahead(o, q, at) < o.qty
  THEN Smaller(OrderAt(q, at).qty, o.qty - Ahead(o, q, at))
  ELSE 0

Unfilled(o, q) ==
  LET offered == Volume(q, Eligible(o, q))
  IN  IF offered >= o.qty THEN 0 ELSE o.qty - offered

\* The orders of price p that are taken completely.
Taken(o, q, p) == {i \in DOMAIN q[p] : Share(o, q, <<p, i>>) = q[p][i].qty}

\* What the order leaves of the side.
Remainder(o, q) ==
  [p \in Prices |->
     LET gone == Cardinality(Taken(o, q, p))
     IN  [i \in 1..(Len(q[p]) - gone) |->
            [q[p][i + gone] EXCEPT !.qty = @ - Share(o, q, <<p, i + gone>>)]]]

\* Places in their order, each with as many before it as are earlier.
InTurn(side, places) ==
  [n \in 1..Cardinality(places) |->
     CHOOSE at \in places :
       Cardinality({b \in places : Earlier(side, b, at)}) = n - 1]

FillLine(id, qty, price) == [type |-> "F", id |-> id, qty |-> qty, price |-> price]

\* Two lines for an order traded with, at the price it was resting at; the
\* line of the order that is done comes first.
Lines(o, q, at) ==
  LET resting == FillLine(OrderAt(q, at).id, Share(o, q, at), at[1])
      taking == FillLine(o.id, Share(o, q, at), at[1])
  IN  IF Share(o, q, at) = OrderAt(q, at).qty THEN <<resting, taking>>
      ELSE <<taking, resting>>

Traded(o, q) == {at \in Places(q) : Share(o, q, at) > 0}

Executions(o, q) ==
  LET turn == InTurn(Opposite(o.side), Traded(o, q))
  IN  FlattenSeq([n \in DOMAIN turn |-> Lines(o, q, turn[n])])

\* Behind every order of its price.
Join(o, q) == [q EXCEPT ![o.price] = Append(@, o)]

-----------------------------------------------------------------------------
Init ==
  /\ request = NoOrder
  /\ queue = [s \in Symbols |-> [side \in Sides |-> [p \in Prices |-> <<>>]]]
  /\ fills = <<>>

Live(id) ==
  \E s \in Symbols, side \in Sides : \E at \in Places(queue[s][side]) :
    OrderAt(queue[s][side], at).id = id

Submit(o) ==
  LET across == queue[o.sym][Opposite(o.side)]
      left == Unfilled(o, across)
  IN  /\ request' = o
      /\ ~Live(o.id)
      /\ fills' = Executions(o, across)
      /\ queue' = [queue EXCEPT
           ![o.sym][Opposite(o.side)] = Remainder(o, across),
           ![o.sym][o.side] = IF left = 0 THEN @ ELSE Join([o EXCEPT !.qty = left], @)]

Cancel(s, side, p, i) ==
  /\ request' = queue[s][side][p][i]
  /\ queue' = [queue EXCEPT ![s][side][p] = RemoveAt(@, i)]
  /\ fills' = <<>>

\* A request that was refused or that only reads.
NoTrade ==
  /\ request' = NoOrder
  /\ fills' = <<>>
  /\ UNCHANGED queue

Next ==
  \/ \E o \in Orders : Submit(o)
  \/ \E s \in Symbols, side \in Sides, p \in Prices :
       \E i \in DOMAIN queue[s][side][p] : Cancel(s, side, p, i)
  \/ NoTrade

Spec == Init /\ [][Next]_priceTimeVars
=============================================================================
