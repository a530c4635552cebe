---------------------------- MODULE EngineAudit ----------------------------
(***************************************************************************)
(* The matching engine watched from outside.  History variables add up     *)
(* what the clients handed in, what the result lines told them and what    *)
(* the datagrams told the market; the engine reads none of them.  The      *)
(* totals must agree with each other and with the quantity left in the     *)
(* books after any number of requests and in the middle of any sweep.      *)
(***************************************************************************)
EXTENDS Engine

VARIABLES
  entered,    \* [id -> quantity of the accepted submits]
  reported,   \* [id -> quantity in the fill lines that name the id]
  withdrawn,  \* [id -> quantity in the cancel datagrams]
  tape        \* quantity in the trade datagrams

auditVars == <<entered, reported, withdrawn, tape>>

\* An order id is an int that a client writes.
ASSUME AuditAssumption == IsFiniteSet(OrderIds)

AuditInit ==
  /\ Init
  /\ entered = [id \in OrderIds |-> 0]
  /\ reported = [id \in OrderIds |-> 0]
  /\ withdrawn = [id \in OrderIds |-> 0]
  /\ tape = 0

Total(quantities) == FoldFunction(+, 0, quantities)

\* The records a step has emplaced: a new request starts an empty vector.
NewResults ==
  IF incoming = NoOrder THEN results'
  ELSE SubSeq(results', Len(results) + 1, Len(results'))

NewRecords(type, id) ==
  {k \in DOMAIN NewResults : NewResults[k].type = type /\ NewResults[k].id = id}

\* Each id adds what the step accepted, reported or cancelled under it.
Audit ==
  /\ entered' = [id \in OrderIds |-> entered[id] +
       IF incoming = NoOrder /\ incoming' # NoOrder /\ incoming'.id = id
       THEN incoming'.qty ELSE 0]
  /\ reported' = [id \in OrderIds |-> reported[id] +
       Total([k \in NewRecords("F", id) |-> NewResults[k].qty])]
  /\ withdrawn' = [id \in OrderIds |-> withdrawn[id] +
       IF NewRecords("X", id) # {} THEN sent'.qty ELSE 0]
  /\ tape' = tape + IF sent' # NoMsg /\ sent'.type = "trade" THEN sent'.qty ELSE 0

AuditNext == Next /\ Audit

AuditSpec == AuditInit /\ [][AuditNext]_<<vars, auditVars>>

-----------------------------------------------------------------------------
\* The places in the level lists of all books, and the order at each.
Places ==
  UNION {{s} \X {side} \X {p} \X DOMAIN LevelAt(book[s][side], p) :
           s \in Symbols, side \in Sides, p \in Prices}

OrderAt(place) == book[place[1]][place[2]][place[3]][place[4]]

\* What rests under this id, anywhere.
Resting(id) ==
  Total([place \in {at \in Places : OrderAt(at).id = id} |-> OrderAt(place).qty])

Remaining(id) ==
  Resting(id) + IF incoming # NoOrder /\ incoming.id = id THEN incoming.qty ELSE 0

\* Nothing is lost and nothing is invented: what was accepted under an id has
\* been reported as filled, was announced as cancelled, or is still there.
\* The accounts of fill, remove_order, add_order and cancel_cb_ must agree.
QuantityConserved ==
  \A id \in OrderIds :
    entered[id] = reported[id] + withdrawn[id] + Remaining(id)

\* The market sees every fill once: each trade datagram stands for one fill
\* line of the buyer and one of the seller.
TapeMatchesReports ==
  2 * tape = Total(reported)

\* A second submit under a known id is refused as "duplciate order id"
\* (engine.cpp:61-62), which completed_orders_ is kept for: no id is entered
\* twice, whatever happened to the first order.
EnteredOnce ==
  [][\A id \in OrderIds : entered'[id] > entered[id] => entered[id] = 0]_auditVars

\* The duplicates that do get in follow an exact fill: the first order has
\* been reported to the last unit and was never cancelled.
OnlyFilledIdsReturn ==
  [][\A id \in OrderIds : entered'[id] > entered[id] =>
       /\ entered[id] = reported[id]
       /\ withdrawn[id] = 0]_auditVars
=============================================================================
