----------------------------- MODULE LevelFeed -----------------------------
(***************************************************************************)
(* What a subscriber's LevelBook shows: Md (md.cpp) applies every datagram *)
(* it hears to the book of its symbol and, when it has missed one, waits   *)
(* for a snapshot of that book from bmatch (handle_snap_request in         *)
(* basic_match.cpp) and starts over.  The feed is any behaviour of Ladder, *)
(* which the engine implements.                                            *)
(*                                                                         *)
(* Here a snapshot is answered and read in one step, after everything the  *)
(* feed had sent; which datagrams are applied around a snapshot that is    *)
(* under way is MdFeed's business.                                         *)
(***************************************************************************)
EXTENDS Ladder, SequencesExt

CONSTANTS
  Depth, Infinity, WordMod,   \* see LevelBook
  SnapLevels, \* levels of a side Md asks for: 16 in the code
  MaxTxn,     \* bound on the datagrams of one symbol
  MaxSnaps    \* bound on the snapshots

VARIABLES
  books,      \* Md::books_
  behind,     \* symbols that missed a datagram and have no snapshot yet
  snaps,      \* snapshots read so far
  misrouted,  \* history: books that took a datagram for the wrong side
  stale       \* history: books their last snapshot did not make like the
              \* exchange's, see Replaces

feedVars == <<ladderVars, books, behind, snaps, misrouted, stale>>

LB == INSTANCE LevelBook

ASSUME LevelFeedAssumption ==
  /\ LB!LevelBookParameters
  /\ Quantities \subseteq Nat \ {0}
  /\ SnapLevels \in Nat \ {0} /\ MaxTxn \in Nat /\ MaxSnaps \in Nat

FeedInit ==
  /\ Init
  /\ books = [s \in Symbols |-> LB!NewBook]
  /\ behind = {}
  /\ snaps = 0
  /\ misrouted = {}
  /\ stale = {}

Announced(s) ==
  \E side \in Sides, qty \in Quantities, price \in Prices :
    \/ Submit(s, side, qty, price)
    \/ Trade(s, side, qty, price)
    \/ Cancel(s, side, qty, price)

\* The side whose total the datagram changed at the exchange.
TrueSide(s) ==
  CHOOSE side \in Sides : ladder'[s][side] # ladder[s][side]

SideTaken(b, msg) ==
  CASE msg.type = "submit" -> msg.side
    [] msg.type = "trade" -> LB!TradeSide(b, msg.price)
    [] msg.type = "cancel" -> LB!CancelSide(b, msg.price)

\* The last branch of on_submit, on_trade and on_cancel.
Deliver(s) ==
  /\ nextTxn[s] <= MaxTxn
  /\ Announced(s)
  /\ s \notin behind
  /\ \E junk \in LB!Junk :
       books' = [books EXCEPT ![s] = LB!Apply(@, sent', junk)]
  /\ misrouted' = IF SideTaken(books[s], sent') = TrueSide(s) THEN misrouted
                  ELSE misrouted \cup {s}
  /\ UNCHANGED <<behind, snaps, stale>>

\* The datagram is lost, or deferred until a snapshot that already covers it.
Miss(s) ==
  /\ nextTxn[s] <= MaxTxn
  /\ snaps < MaxSnaps
  /\ Announced(s)
  /\ behind' = behind \cup {s}
  /\ UNCHANGED <<books, snaps, misrouted, stale>>

-----------------------------------------------------------------------------
\* The levels that are really there, best first: each with as many before it
\* as are better.
Ranked(s, side) ==
  LET levels == Levels(s, side)
  IN  [i \in 1..Cardinality(levels) |->
         CHOOSE p \in levels :
           Cardinality({q \in levels : Better(side, q, p)}) = i - 1]

\* One side of a snapshot: from the worst level on, as many as were asked for.
SnapSide(s, side) ==
  LET levels == Reverse(Ranked(s, side))
  IN  [i \in DOMAIN levels \cap 1..SnapLevels |->
         [side |-> side, qty |-> ladder[s][side][levels[i]], price |-> levels[i]]]

Snapshot(s) == SnapSide(s, "S") \o SnapSide(s, "B")

\* The constructor of SnapResponse leaves levels_ as it finds it, and only
\* add_level marks the end: of an empty book anything may be sent, up to 32
\* levels of it.  Bounded here to none or one level of quantity 1: a single
\* level nobody sent already makes the book stale, and no more is asked of it.
Uninitialised ==
  {<<>>} \cup {<<[side |-> side, qty |-> 1, price |-> p]>> :
                side \in Sides, p \in Prices}

SnapResponses(s) == IF Snapshot(s) = <<>> THEN Uninitialised ELSE {Snapshot(s)}

\* The snapshot is complete, and clear() has nothing but the sentinels to keep.
Replaces(s, levels) ==
  /\ levels = Snapshot(s)
  /\ \A side \in Sides :
       /\ Len(Ranked(s, side)) <= SnapLevels
       /\ DOMAIN books[s].outer[side] # {}
       /\ LB!Begin(books[s].outer[side], side) = LB!Worst(side)

\* handle_snap_request and on_snapshot.
Resync(s) ==
  /\ s \in behind
  /\ Quiet
  /\ behind' = behind \ {s}
  /\ snaps' = snaps + 1
  /\ \E levels \in SnapResponses(s) :
       /\ books' = [books EXCEPT ![s] = LB!Rebuild(@, levels)]
       /\ \/ /\ Replaces(s, levels)
             /\ misrouted' = misrouted \ {s} /\ stale' = stale \ {s}
          \/ /\ ~Replaces(s, levels)
             /\ misrouted' = misrouted /\ stale' = stale \cup {s}

FeedNext == \E s \in Symbols : Deliver(s) \/ Miss(s) \/ Resync(s)

FeedSpec == FeedInit /\ [][FeedNext]_feedVars

-----------------------------------------------------------------------------
Shown(s, side, i) ==
  LET ranked == Ranked(s, side)
  IN  IF i \in DOMAIN ranked
      THEN [qty |-> ladder[s][side][ranked[i]], price |-> ranked[i]]
      ELSE LB!EmptyLevel(side)

ShowsBest(s, side) ==
  books[s].array[side] = [i \in 1..Depth |-> Shown(s, side, i)]

HoldsRest(s, side) ==
  LET outer == books[s].outer[side]
      ranked == Ranked(s, side)
  IN  outer = [p \in {LB!Worst(side)} \cup {ranked[i] : i \in (Depth + 1)..Len(ranked)}
                 |-> IF p = LB!Worst(side) THEN 0 ELSE ladder[s][side][p]]

\* Books that have followed the feed, or a snapshot and the feed from there.
Followed == Symbols \ (behind \cup misrouted \cup stale)

\* No level of quantity 0 is kept at a real price.
NoGhost(b) ==
  \A side \in Sides :
    /\ \A p \in DOMAIN b.outer[side] : p # LB!Worst(side) => b.outer[side][p] > 0
    /\ \A i \in 1..Depth :
         b.array[side][i].price # LB!Worst(side) => b.array[side][i].qty > 0

\* What a book has at a price, in all its visible levels of it and in the map.
Quantity(b, side, p) ==
  LET visible == {i \in 1..Depth : b.array[side][i].price = p}
      kept == IF p \in DOMAIN b.outer[side] THEN b.outer[side][p] ELSE 0
  IN  kept + FoldFunction(+, 0, [i \in visible |-> b.array[side][i].qty])

\* Without ghosts the array shows exactly the best levels of the exchange and
\* the map holds the rest, however the levels moved in and out of the array,
\* and also after a recovery (on_snapshot) that found the map empty.
FaithfulUnlessGhost ==
  \A s \in Followed : NoGhost(books[s]) =>
    \A side \in Sides : ShowsBest(s, side) /\ HoldsRest(s, side)

\* Even with ghosts in the way no quantity is lost or counted twice between
\* array and map (add_buy ... remove_sell), until a datagram is taken for the
\* wrong side.
NothingLostUnlessMisrouted ==
  \A s \in Followed, side \in Sides, p \in Prices :
    Quantity(books[s], side, p) = ladder[s][side][p]

\* The one way a ghost appears: a trade or cancel that uses up a level kept in
\* the map, whose entry remove_buy or remove_sell does not erase.
GhostsComeFromOuterLevels ==
  [][\A s \in Followed : NoGhost(books[s]) /\ ~NoGhost(books'[s]) =>
       \E side \in Sides, p \in Prices :
         /\ p \in DOMAIN books[s].outer[side]
         /\ books[s].outer[side][p] = sent'.qty
         /\ books'[s].outer[side][p] = 0]_feedVars

\* Trades and cancels name no side.  Deriving it from the best sell is right
\* unless the best sell shown is a ghost, promoted after the last real one.
MisroutedOnlyByGhost ==
  [][\A s \in Followed \cap misrouted' :
       /\ LB!BestSell(books[s]) \in Prices
       /\ books[s].array["S"][1].qty = 0]_feedVars

\* Md sends book_id_ with every change it publishes (md.cpp:214-230), so it must
\* count them: it moves by one with every change of the visible levels and never
\* without one, ghosts or not, while the levels are the feed's own (a level a
\* wrong side wrapped around, or one kept from an older book, can be exchanged
\* for one just like it); and a snapshot never takes it back.
BookIdCountsChanges ==
  [][\A s \in Symbols :
       IF s \in behind THEN books'[s].id >= books[s].id
       ELSE s \notin misrouted \cup stale => books'[s].id - books[s].id =
              IF books'[s].array = books[s].array THEN 0 ELSE 1]_feedVars

\* A book that has followed the feed shows each of the best levels, wherever in
\* its array; slots of quantity 0 between them do not matter (README.md:4, a
\* "level based market data feed handler").
ShowsBestLevels ==
  \A s \in Followed, side \in Sides :
    \A i \in DOMAIN Ranked(s, side) \cap 1..Depth :
      \E slot \in 1..Depth : books[s].array[side][slot] = Shown(s, side, i)
=============================================================================
