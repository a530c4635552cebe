----------------------------- MODULE LadderPage -----------------------------
(***************************************************************************)
(* What a user sees: a page (LadderView in web/index.html) that asks Md    *)
(* for the levels of one symbol and then follows what Md publishes about   *)
(* them (on_level_update, on_new_levels, levels_proc and recover in        *)
(* md.cpp).  Md's book is driven as in LevelFeed.                          *)
(*                                                                         *)
(* The WAMP router between them is external.  It is taken to keep the      *)
(* order of what Md sends it, and of what the page sends it; a topic       *)
(* reaches the page from the moment the router has taken its SUBSCRIBE.    *)
(* Prices are whole ticks, one row of the table each.                      *)
(*                                                                         *)
(* A definition named Bad... is the one that follows it with a plausible   *)
(* bug; no specification uses it.                                          *)
(***************************************************************************)
EXTENDS LevelFeed

CONSTANTS
  Ibm,          \* the symbol the page asks for, the only one of the feed
  RowsPerSide,  \* rows_per_side, 16 in the code
  ForeignPrices,  \* prices of the messages about other symbols
  MaxForeign,   \* bound on the messages about other symbols
  MaxLoads      \* bound on the times the page is loaded

ASSUME PageAssumption ==
  /\ Symbols = {Ibm}
  /\ Prices \subseteq Nat \ {0}
  /\ RowsPerSide \in Nat \ {0}
  /\ ForeignPrices \subseteq Prices
  /\ MaxForeign \in Nat /\ MaxLoads \in Nat

VARIABLES
  recovering,  \* Md::recovering_
  subscribed,  \* external: topics the router sends to the page
  fromPage,    \* SUBSCRIBEs and CALLs on their way from the page
  toPage,      \* events and answers on their way to the page
  page,        \* [phase, view], see below
  loads,       \* times the page was loaded
  foreigns,    \* messages about other symbols so far
  early,       \* history: levels_proc had nothing to say
  told         \* history: the last recover message had a subscriber

browser == <<page, loads, fromPage>>
pageVars == <<feedVars, recovering, subscribed, toPage, browser, foreigns, early, told>>

Topics == {"cancel", "submit", "trade", "snapshot", "recover"}

\* The order of the page's requests; `recover' follows with the view.
Requests == <<"cancel", "submit", "trade", "snapshot", "call">>

EmptyIndex == [p \in {} |-> 0]
Rows == 0..(2 * RowsPerSide - 1)
EmptyTable == [side \in Sides |-> [r \in Rows |-> 0]]

\* LadderView: buys and sells; max of the last render; the quantity cells of
\* the table (0 for an empty one), and the recovery flag of the document.
\* History: prices whose quantity was replaced, whether the last word was
\* about another symbol, and whether a price above the table was drawn.
EmptyView ==
  [index |-> [side \in Sides |-> EmptyIndex], max |-> 0, cells |-> EmptyTable,
   flag |-> FALSE, replaced |-> {}, alien |-> FALSE, smudged |-> FALSE]

-----------------------------------------------------------------------------
(* LadderView.                                                              *)

Set(index, price, qty) ==
  [p \in DOMAIN index \cup {price} |-> IF p = price THEN qty ELSE index[p]]

\* Levels without quantity are taken over as well.
BadListed(array) ==
  [p \in {array[i].price : i \in DOMAIN array} |->
     array[Max({i \in DOMAIN array : array[i].price = p})].qty]

\* initialize: levels without quantity are left out, of two at one price the
\* last is kept, and what the view held before is forgotten.
Listed(array) ==
  LET real == {i \in DOMAIN array : array[i].qty # 0}
  IN  [p \in {array[i].price : i \in real} |->
         array[Max({i \in real : array[i].price = p})].qty]

Initialized(v, arrays) ==
  [v EXCEPT !.index = [side \in Sides |-> Listed(arrays[side])], !.replaced = {}]

\* set_min_max
Top(index) ==
  IF DOMAIN index["S"] # {} THEN Min(DOMAIN index["S"]) + RowsPerSide - 1
  ELSE IF DOMAIN index["B"] # {} THEN Max(DOMAIN index["B"]) + RowsPerSide
  ELSE RowsPerSide

InTable(v, price) == v.max - 2 * RowsPerSide < price /\ price <= v.max

\* One row too far down.
BadEq(i) == IF i < 0 THEN i + 2 * RowsPerSide ELSE i + 1

\* eq() of jQuery counts a negative index from the end.
Eq(i) == IF i < 0 THEN i + 2 * RowsPerSide ELSE i

\* render: what is written into a row last stays, and that is the highest of
\* the prices that share it.
Drawn(index, max) ==
  [r \in Rows |->
     LET here == {p \in DOMAIN index : Eq(max - p) = r}
     IN  IF here = {} THEN 0 ELSE index[Max(here)]]

Render(v) ==
  LET max == Top(v.index)
  IN  [v EXCEPT !.max = max,
                !.cells = [side \in Sides |-> Drawn(v.index[side], max)],
                !.smudged = \E side \in Sides : \E p \in DOMAIN v.index[side] : p > max]

\* The quantity takes the place of the old one.
BadUpdateLvl(v, side, price, delta) ==
  [v EXCEPT !.index[side] = Set(@, price, delta),
            !.cells[side] = [r \in Rows |-> IF r = Eq(v.max - price) THEN delta ELSE @[r]],
            !.smudged = @ \/ price > v.max]

\* update_lvl: one level and its cell; a level of quantity 0 is deleted.
UpdateLvl(v, side, price, delta) ==
  LET qty == delta + IF price \in DOMAIN v.index[side] THEN v.index[side][price] ELSE 0
  IN  [v EXCEPT !.index[side] = IF qty # 0 THEN Set(@, price, qty)
                                ELSE [p \in DOMAIN @ \ {price} |-> @[p]],
                !.cells[side] = [r \in Rows |-> IF r = Eq(v.max - price) THEN qty ELSE @[r]],
                !.smudged = @ \/ price > v.max]

\* rem_qty: trades and cancels name no side; the sells are tried first.
RemQty(v, m) ==
  IF m.price \in DOMAIN v.index["S"] THEN UpdateLvl(v, "S", m.price, -m.qty)
  ELSE IF m.price \in DOMAIN v.index["B"] THEN UpdateLvl(v, "B", m.price, -m.qty)
  ELSE v

\* submit: out of the table the quantity is set, not added.
OnSubmit(v, m) ==
  IF InTable(v, m.price) THEN UpdateLvl(v, m.side, m.price, m.qty)
  ELSE Render([v EXCEPT !.index[m.side] = Set(@, m.price, m.qty),
                        !.replaced = IF m.price \in DOMAIN v.index[m.side]
                                     THEN @ \cup {<<m.side, m.price>>} ELSE @])

\* The flag is left on.
BadUnflag(v) == v

Unflag(v) == [v EXCEPT !.flag = FALSE]

\* The handlers do not look at the symbol of a message.
Handled(v, m) ==
  CASE m.type = "recover" -> [v EXCEPT !.flag = TRUE]
    [] m.type = "snapshot" ->
         [Render(Initialized(Unflag(v), m.levels)) EXCEPT !.alien = ~m.own]
    [] m.type = "submit" -> [OnSubmit(v, m) EXCEPT !.alien = @ \/ ~m.own]
    [] m.type \in {"trade", "cancel"} -> [RemQty(v, m) EXCEPT !.alien = @ \/ ~m.own]

\* One message reaches the page.  Until the view exists events go to a backlog
\* that nobody reads, and an empty answer makes its constructor throw.
After(pg, m) ==
  CASE m.type = "result" ->
         [phase |-> "up", view |-> Render(Initialized(EmptyView, m.levels))]
    [] m.type = "empty" -> [pg EXCEPT !.phase = "blank"]
    [] m.type \in Topics ->
         IF pg.phase = "up" THEN [pg EXCEPT !.view = Handled(@, m)] ELSE pg

-----------------------------------------------------------------------------
(* Md.                                                                      *)

Publish(m) ==
  toPage' = IF m.type \in subscribed THEN Append(toPage, m) ELSE toPage

Snapshotted(own, arrays) == [type |-> "snapshot", own |-> own, levels |-> arrays]

Updated(own, type, side, price, qty) ==
  [type |-> type, own |-> own, side |-> side, price |-> price, qty |-> qty]

\* on_level_update and on_new_levels, as the level book calls them.
PublishChange(event) ==
  CASE event = "none" -> UNCHANGED toPage
    [] event = "levels" -> Publish(Snapshotted(TRUE, books'[Ibm].array))
    [] event \in {"submit", "trade", "cancel"} ->
         Publish(Updated(TRUE, event, sent'.side, sent'.price, sent'.qty))

\* A datagram is applied, and the change published.
MdApplies ==
  /\ ~recovering
  /\ Deliver(Ibm)
  /\ PublishChange(books'[Ibm].event)
  /\ UNCHANGED <<recovering, subscribed, browser, foreigns, early, told>>

\* A datagram is lost, or deferred.
MdMisses ==
  /\ Miss(Ibm)
  /\ UNCHANGED <<recovering, subscribed, toPage, browser, foreigns, early, told>>

\* recover: the datagram after a lost one.
MdRecovers ==
  /\ ~recovering
  /\ Ibm \in behind
  /\ Miss(Ibm)
  /\ recovering' = TRUE
  /\ Publish([type |-> "recover"])
  /\ told' = ("recover" \in subscribed)
  /\ UNCHANGED <<subscribed, browser, foreigns, early>>

\* on_snapshot: what the level book calls back meanwhile is withheld.
MdRecovered ==
  /\ recovering
  /\ Resync(Ibm)
  /\ recovering' = FALSE
  /\ Publish(Snapshotted(TRUE, books'[Ibm].array))
  /\ UNCHANGED <<subscribed, browser, foreigns, early, told>>

\* Md publishes what happens to the book of another symbol.
Foreign(m) ==
  /\ ~recovering
  /\ foreigns < MaxForeign
  /\ foreigns' = foreigns + 1
  /\ Publish(m)
  /\ UNCHANGED <<feedVars, recovering, subscribed, browser, early, told>>

ForeignMessages ==
  UNION {{Updated(FALSE, "submit", "S", p, 1), Updated(FALSE, "trade", "N", p, 1),
          Snapshotted(FALSE, [LB!EmptyArray EXCEPT !["B"][1] = [qty |-> 1, price |-> p]])} :
           p \in ForeignPrices}

\* get_book has made the book of the symbol.
HasBook == books[Ibm].id > LB!NewBook.id

\* A book without levels is taken for none.
BadLevelsProc ==
  Append(toPage, IF recovering \/ books[Ibm].array = LB!EmptyArray THEN [type |-> "empty"]
                 ELSE [type |-> "result", levels |-> books[Ibm].array])

\* levels_proc
LevelsProc ==
  Append(toPage, IF recovering \/ ~HasBook THEN [type |-> "empty"]
                 ELSE [type |-> "result", levels |-> books[Ibm].array])

\* The router takes the next request of the page; a CALL goes on to Md.
Routed ==
  /\ fromPage # <<>>
  /\ fromPage' = Tail(fromPage)
  /\ \/ /\ Head(fromPage) \in Topics
        /\ subscribed' = subscribed \cup {Head(fromPage)}
        /\ UNCHANGED <<toPage, early>>
     \/ /\ Head(fromPage) = "call"
        /\ toPage' = LevelsProc
        /\ early' = (recovering \/ ~HasBook)
        /\ UNCHANGED subscribed
  /\ UNCHANGED <<feedVars, recovering, page, loads, foreigns, told>>

-----------------------------------------------------------------------------
(* The page.                                                                *)

\* The page is loaded, or loaded again: the old session is gone with all its
\* subscriptions and with everything that was under way.
Load ==
  /\ loads < MaxLoads
  /\ loads' = loads + 1
  /\ page' = [phase |-> "loading", view |-> EmptyView]
  /\ fromPage' = Requests
  /\ toPage' = <<>>
  /\ subscribed' = {}
  /\ early' = FALSE
  /\ UNCHANGED <<feedVars, recovering, foreigns, told>>

PageReceives ==
  /\ toPage # <<>>
  /\ toPage' = Tail(toPage)
  /\ page' = After(page, Head(toPage))
  /\ fromPage' = IF page.phase = "loading" /\ page'.phase = "up"
                 THEN Append(fromPage, "recover") ELSE fromPage
  /\ UNCHANGED <<feedVars, recovering, subscribed, loads, foreigns, early, told>>

-----------------------------------------------------------------------------
PageInit ==
  /\ FeedInit
  /\ recovering = FALSE
  /\ subscribed = {} /\ fromPage = <<>> /\ toPage = <<>>
  /\ page = [phase |-> "closed", view |-> EmptyView]
  /\ loads = 0 /\ foreigns = 0
  /\ early = FALSE /\ told = FALSE

PageNext ==
  \/ MdApplies \/ MdMisses \/ MdRecovers \/ MdRecovered
  \/ \E m \in ForeignMessages : Foreign(m)
  \/ Routed \/ Load \/ PageReceives

\* The router and Md answer, and the browser handles what arrives.
PageSpec ==
  PageInit /\ [][PageNext]_pageVars /\ WF_pageVars(Routed) /\ WF_pageVars(PageReceives)

-----------------------------------------------------------------------------
\* The page once it has received everything that is under way.
Drained == FoldLeft(After, page, toPage)

Kept(index, p) == IF p \in DOMAIN index THEN index[p] ELSE 0

\* What Md and the page hold and send each other: the page keeps no level of
\* quantity 0 (update_lvl deletes it, initialize skips it) and none at the
\* price of an empty one, though perhaps the junk of a book whose recovery
\* failed.
TypeOK ==
  /\ recovering \in BOOLEAN /\ (recovering => Ibm \in behind)
  /\ subscribed \subseteq Topics
  /\ \A i \in DOMAIN fromPage : fromPage[i] \in Topics \cup {"call"}
  /\ \A i \in DOMAIN toPage : toPage[i].type \in subscribed \cup {"result", "empty"}
  /\ page.phase \in {"closed", "loading", "up", "blank"}
  /\ \A side \in Sides :
       /\ DOMAIN page.view.index[side] \subseteq Prices \cup {junk.price : junk \in LB!Junk}
       /\ \A p \in DOMAIN page.view.index[side] : page.view.index[side][p] # 0
       /\ DOMAIN page.view.cells[side] = Rows

\* Whatever of the answer, the updates and the new levels is still under way:
\* with it the page holds Md's visible levels, ghosts or not, although it never
\* looks at an id and drops its backlog.  Not so for prices that were replaced,
\* and until the next new levels after a message about another symbol.  (Only
\* where Md takes more than a level has, its quantity wraps and the page's does
\* not: in a book that took a datagram for the wrong side, or whose snapshot was
\* not the exchange's book.)
PageFollowsMd ==
  LET v == Drained.view
  IN  Drained.phase = "up" /\ ~v.alien /\ Ibm \notin misrouted \cup stale =>
        \A side \in Sides, p \in Prices : <<side, p>> \notin v.replaced =>
          Kept(v.index[side], p) = Kept(Listed(books[Ibm].array[side]), p)

\* The table that is patched cell by cell shows each level in the row of its
\* price and nothing else, as long as no price above its top was drawn: the
\* negative index of such a price is counted from the last row.
TableShowsLevels ==
  page.phase = "up" /\ ~page.view.smudged =>
    \A side \in Sides, r \in Rows :
      page.view.cells[side][r] = Kept(page.view.index[side], page.view.max - r)

\* "recovering..." is taken back by the new levels of every recovery, and is
\* not missing during one whose beginning the page was subscribed to.
FlagTellsRecovery ==
  Drained.phase = "up" => /\ Drained.view.flag => recovering
                          /\ recovering /\ told => Drained.view.flag

\* A page that is loading comes up, unless its one call was answered while Md
\* recovered or before the book was made.
ComesUpUnlessEarly == page.phase = "loading" ~> page.phase = "up" \/ early
=============================================================================
