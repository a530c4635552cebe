# Specifications of basicmatch

TLA+ modules, model-checking runs and machine-checked proofs for the order
matching engine `bmatch`, its market-data handler `md` and the libraries they
stand on. Everything is translated from the source; line numbers refer to it.
`PROJECT.json` maps each definition to the lines it models and lists the runs,
the hazards they are aimed at, the findings and the theorems.

## The system

`bmatch` (basic_match.cpp) reads orders from TCP clients (cl.cpp), matches them
and sends one multicast datagram per transaction. `md` (md.cpp) rebuilds the
levels of each book from the datagrams, asks `bmatch` for a snapshot over TCP
when it has missed one, and publishes the levels through a WAMP router to web
pages (web/index.html); py/wsproxy.py turns md's TCP connection into the
websocket the router expects. Each process is single threaded around an event
loop (st_socket.cpp): a callback runs to its end before the next event.
Concurrency is between the processes, in the datagrams and streams between
them, and between the messages of a peer and the calls of a user.

| component | state | operations | hard because |
|---|---|---|---|
| matching engine (engine, book, types) | level maps per side, `orders_` (iterators), `completed_orders_`, `txn_id_` per book | submit, cancel, print | one request is many fills; three structures hold the same order; 16-bit quantities |
| parsing and formatting (serializer) | none | deserialize, serialize | narrowing of numbers |
| bmatch driver (basic_match, msg) | client table | take requests, send datagrams, answer snapshot requests | snapshots are labelled, truncated, possibly uninitialised |
| level book (level_book) | array of 4 levels per side, outer maps with sentinels, `book_id_` | submit, trade, cancel, clear | levels wander between array and map; the side of trades and cancels is guessed |
| md: recovery (md) | `txn_id_`, `recovering_`, deferred datagrams, books | on_submit/on_trade/on_cancel, recover, on_snapshot | UDP loss, reordering, duplication; a snapshot races the feed |
| md: publisher (md) | none of its own | on_level_update, on_new_levels, levels_proc | what is withheld while recovering |
| WAMP session (ls_autobahn) | tables of pending and acknowledged requests, send buffer, `leaving_` | subscribe, call, publish, provide, leave, stop; all messages of the router | answers in any order of success and error; leave crosses messages; endpoints that throw |
| sockets (st_socket) | receive buffer, kqueue registrations | receive, close, connect, listen | streams are cut anywhere; EOF races data |
| websocket proxy (wsproxy) | queue, two connections | forward, close | data before the websocket is open; either side may go first |
| ladder page (index.html) | levels by price, table, flag | initial call, five events | events before the first answer; a table patched cell by cell |
| command-line client (cl) | none | send a line | - |

What makes each correct:
- engine: price-time priority; books never crossed; the order index valid;
  quantity conserved; each id entered once; the feed describes every change;
- level book: it shows the best levels of the exchange;
- recovery: every transaction applied exactly once; recoveries end; none
  without a loss;
- session: each answer reaches its own callback; nothing corrupts the stream of
  messages; leave ends the session;
- sockets: whole messages, all of them, in step with the stream;
- publisher and page: the page holds the levels md shows, draws each in its row,
  and tells a recovery from none;
- proxy: a pipe in each direction that ends on both sides.

## Modules

| module | models | composed with |
|---|---|---|
| `Engine` | the engine with its request path; one action per request, and one per iteration of the matching loop | |
| `EngineAudit` | history variables over `Engine`: what was entered, reported, withdrawn, printed on the tape | extends `Engine` |
| `PriceTime` | abstract: one-step allocation in price-time order | |
| `Ladder` | abstract: the feed, a table of quantities by price | |
| `EngineImplements` | the two refinement mappings | extends `Engine`, instantiates both |
| `SequenceLemmas` | lemmas: one element more or less in a sequence, flattening, sums, finite sets in their order | |
| `EngineProofs` | the inductive invariant of the engine; the accounts of the audit agree; the engine implements the feed and price-time priority | extends `EngineAudit`, `EngineImplements` |
| `LevelBook` | operators: every method of `LevelBook<t>` on a book record | |
| `LevelFeed` | a subscriber's books driven by any behaviour of `Ladder`, with misses and snapshots | extends `Ladder`, instantiates `LevelBook` |
| `LevelFeedProofs` | what a book keeps of the exchange's levels | extends `LevelFeed` |
| `MdFeed` | gap detection, deferral and recovery over a faulty network | |
| `MdFeedProofs` | what recovery misses and counts twice | extends `MdFeed` |
| `WampSession` | the session, its user and an external router | |
| `WampProofs` | the safety of the session | extends `WampSession` |
| `SocketStream` | kqueue, recv_cb and the decoding callbacks on one TCP stream | |
| `StreamProofs` | whole messages and room to receive them | extends `SocketStream` |
| `LadderPage` | md's publisher and the page, with an external WAMP router between them | extends `LevelFeed` |
| `LadderPageProofs` | the page follows md | extends `LadderPage`, `LevelFeedProofs` |
| `Pipe` | abstract: one direction of a forwarded connection | |
| `WsProxy` | one connection of the proxy between md's TCP stream and a websocket | instantiates `Pipe` twice |
| `WsProxyProofs` | order across the proxy; each direction takes the steps of a pipe | extends `WsProxy` |
| `MC...` | instances for TLC | |

So the chain is: `Engine` implements `Ladder`; `LevelFeed` consumes `Ladder`;
`MdFeed` says which datagrams and snapshots get that far; `LadderPage` consumes
what `LevelFeed`'s book calls back. `WampSession`, `SocketStream` and `WsProxy`
are the layers that carry it.

State and actions correspond to the code as follows.

- `Engine`: `book[s][side]` is `Book::buys_`/`sells_`, a function whose keys are
  the levels the map has, each a queue of orders. `orders` is `orders_`: the
  level an iterator points into (the id tells the node). `incoming` is the
  parameter of `handle_submit`; it is `NoOrder` between requests.
  `FillResting`, `FillIncoming` and `RestIncoming` are the three ways an
  iteration can go; `results` and `sent` are the result lines of the request
  and the datagram of the step. Quantities are `text % QtyMod`.
- `PriceTime`: a book is a queue for each side and price. A *place* is a price and
  a position in its queue; a taker's share of the order at a place is what the
  places earlier in price and time have left of its quantity (`Ahead`, `Share`).
  From the shares follow what remains of the side (`Remainder`), the fill lines
  (`Executions`) and what comes to rest (`Unfilled`, `Join`). `EngineImplements`
  maps the engine to it between two requests by the queues of its books. While
  the loop of `match` runs, the abstract state already is the outcome: the
  allocation of what is left of the incoming order on the books as they are
  (`SettledQueue`), and the lines sent with those still to come (`SettledFills`).
- `LevelBook`: a book is a record of `array`, `outer`, `id` and `event` (which
  callback was made). Quantities wrap at `WordMod`. What is read from an empty
  outer map is any value of `Junk`.
- `LevelFeed`: a datagram is either applied (`Deliver`) or missed (`Miss`), and
  then a snapshot replaces the book (`Resync`), worst levels first and at most
  `SnapLevels` a side, as `handle_snap_request` sends them. The snapshot of an
  empty book is arbitrary, because its levels are never initialised: none or
  one level of quantity 1 here, of 32 that may hold anything (msg.h:174).
- `MdFeed`: a book is known by the transactions it reflects and how often.
  `Faults` says what the network may do. A connection for a snapshot waits in the
  backlog (`request`) until `Accept` gives it a client, of which there are
  `MaxClients`, for orders and snapshots together: clients are never removed and
  keep their descriptors.
- `WampSession`: a frame of `toRouter` is a message with the YIELDs that were
  begun before it and never finished (`half`, the leftovers in `buf_`). Handlers
  and endpoints are known by the request that registered them. `crashed` is an
  exception no caller catches. The callbacks for WELCOME, EVENT and RESULT are the
  last thing their handlers do, so what they call is a step of the user that
  follows; the end callback is followed by `clear`, and is taken to call
  nothing, as md's `on_goodbye` (md.cpp:295) does.
- `LadderPage`: `page.view` is `window.app`: `index` is `buys` and `sells`,
  `cells` the quantities in the table. `toPage` and `fromPage` are the two
  directions of the page's session. `replaced`, `alien`, `smudged`, `early` and
  `told` only record that something happened. A view is drawn with a render or
  with one cell, as the code does; `Eq` is jQuery's, which counts negative
  indices from the end.
- `WsProxy`: `tcp` and `ws` are the states of Twisted's two transports, `wsproxy`
  and `dataQueue` those of `Fwd`. Units stand for bytes: two make a frame of md.
- `SocketStream`: counts bytes. `bytes` is `user_bytes`; a WAMP frame consumes
  more of it than its check asked for. `messages[k]` is where the k-th message
  of the peer ends, so that the sizes are differences and no sum is taken.

A definition called `Bad...` is the one below it with a plausible bug. No
specification uses it; it documents which property finds that bug.

## Runs

| run | question | result |
|---|---|---|
| `engine` | do book, index, completed ids and incoming order agree at every step of every sweep? is quantity conserved between submits, reports, cancels and the tape? does the loop implement one-step price-time allocation, and the datagrams the feed? | holds |
| `duplicate` | is a known id always refused, as engine.cpp:62 has it? | **no**: an order filled exactly on arrival is forgotten |
| `levelfeed` | what does a subscriber's book show, and how can it go wrong? | holds, apart from ghosts |
| `levels` | does a subscriber that missed nothing show each of the best levels? | **no**: a ghost takes the slot of one |
| `mdfeed` | datagrams lost, reordered and duplicated, connections refused and broken: applied once (and once more per copy), one transaction at risk, a recovery ends unless its connection was cut or never accepted | holds |
| `two_symbols` | is a recovery only started after a loss? | **no**: one `txn_id_` for all symbols |
| `wamp` | callbacks, crossing leaves, abandoned YIELDs | holds |
| `wamp_leave` | is the INVOCATION the session throws at really bogus? | **no**: REGISTERED was ignored |
| `stream` | orders and snapshots over a TCP stream cut anywhere | holds |
| `wamp_framing` | is a WAMP frame handled only when it is complete? | **no**: the header is not counted |
| `page` | does a page, loaded at any time, follow md's levels, draw them in their rows, tell a recovery, and come up? | holds, with the exceptions below |
| `proxy` | is each direction of a proxied connection a pipe, and do both sides end together? | holds, with the exceptions below |

Terms: a *ghost* is a level of quantity 0 at a real price, left in the outer map
by `remove_buy`/`remove_sell` (level_book.h:137, 203); a book is *misrouted*
once a datagram was taken for the wrong side, and *stale* when its last snapshot
did not make it like the exchange's (truncated, uninitialised, or `clear` kept a
real level). `levelfeed` shows the rest is right: without ghosts the array and
the map are exactly the exchange's levels; ghosts come only from outer levels;
only ghosts cause misrouting; no quantity is lost before that; and `book_id_`,
which goes out with every change though no page looks at it, counts them. A book that is misrouted or stale is excepted from the last
one: a level whose quantity a wrong side has wrapped around can be replaced by
one from the map that looks just like it, and the id moves although nothing
changes.

What `levels` shows: a ghost alone hides nothing, it stands where an empty slot
would, and `md` publishes both as quantity 0 at price 0 (md.cpp:247-248). So
`ShowsBestLevels` ignores such slots and asks for each of the best levels to be
somewhere in the array. Six datagrams are enough to break it: sells at 1, 2 and 3
come, the one at 3 is cancelled, the one at 1 traded, and a sell comes at 4. The
ghost at 3 has the second slot, and the sell at 4, the second best, goes behind
the array.

`OnlySnapshotIdMissed` deserves a word: a snapshot carries the *next*
transaction id, `md` takes it for one it has, and a datagram with that id that
arrives during the recovery is dropped. The run shows it is the only one.

What `page` shows: the page ignores every id and its backlog, and yet follows md
from the answer to its call on, because answer and events come in the order md
sent them; the exceptions in the properties are what the code gets wrong. A
submit outside the rows shown replaces its quantity (`replaced`, index.html:102);
an event about another symbol is applied all the same (`alien`); a price above
the table is drawn at its bottom (`smudged`); a page that calls too early gets
no levels and stays blank (`early`). All of them happen in the run. Books that are
misrouted or stale are excepted too: there md's quantities wrap below zero and
the page's do not. They are
exceptions rather than findings because nothing in the repository promises
otherwise.

What `proxy` shows: whatever md sends before the websocket is open comes first
and once, and what either side sent right before it closed still arrives. The
pipe to the router breaks when TCP cuts a frame (`split`: one chunk is one
message); md that has gone before the websocket opens leaves an open session
behind (`orphan`), and a router that cannot be connected leaves md waiting.

Some hazards of `PROJECT.json` have no property. Those are real failures of the
code in cases about which the repository promises nothing: the properties except
them by name (`stale`, `cut`, `replaced`, `alien`, `smudged`, `early`, `orphan`,
`split` and the like), show that everything else is right, and would not report
them.

### Bounds

- `engine`: two symbols, three ids, two prices, quantity texts 0..4 modulo 3 (so
  narrowing to 0 and to a smaller number both happen), 3 transaction ids a book
  before requests stop; a sweep that has begun goes on. Three orders are the
  least that make a sweep over two levels or a queue of two, with a remainder or
  a cancel after it. Ids and symbols are symmetric. The run observes `Engine`
  with the history of `EngineAudit` and both refinements at once.
- `duplicate`: one symbol, and four transaction ids.
- `levelfeed`, `levels`: `Depth` 2 of 4 prices, so that two levels wait behind
  the array; eight datagrams, the fewest with which a ghost is promoted past the
  last real sell and misroutes one; snapshots of at most three levels, so that
  truncation happens.
- `mdfeed`: six datagrams, enough for a gap, a deferral on both sides of the
  snapshot, and a second gap (a third with reordering); one duplicate; two
  clients, so that a first, second or third recovery may find no descriptor.
- `wamp`: one topic, two procedures of different endpoint types, three requests,
  two messages the router sends on its own: enough for an error between two
  successes, and two abandoned YIELDs in one frame.
- `stream`: messages of 3 and 5 bytes and a buffer of 5: one message fills the
  buffer exactly. `wamp_framing`: two frames.
- `page`: three datagrams at prices 1, 2 and 4, arrays of two levels and a table
  of four rows: a level is pushed out of the array, a sell lies above the table
  and a buy below it; one loss with its recovery; one event about another symbol;
  the page is loaded twice.
- `proxy`: three frames of two units and three messages of the router: a frame in
  the queue, one under way and one after the close.

Deadlock is checked where the system cannot stop (`engine`: a request can
always be refused). The others stop at their bounds.

### Fairness

- `MdFeed`: `bmatch` answers a request it has read, `md` handles datagrams and
  snapshots that have arrived: both run event loops that return to the kqueue
  after every callback. Nothing is assumed of the network; `RecoveryEnds` excepts
  a recovery whose connection was refused or broken (`cut`), for which the code
  has no second try, and one that bmatch has no descriptor to accept.
- `WampSession`: the session reads, and the router reads and answers. The user
  and the router's own messages are not fair.
- `SocketStream`: sent bytes arrive (TCP), and the event loop goes on. Kqueue is
  level triggered, so data left unread is reported again.

- `LadderPage`: the router and md answer and the browser handles what arrives;
  the feed, the recovery and the user who loads the page are not fair.
- `WsProxy`: the reactor calls back what has happened and the peers read what has
  arrived; a websocket that is being opened opens, unless it is refused or fails.
  Nobody has to send or to close.

The termination of the engine's handler needs no fairness: `HandlerProgress` is
a safety property that gives a variant of the loop.

## Proofs

Every theorem is checked by TLAPS for all values of the constants that satisfy
the module's assumption; there is no bound on a number of transactions,
datagrams, messages or requests that a proof relies on. A theorem named next to
a property of a run says for every instance what the run shows on a small one.
TLC looked at each inductive invariant before it was proved.

### The engine

| module | theorem | says |
|---|---|---|
| `EngineProofs` | `TypeCorrect` | `Spec => []TypeOK` |
| | `NeverCrossed` | `Spec => []Uncrossed` |
| | `NeverEmpty` | `Spec => []NoEmptyEntries` |
| | `IndexCorrect` | `Spec => []IndexMatchesBook` |
| | `Progress` | `Spec => HandlerProgress` |
| | `Conserved` | `AuditSpec => []QuantityConserved` |
| | `TapeCorrect` | `AuditSpec => []TapeMatchesReports` |
| | `OnlyFilledReturn` | `AuditSpec => OnlyFilledIdsReturn` |
| | `FeedImplemented` | `RequestSpec => ImplementsLadder` |
| | `PriceTimeImplemented` | `RequestSpec => ImplementsPriceTime` |

They assume `EngineAssumption` (prices are integers, quantities are taken modulo
a positive number, the two markers are no order and no datagram) and, for the
audit, that there are finitely many order ids, which are ints.

None of the invariants is inductive alone; `IInv` is their conjunction. A fill
removes the head of a level, so levels must not be empty (`NoEmptyEntries`);
that the fill erases just this entry of `orders_` needs the index, and the index
needs ids to be unique in and across levels (`IndexMatchesBook`); that an order
which comes to rest does not cross needs the levels it could cross to be gone,
which `RestIncoming`'s guard and the order of the maps give (`Uncrossed`). The
proof is laid out by what a handler does to a book: all of them store one level
(`Edit`), so lemmas about `PutLevel` and about an edited book come first, then
one lemma per action and conjunct.

The audit and the refinement are about sums. A sum is a fold whose order is not
specified; `SequenceLemmas` shows that it is the total of weights over a finite
set, that this does not depend on the order, and what one element more, one
less or one changed does to it. The fold is a recursive function, so that this
needs induction over a number only.

- The accounts: what rests under an id is a sum over every place of every
  book. `IInv` makes it one place or none (`RestFacts`), so each step is followed
  by following that order: it leaves (`DropRests`), shrinks (`ShrinkRests`),
  comes to rest (`AppendRests`) or stays (`SameRest`). A fill is reported in two
  records with different ids (`FillAudited`), because the incoming id is not in
  `orders_` and the resting one is. `AuditInv` adds to the properties that what
  is withdrawn is in `completed`: with that, an id which returns was never
  cancelled and, its remainder being 0, was filled completely.
- The feed: each action changes the sum of one level by the
  quantity of its datagram and leaves the table elsewhere (`Table` is compared
  before and after for a dropped, a shrunk and an appended order). That a trade
  is at the best level is `IsBegin`; that a submit does not cross is that no
  level left is crossed when the best is not (`NoneCrossed`).
- Price-time priority: accepting a submit is the abstract step, and each
  iteration of the loop must be a stutter, so the outcome may not change while
  the loop carries it out (`Unmoved`). The loop takes the first order of the first
  level. If it takes it whole (`Devours`), each other place has that quantity less
  ahead of it and the taker wants that much less, so the shares stay, one
  position further up at that price (`Shift`); the remainder is the same, and
  the lines to come lose the two that were sent. If it takes a part (`Nibbles`),
  no other place has a share. If the first level does not cross, no place is
  acceptable, and the taker joins its own queue. What is ahead of a place is
  a total over a set of places, and the lines come in the order of a finite set,
  so the proof carries one more invariant, `Bounded`: finitely many orders are
  live, and the results of the loop are fill lines. The abstract operators appear
  in two instances (`Outcome`, over the books; `Market`, over the outcome); they
  are shown equal once, operator by operator.

### The feed handler

| theorem of `MdFeedProofs` | says |
|---|---|
| `TypeCorrect` | `Spec => []TypeOK` |
| `NothingElseMissed` | one symbol: `Spec => []OnlySnapshotIdMissed` |
| `CountedOnce` | one symbol: `Spec => []AppliedOnce` |
| `NoNeedlessRecovery` | one symbol: `Spec => []NeverRecoversWithoutLoss` |

The faults of the network are a constant: the theorems hold for each set of
them. `OneSymbol` is what the code needs: `md` compares the ids of all books
with one `txn_id_`, and the run `two_symbols` shows what follows with two;
`NoNeedlessRecovery` is the other half of that finding. `CountedOnce` rests on
where a transaction can be: one that was not sent is nowhere (`NothingUnsent`); one
sent since the last snapshot is applied, deferred or under way, and no more often
than once and the duplicates (`CopiesBounded`); and the id of a snapshot lies between
the last id `md` has seen and the next one of the exchange (`SnapshotInOrder`), so
that what the snapshot has and the network still carries is never applied.

### The level book

| theorem of `LevelFeedProofs` | says, while every total fits a word |
|---|---|
| `BooksFollow` | the inductive invariant `IInv` |
| `QuantitiesFollow` | `FeedSpec => []NothingLostUnlessMisrouted` |
| `BooksAreFaithful` | `FeedSpec => []FaithfulUnlessGhost` |
| `GhostsAreUsedUpLevels` | `FeedSpec => GhostsComeFromOuterLevels` |
| `OnlyGhostsMisroute` | `FeedSpec => MisroutedOnlyByGhost` |
| `BookIdsCount` | `FeedSpec => BookIdCountsChanges` |

The theorems have one hypothesis, `[]FitsWord`: the exchange never has 2^32 units
or more at one price of one side. Then `level_book.h` computes modulo 2^32 what
the exchange computes without; above it the claims are false, since the fields of
msg.h cannot carry such a total either. An order has less than 2^16 units, so that
it takes more than 65536 of them at one price to get there; the code does not
forbid that, hence a hypothesis about the behaviour and not an assumption on a
constant. Nothing else is bounded: any prices, quantities, depth, number of
datagrams, misses and snapshots.

A side of a book is an array and a map. `WellKept` says that the array is sorted
and nothing in the map is better than anything in the array (`Sorted`), that of
several entries at one price only the first in the array can have a quantity, and
one in the map only if the array has none (`OnceEach`), and that empty places of
the array have the worst price (`Typed`). `Has` says what a side has at a price.
Ghosts and the sentinel satisfy all this; that is why it is inductive where
faithfulness alone is not. Each method keeps `WellKept` and changes what the side
has at one price: an insert in the middle that pushes the last level out, a
removal that promotes the first of the map, and the two operations on the map
alone. `IInv` is that this holds of every book in `Followed`, with `Has` agreeing
with the exchange; a snapshot is followed level by level, from a cleared book and
an exchange that has only the levels sent so far. Faithfulness follows
because, without ghosts, a sorted array of distinct prices with the quantities of
the exchange can only be the best levels; the side of a trade or cancel is right
because an honest best sell lies above every buy, and the exchange is not crossed
(`Ladder`, which the engine implements by `FeedImplemented`).

### The page

| theorem of `LadderPageProofs` | says |
|---|---|
| `PageTyped` | `PageSpec => []TypeOK` |
| `TableIsTrue` | `PageSpec => []TableShowsLevels` |
| `FlagIsTrue` | `PageSpec => []FlagTellsRecovery` |
| `PageFollows` | while every total fits a word: `PageSpec => []PageFollowsMd` |

The properties are about the page once it has received what is under way
(`Drained`). The proof treats a message as received the moment it is sent: a step
of md or the router appends a message and handles it last (`ReceivedAppend`), and
when the page receives the first one nothing changes (`ReceivedHead`). `PageInv`
adds to the types that a call is behind the subscriptions it needs (`CallLast`),
so that a page whose answer is under way hears of every change, and that the cells
show the index (`CellsMatch`), which `update_lvl` keeps because within the table
no two prices share a row. `FollowInv` says that the page agrees with what md's book shows; for
prices whose quantity was replaced, only that the book shows some: the other side
then has nothing there, which a later removal at that price needs. That a trade or cancel without a side, looked up among the page's sells
first, reaches the side md took it from, rests on `IInv` of the book: what md
shows on both sides cannot share a price.

### The session

| theorem of `WampProofs` | says |
|---|---|
| `TypeCorrect` | `FairSpec => []TypeOK` |
| `OneSpoiledEach` | `FairSpec => []SpoilsAtMostOne` |
| `RightCallback` | `FairSpec => []CallbacksMatch` |
| `NothingAfterGoodbye` | `FairSpec => OnlyYieldsAfterGoodbye` |
| `ThrowsOnlyWhileLeaving` | `FairSpec => []CrashesOnlyWhileLeaving` |

A chain of invariants, each inductive relative to those before it. `Typed`: the
shape of messages, tables and buffer. `SpoilsPending`: a YIELD left in the buffer
is a failure not yet paid for. `AllTruthful`: what any message, table entry or
callback says was asked for under its id; ids are drawn from one counter, so it
says one thing per id. `Handshake`: hello, welcome and goodbye come in this order,
and nothing follows a goodbye but YIELDs. `Rising`: ids rise along the wire to the
router, and no answer is under way twice. `Accounted`, on the last two: until
`leave`, each answer on its way, and each request that will be answered, has its
entry in the tables; an INVOCATION has the REGISTERED it needs, in the table or
ahead of it. With that no handler throws.

### Streams and proxy

| module | theorem | says |
|---|---|---|
| `StreamProofs` | `TypeCorrect` | messages fit: `Spec => []TypeOK` |
| | `HandledWhole` | messages fit: `Spec => []WholeMessagesOnly` |
| | `RoomToReceive` | messages fit: `Spec => []NeverTakenForClosed` |
| `WsProxyProofs` | `TypeCorrect` | `Spec => []TypeOK` |
| | `NothingOutOfOrder` | `Spec => []InOrder` |
| | `UpTakesPipeSteps` | the stream of md takes the steps of `Pipe`, without its fairness |
| | `DownTakesPipeSteps` | so do the router's messages |

`Fits` is that the dialect is that of orders and snapshots and no message is longer
than the buffer, as for the types of msg.h; the frames of WAMP are excluded because the claim is
false for them (`wamp_framing`). The invariant: the buffer holds what was read and
not handled (`InStep`), and between two callbacks that is less than a message
(`Incomplete`), hence less than the buffer.

For the proxy, the messages the router has read, those on the wire and those in
the queue form one chain in which each message begins at the unit after the end
of the one before it; what flattening such a chain gives follows from where its
messages begin and end. Closing a side cuts the chain at its end, never in the
middle.

### Only model-checked

- Liveness, and with it the fairness of the two pipes: `RecoveryEnds`, the ends of
  the session, the stream, the page and the proxy. The prover has no ENABLED.
- The runs with a violation: a theorem could only state an exception, as
  `NoNeedlessRecovery`, `HandledWhole` and `OnlyFilledReturn` do.

## Not modelled

- The regular expressions and the text of results: only which lines are refused
  and what becomes of the numbers matters to the engine.
- Prices are integers: the engine and the level book compare them and never
  compute with them.
- `PrintBooks` prints the books in any order, as an unordered map does.
- Memory exhaustion and the session's tables that only grow (`calls_`).
- cl.cpp has no state: it reads a line and sends it as one message.
- The table of watched descriptors of st_socket.cpp: one callback runs at a time
  and bmatch never closes what it accepted, so a number is not reused while an
  event for it is pending.
- The lifetime of the level arrays md publishes: `vec_levels` builds them in a
  zone that is gone when the publication or the answer is packed
  (md.cpp:256-264), which is undefined behaviour. `LevelsProc` and `Snapshotted`
  take the arrays to be intact, and with them all that `page` shows.
- Fractional prices on the page, which share the row of the tick below.
- Connection set-up and errors of system calls other than refused connections.
- Messages that break the WAMP protocol: the router is taken to be correct.

## Plan

1. `Engine`, `EngineAudit`, `PriceTime`, `Ladder`, `EngineImplements` with their
   runs; `EngineProofs` (done).
2. `LevelBook`, `LevelFeed`, `MdFeed` (done).
3. `WampSession`, `SocketStream` (done).
4. `LadderPage`, `WsProxy` with `Pipe`, the snapshot clients in `MdFeed` (done).
5. Proofs of the engine, the feed handler, the session, the stream and the proxy
   (done).
6. Proofs of the level book, of the page that shows it and of price-time priority
   (done).
7. Left: the regular expressions of the requests, and the table of watched
   descriptors, should bmatch ever close what it accepts.
