------------------------------- MODULE MdFeed -------------------------------
(***************************************************************************)
(* Loss detection and recovery of the market-data handler: Md (md.cpp)     *)
(* between the multicast feed of bmatch and its TCP snapshot service       *)
(* (BasicMatch::handle_snap_request).                                      *)
(*                                                                         *)
(* What a datagram says is LevelBook's business (LevelBook.tla); here a    *)
(* book is known by the transactions it reflects, each with the number of  *)
(* times it was applied.  A right book reflects every transaction once.    *)
(* The feed is UDP: what may happen to a datagram is the constant Faults.  *)
(*                                                                         *)
(* A definition named Bad... is the one that follows it with a plausible   *)
(* bug; no specification uses it.                                          *)
(***************************************************************************)
EXTENDS Integers, Sequences, FiniteSets, SequencesExt

CONSTANTS
  Symbols,
  Faults,    \* any of "lose", "reorder", "duplicate", "refuse", "disconnect"
  TxnMod,    \* 2^64 in the code: txn ids are uint64_t
  MaxTxn,    \* bound on the datagrams of one symbol
  MaxCopies, \* bound on the datagrams the network duplicates
  MaxClients,\* descriptors bmatch has for the connections it accepts
  NoSymbol

ASSUME MdFeedAssumption ==
  /\ Faults \subseteq {"lose", "reorder", "duplicate", "refuse", "disconnect"}
  /\ TxnMod \in Nat /\ MaxTxn \in Nat /\ MaxCopies \in Nat /\ MaxClients \in Nat
  /\ MaxTxn + 1 < TxnMod
  /\ NoSymbol \notin Symbols

VARIABLES
  nextTxn,     \* Book::txn_id_ of each book of bmatch
  udp,         \* datagrams on their way to Md, in the order they were sent
  copies,      \* datagrams duplicated so far
  request,     \* the symbol a SnapRequest is under way for, or NoSymbol
  accepted,    \* whether bmatch has accepted the connection it comes on
  clients,     \* entries of clients_: those that send orders and those for snapshots
  response,    \* the SnapResponses under way
  txnId,       \* Md::txn_id_, one for all symbols
  recovering,  \* Md::recovering_
  deferred,    \* Md::deferred_actions_
  applied,     \* [symbol -> [txn -> how often the book reflects it]]
  lastSnap,    \* history: [symbol -> txn id of its last snapshot, or 0]
  cut          \* history: a connection for a snapshot was refused or lost

vars == <<nextTxn, udp, copies, request, accepted, clients, response,
          txnId, recovering, deferred, applied, lastSnap, cut>>

network == <<udp, copies>>
snapshot == <<request, accepted, clients, response>>
md == <<txnId, recovering, deferred, applied, lastSnap>>

Txns == 1..MaxTxn
Datagram == [sym : Symbols, txn : Txns]

\* How often x is in a sequence.
Copies(seq, x) == Cardinality({i \in DOMAIN seq : seq[i] = x})

Init ==
  /\ nextTxn = [s \in Symbols |-> 1]
  /\ udp = <<>>
  /\ copies = 0
  /\ request = NoSymbol
  /\ accepted = FALSE
  /\ clients = 0
  /\ response = <<>>
  /\ txnId = 0
  /\ recovering = FALSE
  /\ deferred = [s \in Symbols |-> <<>>]
  /\ applied = [s \in Symbols |-> [k \in Txns |-> 0]]
  /\ lastSnap = [s \in Symbols |-> 0]
  /\ cut = FALSE

-----------------------------------------------------------------------------
(* bmatch and the network.                                                  *)

\* A fill, a cancel or a resting submit.
Publish(s) ==
  /\ nextTxn[s] <= MaxTxn
  /\ nextTxn' = [nextTxn EXCEPT ![s] = @ + 1]
  /\ udp' = Append(udp, [sym |-> s, txn |-> nextTxn[s]])
  /\ UNCHANGED <<copies, snapshot, md, cut>>

Lose ==
  /\ "lose" \in Faults
  /\ \E i \in DOMAIN udp : udp' = RemoveAt(udp, i)
  /\ UNCHANGED <<nextTxn, copies, snapshot, md, cut>>

Duplicate ==
  /\ "duplicate" \in Faults
  /\ copies < MaxCopies
  /\ \E i \in DOMAIN udp : udp' = InsertAt(udp, i, udp[i])
  /\ copies' = copies + 1
  /\ UNCHANGED <<nextTxn, snapshot, md, cut>>

\* listen_cb and add_conn: every connection gets a client and a descriptor,
\* which nothing takes back; without a descriptor accept fails, and Md, which
\* the kernel has connected, is not told.
Accept ==
  /\ request # NoSymbol /\ ~accepted
  /\ clients < MaxClients
  /\ clients' = clients + 1
  /\ accepted' = TRUE
  /\ UNCHANGED <<nextTxn, network, request, response, md, cut>>

\* client_accept_cb: orders come over connections of the same kind.
AcceptOrders ==
  /\ clients < MaxClients
  /\ clients' = clients + 1
  /\ UNCHANGED <<nextTxn, network, request, accepted, response, md, cut>>

\* The id after the next one.
BadSnapTxn(s) == nextTxn[s] + 1

SnapTxn(s) == nextTxn[s]

\* handle_snap_request: the book after transactions 1 .. txn_id_ - 1, labelled
\* with txn_id_.  (A book of at most 16 levels a side; see README.)
Answer ==
  /\ request # NoSymbol /\ accepted
  /\ response' = Append(response, [sym |-> request, txn |-> SnapTxn(request)])
  /\ request' = NoSymbol
  /\ accepted' = FALSE
  /\ UNCHANGED <<nextTxn, network, clients, md, cut>>

\* The connection ends before the answer is read.
Disconnect ==
  /\ "disconnect" \in Faults
  /\ request # NoSymbol \/ response # <<>>
  /\ request' = NoSymbol
  /\ accepted' = FALSE
  /\ response' = <<>>
  /\ cut' = TRUE
  /\ UNCHANGED <<nextTxn, network, clients, md>>

-----------------------------------------------------------------------------
(* Md.                                                                      *)

\* recover: the datagram that revealed the gap is not kept.  When the
\* connection is refused nothing is sent, and nothing tries again.
Recover(s) ==
  /\ recovering' = TRUE
  /\ \/ request' = s /\ UNCHANGED cut
     \/ "refuse" \in Faults /\ cut' = TRUE /\ UNCHANGED request
  /\ UNCHANGED <<accepted, clients, response, txnId, deferred, applied, lastSnap>>

Defer(m) ==
  /\ deferred' = [deferred EXCEPT ![m.sym] = Append(@, m.txn)]
  /\ UNCHANGED <<snapshot, txnId, recovering, applied, lastSnap, cut>>

ApplyNow(m) ==
  /\ txnId' = m.txn
  /\ applied' = [applied EXCEPT ![m.sym][m.txn] = @ + 1]
  /\ UNCHANGED <<snapshot, recovering, deferred, lastSnap, cut>>

\* Signed numbers; and `> 2' for `> 1'.
BadGapSigned(m) == m.txn - txnId > 1
BadGapWide(m) == (m.txn - txnId) % TxnMod > 2

\* txn_id - txn_id_ > 1, of unsigned numbers.
Gap(m) == (m.txn - txnId) % TxnMod > 1

\* on_trade, on_cancel, on_submit
Receive(m) ==
  \/ recovering /\ Defer(m)
  \/ ~recovering /\ Gap(m) /\ Recover(m.sym)
  \/ ~recovering /\ ~Gap(m) /\ ApplyNow(m)

Deliver ==
  /\ \E i \in IF "reorder" \in Faults THEN DOMAIN udp ELSE DOMAIN udp \cap {1} :
       /\ Receive(udp[i])
       /\ udp' = RemoveAt(udp, i)
  /\ UNCHANGED <<nextTxn, copies>>

\* recovering_ stays set.
BadRecovered == TRUE

Recovered == FALSE

\* on_snapshot: the levels replace the book, deferred datagrams with larger
\* transaction ids are applied, and those of this symbol are forgotten.
OnSnapshot ==
  /\ response # <<>>
  /\ LET s == Head(response).sym
         base == Head(response).txn
         replayed(k) == IF k > base THEN Copies(deferred[s], k) ELSE 0
     IN  /\ applied' = [applied EXCEPT ![s] =
               [k \in Txns |-> (IF k < base THEN 1 ELSE 0) + replayed(k)]]
         /\ deferred' = [deferred EXCEPT ![s] = <<>>]
         /\ txnId' = base
         /\ lastSnap' = [lastSnap EXCEPT ![s] = base]
  /\ recovering' = Recovered
  /\ response' = <<>>
  /\ UNCHANGED <<nextTxn, network, request, accepted, clients, cut>>

-----------------------------------------------------------------------------
Next ==
  \/ \E s \in Symbols : Publish(s)
  \/ Lose \/ Duplicate \/ Accept \/ AcceptOrders \/ Answer \/ Disconnect
  \/ Deliver \/ OnSnapshot

Spec == Init /\ [][Next]_vars

\* bmatch and Md keep serving their sockets.
FairSpec ==
  Spec /\ WF_vars(Accept) /\ WF_vars(Answer) /\ WF_vars(Deliver) /\ WF_vars(OnSnapshot)

-----------------------------------------------------------------------------
TypeOK ==
  /\ nextTxn \in [Symbols -> 1..(MaxTxn + 1)]
  /\ udp \in Seq(Datagram)
  /\ copies \in 0..MaxCopies
  /\ request \in Symbols \cup {NoSymbol}
  /\ accepted \in BOOLEAN /\ (accepted => request # NoSymbol)
  /\ clients \in 0..MaxClients
  /\ response \in Seq([sym : Symbols, txn : 1..(MaxTxn + 1)])
  /\ txnId \in 0..(MaxTxn + 1)
  /\ recovering \in BOOLEAN
  /\ deferred \in [Symbols -> Seq(Txns)]
  /\ applied \in [Symbols -> [Txns -> Nat]]
  /\ lastSnap \in [Symbols -> 0..(MaxTxn + 1)]
  /\ cut \in BOOLEAN

\* Loss and reordering never make a book count a transaction twice: whatever
\* is replayed after a snapshot is newer than what the snapshot contains.  Only
\* a datagram the network duplicated can be counted again, once for each copy:
\* an id that is the last one again passes the test for gaps.
AppliedOnce == \A s \in Symbols, k \in Txns : applied[s][k] <= 1 + copies

\* While Md trusts its book, everything up to txn_id_ is in it, except perhaps
\* the one transaction that carries the id of the last snapshot: that id is
\* the NEXT one of the exchange, but Md takes it for one it already has.
OnlySnapshotIdMissed ==
  ~recovering => \A s \in Symbols, k \in Txns :
    k <= txnId /\ applied[s][k] = 0 => k = lastSnap[s]

\* Without faults of the network no recovery is ever needed: every datagram is
\* the next one (engine.h:12, "keeps one book per instrument/symbol").
NeverRecoversWithoutLoss == Faults = {} => ~recovering

\* The request waits in the backlog of bmatch for a descriptor.
Unanswerable == request # NoSymbol /\ ~accepted /\ clients = MaxClients

\* A recovery always ends (md.cpp, on_snapshot), as long as no connection for a
\* snapshot is refused or lost, which nothing would try again, and bmatch has
\* not given its last descriptor to an earlier one (remove_client is never
\* called).
RecoveryEnds == recovering ~> ~recovering \/ cut \/ Unanswerable
=============================================================================
