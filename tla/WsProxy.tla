------------------------------ MODULE WsProxy ------------------------------
(***************************************************************************)
(* One connection of the WebSocket proxy (py/wsproxy.py): Md's TCP stream  *)
(* on one side (Fwd), a websocket to the WAMP router on the other          *)
(* (Websockify).  What one dataReceived gets goes out as one message, kept *)
(* in data_queue until the websocket is open.  Connections share nothing.  *)
(*                                                                         *)
(* Md, the router and Twisted are external.  Every frame of Md is two      *)
(* units, 2k-1 and 2k, and TCP may cut its stream between any two units;   *)
(* a message of the router is one unit.  The router closes the websocket   *)
(* on a message that is not whole frames.                                  *)
(*                                                                         *)
(* A definition named Bad... is the one that follows it with a plausible   *)
(* bug; no specification uses it.                                          *)
(***************************************************************************)
EXTENDS Integers, SequencesExt

CONSTANTS
  MaxFrames,   \* bound on the frames Md sends
  MaxReplies   \* bound on the messages the router sends

ASSUME WsProxyAssumption == MaxFrames \in Nat /\ MaxReplies \in Nat

VARIABLES
  sent,        \* external: units Md has sent
  fromMd,      \* external: units on their way to dataReceived
  eof,         \* external: Md has closed its end
  tcp,         \* Fwd.transport: "open", "closing" after loseConnection, "lost"
  dataQueue,   \* Fwd.data_queue
  wsproxy,     \* whether Fwd.wsproxy is set
  ws,          \* the websocket, see WsStates
  toRouter,    \* messages on their way to the router
  routerGot,   \* external: messages the router has read
  replies,     \* external: messages the router has sent
  fromRouter,  \* external: messages on their way to onMessage
  toMd,        \* what was written to Fwd.transport and not read by Md
  mdGot,       \* external: what Md has read
  split,       \* history: dataReceived got a part of a frame
  broken,      \* history: a connection was refused, failed or cut
  hangup,      \* history: the router closed the websocket of its own accord
  orphan       \* history: Md was gone before the websocket was open

tcpVars == <<sent, fromMd, eof, tcp>>
downVars == <<replies, fromRouter, toMd, mdGot>>
history == <<split, broken, hangup, orphan>>
vars == <<tcpVars, dataQueue, wsproxy, ws, toRouter, routerGot, downVars, history>>

WsStates ==
  {"connecting", "open",
   "proxyCloses", "routerCloses",  \* by the side that sent its close first
   "closed",
   "failed"}                       \* never connected: no protocol was built

Init ==
  /\ sent = 0 /\ fromMd = <<>> /\ eof = FALSE /\ tcp = "open"
  /\ dataQueue = <<>> /\ wsproxy = FALSE
  /\ ws = "connecting"
  /\ toRouter = <<>> /\ routerGot = <<>>
  /\ replies = 0 /\ fromRouter = <<>> /\ toMd = <<>> /\ mdGot = <<>>
  /\ split = FALSE /\ broken = FALSE /\ hangup = FALSE /\ orphan = FALSE

-----------------------------------------------------------------------------
(* Md and its connection.                                                   *)

MdSends ==
  /\ ~eof /\ tcp # "lost"
  /\ sent < 2 * MaxFrames
  /\ sent' = sent + 2
  /\ fromMd' = fromMd \o <<sent + 1, sent + 2>>
  /\ UNCHANGED <<eof, tcp, dataQueue, wsproxy, ws, toRouter, routerGot, downVars, history>>

MdCloses ==
  /\ ~eof
  /\ eof' = TRUE
  /\ UNCHANGED <<sent, fromMd, tcp, dataQueue, wsproxy, ws, toRouter, routerGot,
                 downVars, history>>

MdReads ==
  /\ ~eof
  /\ toMd # <<>>
  /\ mdGot' = Append(mdGot, Head(toMd))
  /\ toMd' = Tail(toMd)
  /\ UNCHANGED <<tcpVars, dataQueue, wsproxy, ws, toRouter, routerGot, replies,
                 fromRouter, history>>

-----------------------------------------------------------------------------
(* Fwd.                                                                     *)

\* Data is sent whether or not the websocket is there.
BadWaiting == FALSE

Waiting == ~wsproxy

\* sendMessage does nothing unless the websocket is open.
SendMessage(data) ==
  toRouter' = IF ws = "open" THEN Append(toRouter, data) ELSE toRouter

DataReceived ==
  /\ tcp = "open"
  /\ \E n \in DOMAIN fromMd :
       LET data == SubSeq(fromMd, 1, n)
       IN  /\ fromMd' = SubSeq(fromMd, n + 1, Len(fromMd))
           /\ split' = (split \/ fromMd[n] % 2 = 1)
           /\ IF Waiting
              THEN dataQueue' = Append(dataQueue, data) /\ UNCHANGED toRouter
              ELSE SendMessage(data) /\ UNCHANGED dataQueue
  /\ UNCHANGED <<sent, eof, tcp, wsproxy, ws, routerGot, downVars, broken, hangup, orphan>>

\* connectionLost: the websocket is closed if there is one yet.
Lost ==
  /\ tcp' = "lost"
  /\ wsproxy' = FALSE
  /\ ws' = IF wsproxy /\ ws = "open" THEN "proxyCloses" ELSE ws
  /\ orphan' = (ws = "connecting")
  /\ UNCHANGED <<sent, eof, dataQueue, toRouter, routerGot, replies, fromRouter,
                 mdGot, split, hangup>>

\* Md has closed, and everything it sent was received.
ConnectionLost ==
  /\ tcp = "open"
  /\ eof /\ fromMd = <<>>
  /\ Lost
  /\ toMd' = <<>>
  /\ UNCHANGED <<fromMd, broken>>

\* loseConnection goes on until what was written is sent.
ConnectionClosed ==
  /\ tcp = "closing"
  /\ eof \/ toMd = <<>>
  /\ Lost
  /\ fromMd' = <<>> /\ toMd' = <<>>
  /\ UNCHANGED broken

ConnectionReset ==
  /\ tcp # "lost"
  /\ Lost
  /\ fromMd' = <<>> /\ toMd' = <<>>
  /\ broken' = TRUE

-----------------------------------------------------------------------------
(* Websockify.                                                              *)

\* What was queued is not sent.
BadFlushed == toRouter

\* set_wsproxy sends what was queued, message by message.
Flushed == toRouter \o dataQueue

\* The queue is not emptied.
BadLeftInQueue == dataQueue

LeftInQueue == <<>>

\* onOpen, whether Md is still there or not.
OnOpen ==
  /\ ws = "connecting"
  /\ ws' = "open"
  /\ wsproxy' = TRUE
  /\ toRouter' = Flushed
  /\ dataQueue' = LeftInQueue
  /\ UNCHANGED <<tcpVars, routerGot, downVars, history>>

OnMessage ==
  /\ ws \in {"open", "proxyCloses", "routerCloses"}
  /\ fromRouter # <<>>
  /\ fromRouter' = Tail(fromRouter)
  /\ toMd' = IF tcp = "open" THEN Append(toMd, Head(fromRouter)) ELSE toMd
  /\ UNCHANGED <<tcpVars, dataQueue, wsproxy, ws, toRouter, routerGot, replies,
                 mdGot, history>>

\* The connection to Md is left alone.
BadLoseConnection == UNCHANGED <<tcp, toMd>>

\* The connection to Md is aborted.
BadAbortConnection ==
  /\ tcp' = IF tcp = "open" THEN "closing" ELSE tcp
  /\ toMd' = <<>>

LoseConnection ==
  /\ tcp' = IF tcp = "open" THEN "closing" ELSE tcp
  /\ UNCHANGED toMd

Closed ==
  /\ ws' = "closed"
  /\ wsproxy' = FALSE
  /\ LoseConnection
  /\ toRouter' = <<>> /\ fromRouter' = <<>>
  /\ UNCHANGED <<sent, fromMd, eof, dataQueue, routerGot, replies, mdGot, split, hangup, orphan>>

\* onClose after both sides have closed; each has read what came before the
\* other's close.
OnClose ==
  /\ \/ ws = "proxyCloses" /\ toRouter = <<>>
     \/ ws = "routerCloses" /\ fromRouter = <<>>
  /\ Closed
  /\ UNCHANGED broken

\* onClose after the websocket was refused, or its connection cut.
OnCloseUnclean ==
  /\ ws \notin {"closed", "failed"}
  /\ Closed
  /\ broken' = TRUE

\* The TCP connection to the router cannot be made: Websockify does not exist
\* and Fwd is not told.
ConnectFails ==
  /\ ws = "connecting"
  /\ ws' = "failed"
  /\ broken' = TRUE
  /\ UNCHANGED <<tcpVars, dataQueue, wsproxy, toRouter, routerGot, downVars, split, hangup, orphan>>

-----------------------------------------------------------------------------
(* The router reads nothing more once it has closed.                        *)

WholeFrames(data) == data[1] % 2 = 1 /\ Last(data) % 2 = 0

RouterReads ==
  /\ ws \in {"open", "proxyCloses"}
  /\ toRouter # <<>>
  /\ IF WholeFrames(Head(toRouter))
     THEN /\ routerGot' = Append(routerGot, Head(toRouter))
          /\ toRouter' = Tail(toRouter)
          /\ UNCHANGED ws
     ELSE /\ ws' = "routerCloses"
          /\ toRouter' = <<>>
          /\ UNCHANGED routerGot
  /\ UNCHANGED <<tcpVars, dataQueue, wsproxy, downVars, history>>

RouterSends ==
  /\ ws = "open"
  /\ replies < MaxReplies
  /\ replies' = replies + 1
  /\ fromRouter' = Append(fromRouter, replies + 1)
  /\ UNCHANGED <<tcpVars, dataQueue, wsproxy, ws, toRouter, routerGot, toMd, mdGot, history>>

RouterCloses ==
  /\ ws = "open"
  /\ ws' = "routerCloses"
  /\ hangup' = TRUE
  /\ toRouter' = <<>>
  /\ UNCHANGED <<tcpVars, dataQueue, wsproxy, routerGot, downVars,
                 split, broken, orphan>>

-----------------------------------------------------------------------------
Reactor ==
  \/ DataReceived \/ ConnectionLost \/ ConnectionClosed
  \/ OnOpen \/ OnMessage \/ OnClose

Peers == MdReads \/ RouterReads

Next ==
  \/ Reactor \/ Peers
  \/ MdSends \/ MdCloses \/ RouterSends \/ RouterCloses
  \/ ConnectionReset \/ OnCloseUnclean \/ ConnectFails

\* The reactor and the network deliver, and both ends read what they are sent;
\* nobody has to send, to close or to fail.
Fairness ==
  /\ WF_vars(DataReceived) /\ WF_vars(ConnectionLost) /\ WF_vars(ConnectionClosed)
  /\ WF_vars(OnOpen) /\ WF_vars(OnMessage) /\ WF_vars(OnClose)
  /\ WF_vars(MdReads) /\ WF_vars(RouterReads)

Spec == Init /\ [][Next]_vars /\ Fairness

-----------------------------------------------------------------------------
\* The first n units, in order.
Upto(n) == [i \in 1..n |-> i]

\* The state of both connections; set_wsproxy leaves nothing in the queue once
\* there is a websocket, and connectionLost and onClose take it away.
TypeOK ==
  /\ sent \in 0..(2 * MaxFrames) /\ replies \in 0..MaxReplies
  /\ tcp \in {"open", "closing", "lost"} /\ ws \in WsStates
  /\ {eof, wsproxy, split, broken, hangup, orphan} \subseteq BOOLEAN
  /\ wsproxy => dataQueue = <<>> /\ ws \in {"open", "routerCloses"}

\* Whatever is queued, sent or dropped around the opening and the closing of
\* either side, each side sees a beginning of what the other one sent: nothing
\* out of order, nothing twice, nothing after a gap (Fwd.dataReceived,
\* set_wsproxy, Websockify.onMessage).
InOrder ==
  /\ IsPrefix(FlattenSeq(routerGot \o toRouter \o dataQueue), Upto(sent))
  /\ IsPrefix(mdGot \o toMd, Upto(replies))

\* The stream of Md is a pipe: a frame reaches the router also when it was sent
\* before the websocket was open (dataQueue), or right before Md closed.  It
\* breaks with a connection, when the router hangs up, and when TCP cuts a
\* frame: the two messages made of it are an error to the router.
Up == INSTANCE Pipe WITH given <- Upto(sent), got <- FlattenSeq(routerGot),
                         whole <- ~(broken \/ hangup \/ split)

UpIsPipe == Up!Spec

\* The messages of the router are a pipe as well: what it sent right before it
\* closed reaches Md (onClose ends the connection with loseConnection).  It
\* breaks with a connection, and when Md closes.
Down == INSTANCE Pipe WITH given <- Upto(replies), got <- mdGot,
                           whole <- ~(broken \/ eof)

DownIsPipe == Down!Spec

\* When one connection ends the other one does, unless the websocket opens
\* only after Md has gone: nobody closes that one (connectionLost, onClose).
\* A websocket that could not be connected never tells Md.
ClosesTogether ==
  /\ ws = "closed" ~> tcp = "lost"
  /\ tcp = "lost" ~> ws \in {"closed", "failed"} \/ orphan
=============================================================================
