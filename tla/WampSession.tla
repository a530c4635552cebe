---------------------------- MODULE WampSession ----------------------------
(***************************************************************************)
(* Autobahn::session (ls_autobahn.cpp): the WAMP client that Md publishes  *)
(* its books with.  The session is driven from two sides: its user calls   *)
(* subscribe, call, publish, provide, leave and stop, and the event loop   *)
(* hands it the messages of the router, both on one thread.                *)
(*                                                                         *)
(* The router is external.  It is modelled as the session relies on it: it *)
(* answers every request once, in order, with success or ERROR, and after  *)
(* its GOODBYE it sends nothing more.  A subscription id stands for its    *)
(* topic and a registration id for its procedure.                          *)
(*                                                                         *)
(* A definition named Bad... is the one that follows it with a plausible   *)
(* bug; no specification uses it.                                          *)
(***************************************************************************)
EXTENDS Integers, Sequences, SequencesExt

CONSTANTS
  Topics, Procs,
  Kind,         \* [Procs -> which of the four endpoint types it is]
  Failing,      \* procedures whose endpoint may throw
  Reentrant,    \* procedures whose endpoint may publish before it returns
  MaxRequests,  \* bound on the requests of the session
  MaxPushes,    \* bound on the EVENTs and INVOCATIONs of the router
  None

Kinds == {"value", "list", "map", "both"}

ASSUME WampAssumption ==
  /\ Kind \in [Procs -> Kinds]
  /\ Failing \subseteq Procs /\ Reentrant \subseteq Procs
  /\ MaxRequests \in Nat /\ MaxPushes \in Nat
  /\ None \notin Topics \cup Procs

VARIABLES
  joined,        \* session_id_ is not 0
  leaving,       \* leaving_
  stopped,       \* stopped_
  crashed,       \* an exception has left recv_cb: nothing catches it
  nextRequest,   \* request_id_
  pendingSubs,   \* pending_subscriptions_, request -> topic
  subs,          \* subscriptions_, subscription -> request of the handler
  calls,         \* keys of calls_
  pendingProcs,  \* pending_procs_, request -> procedure
  procs,         \* procs_, registration -> request of the endpoint
  half,          \* YIELDs buf_ holds the beginning of
  toRouter, toClient,                 \* the connection, frame by frame
  router, hears, offers, pushes,      \* external: the router
  asked,         \* history: what each request asked for
  ran,           \* history: the last user callback, or None
  ended,         \* history: secb_ was called
  failures,      \* history: endpoints that threw or published
  spoiled        \* history: messages sent behind the beginning of a YIELD

tables == <<pendingSubs, subs, calls, pendingProcs, procs>>
wire == <<half, toRouter, spoiled>>
flags == <<joined, leaving, stopped, crashed>>
external == <<router, hears, offers, pushes>>
history == <<asked, ran, ended, failures>>
vars == <<flags, nextRequest, tables, wire, toClient, external, history>>

Requests == 0..(MaxRequests - 1)
Names == Topics \cup Procs \cup {None}
ClientTypes == {"HELLO", "GOODBYE", "SUBSCRIBE", "CALL", "PUBLISH", "REGISTER", "YIELD"}
RouterTypes == {"WELCOME", "ABORT", "GOODBYE", "SUBSCRIBED", "EVENT", "RESULT",
                "REGISTERED", "INVOCATION", "SUBSCRIBE-ERROR", "CALL-ERROR",
                "REGISTER-ERROR"}

Message(type, req, of) == [type |-> type, req |-> req, of |-> of]
Messages(types) == [type : types, req : Nat, of : Names]
HalfYield == [req : Nat, kind : Kinds]

EmptyTable == [x \in {} |-> None]
With(table, key, value) ==
  [k \in DOMAIN table \cup {key} |-> IF k = key THEN value ELSE table[k]]
Minus(table, key) == [k \in DOMAIN table \ {key} |-> table[k]]

-----------------------------------------------------------------------------
\* The buffer is not cleared after it was sent.
BadCleared == half

\* buf_.clear()
Cleared == <<>>

\* send: whatever buf_ holds goes out as one frame.
Send(m) ==
  /\ half' = Cleared
  /\ \/ stopped /\ UNCHANGED <<toRouter, spoiled>>
     \/ /\ ~stopped
        /\ toRouter' = Append(toRouter, [half |-> half, msg |-> m])
        /\ spoiled' = IF half = <<>> THEN spoiled ELSE Append(spoiled, m)

Init ==
  /\ joined = FALSE /\ leaving = FALSE /\ stopped = FALSE /\ crashed = FALSE
  /\ nextRequest = 0
  /\ pendingSubs = EmptyTable /\ subs = EmptyTable /\ calls = {}
  /\ pendingProcs = EmptyTable /\ procs = EmptyTable
  /\ half = <<>> /\ spoiled = <<>>
  /\ toRouter = <<[half |-> <<>>, msg |-> Message("HELLO", 0, None)]>>
  /\ toClient = <<>>
  /\ router = "waiting" /\ hears = {} /\ offers = {} /\ pushes = 0
  /\ asked = EmptyTable /\ ran = None /\ ended = FALSE /\ failures = 0

-----------------------------------------------------------------------------
(* The user.  Without a session every operation is refused: it changes      *)
(* nothing, and provide and leave throw in the caller's face.               *)

\* next_request_id, and the message that carries the id.
Request(type, of, what) ==
  /\ joined /\ ~crashed
  /\ nextRequest < MaxRequests
  /\ nextRequest' = nextRequest + 1
  /\ asked' = With(asked, nextRequest, [what |-> what, of |-> of])
  /\ Send(Message(type, nextRequest, of))
  /\ UNCHANGED <<flags, toClient, external, ran, ended, failures>>

Subscribe(t) ==
  /\ Request("SUBSCRIBE", t, "handler")
  /\ pendingSubs' = With(pendingSubs, nextRequest, t)
  /\ UNCHANGED <<subs, calls, pendingProcs, procs>>

Call(p) ==
  /\ Request("CALL", p, "result")
  /\ calls' = calls \cup {nextRequest}
  /\ UNCHANGED <<pendingSubs, subs, pendingProcs, procs>>

Publish(t) ==
  /\ Request("PUBLISH", t, "nothing")
  /\ UNCHANGED tables

Provide(p) ==
  /\ Request("REGISTER", p, "endpoint")
  /\ pendingProcs' = With(pendingProcs, nextRequest, p)
  /\ UNCHANGED <<pendingSubs, subs, calls, procs>>

\* The session id is kept.
BadSessionIdLeft == joined

\* leave: session_id_ = 0
SessionIdLeft == FALSE

Leave ==
  /\ joined /\ ~crashed
  /\ leaving' = TRUE
  /\ joined' = SessionIdLeft
  /\ Send(Message("GOODBYE", 0, None))
  /\ UNCHANGED <<stopped, crashed, nextRequest, tables, toClient, external, history>>

Stop ==
  /\ ~stopped /\ ~crashed
  /\ stopped' = TRUE
  /\ UNCHANGED <<joined, leaving, crashed, nextRequest, tables, wire, toClient,
                 external, history>>

User ==
  \/ \E t \in Topics : Subscribe(t) \/ Publish(t)
  \/ \E p \in Procs : Call(p) \/ Provide(p)
  \/ Leave \/ Stop

-----------------------------------------------------------------------------
(* Messages of the router.                                                  *)

Quiet == UNCHANGED <<nextRequest, wire, asked, ended, failures>>

\* A message that the tables do not account for is a protocol_error.
Throw ==
  /\ crashed' = TRUE
  /\ Quiet
  /\ UNCHANGED <<joined, leaving, stopped, tables, ran>>

Ignore == Quiet /\ UNCHANGED <<flags, tables, ran>>

OnWelcome ==
  /\ joined' = TRUE
  /\ Quiet
  /\ UNCHANGED <<leaving, stopped, crashed, tables, ran>>

\* The oldest request that is pending, whichever was answered.
BadAnswered(pending, m) == CHOOSE r \in DOMAIN pending : \A q \in DOMAIN pending : r <= q

\* The pending request a SUBSCRIBED or REGISTERED is the answer to.
Answered(pending, m) == m.req

\* subscribed: emplace keeps the handler that is there already.
OnSubscribed(m) ==
  \/ leaving /\ Ignore
  \/ ~leaving /\ m.req \notin DOMAIN pendingSubs /\ Throw
  \/ /\ ~leaving
     /\ m.req \in DOMAIN pendingSubs
     /\ LET req == Answered(pendingSubs, m)
        IN  /\ subs' = IF m.of \in DOMAIN subs THEN subs ELSE With(subs, m.of, req)
            /\ pendingSubs' = Minus(pendingSubs, req)
     /\ Quiet
     /\ UNCHANGED <<flags, calls, pendingProcs, procs, ran>>

Run(what, of, req) == ran' = [what |-> what, of |-> of, req |-> req]

OnEvent(m) ==
  \/ (leaving \/ m.of \notin DOMAIN subs) /\ Ignore
  \/ /\ ~leaving
     /\ m.of \in DOMAIN subs
     /\ Run("handler", m.of, subs[m.of])
     /\ Quiet
     /\ UNCHANGED <<flags, tables>>

\* An answer to any request is looked up among the calls.
BadLookedUp(m) == TRUE

LookedUp(m) == m.type = "CALL-ERROR"

\* error: only the answer to a call is looked up, and nobody is told.
OnError(m) ==
  \/ LookedUp(m) /\ m.req \notin calls /\ Throw
  \/ LookedUp(m) /\ m.req \in calls /\ Ignore
  \/ ~LookedUp(m) /\ Ignore

\* call_result: the call stays in calls_.
OnResult(m) ==
  \/ leaving /\ Ignore
  \/ ~leaving /\ m.req \notin calls /\ Throw
  \/ /\ ~leaving
     /\ m.req \in calls
     /\ Run("result", m.of, m.req)
     /\ Quiet
     /\ UNCHANGED <<flags, tables>>

\* registered
OnRegistered(m) ==
  \/ leaving /\ Ignore
  \/ ~leaving /\ m.req \notin DOMAIN pendingProcs /\ Throw
  \/ /\ ~leaving
     /\ m.req \in DOMAIN pendingProcs
     /\ LET req == Answered(pendingProcs, m)
        IN  /\ procs' = With(procs, m.of, req)
            /\ pendingProcs' = Minus(pendingProcs, req)
     /\ Quiet
     /\ UNCHANGED <<flags, pendingSubs, subs, calls, ran>>

-----------------------------------------------------------------------------
(* invoked packs the beginning of the YIELD before it runs the endpoint.    *)

\* The registration id in place of the request id.
BadBegun(m) == Append(half, [req |-> m.of, kind |-> Kind[m.of]])

Begun(m) == Append(half, [req |-> m.req, kind |-> Kind[m.of]])

Invoke(m) ==
  /\ m.of \in DOMAIN procs
  /\ Run("endpoint", m.of, procs[m.of])
  /\ UNCHANGED <<flags, tables, ended>>

Returns(m) ==
  /\ Invoke(m)
  /\ Send(Message("YIELD", m.req, m.of))
  /\ UNCHANGED <<nextRequest, asked, failures>>

\* The exception is caught; the beginning of the YIELD stays in buf_.
Throws(m) ==
  /\ m.of \in Failing
  /\ Invoke(m)
  /\ half' = Begun(m)
  /\ failures' = failures + 1
  /\ UNCHANGED <<nextRequest, asked, toRouter, spoiled>>

\* publish inside the endpoint sends the beginning of the YIELD with it; the
\* value that is returned then makes a frame of its own.
Publishes(m, t) ==
  /\ m.of \in Reentrant
  /\ joined /\ ~stopped
  /\ nextRequest < MaxRequests
  /\ Invoke(m)
  /\ LET publish == Message("PUBLISH", nextRequest, t)
     IN  /\ toRouter' = toRouter \o
              << [half |-> Begun(m), msg |-> publish],
                 [half |-> <<>>, msg |-> Message("VALUE", m.req, None)] >>
         /\ spoiled' = Append(spoiled, publish)
  /\ half' = <<>>
  /\ nextRequest' = nextRequest + 1
  /\ asked' = With(asked, nextRequest, [what |-> "nothing", of |-> t])
  /\ failures' = failures + 1

OnInvocation(m) ==
  \/ m.of \notin DOMAIN procs /\ Throw
  \/ Returns(m)
  \/ Throws(m)
  \/ \E t \in Topics : Publishes(m, t)

\* Like every other message while leaving.
BadGoodbyeHeard == ~leaving

GoodbyeHeard == TRUE

\* goodbye, clear
OnGoodbye ==
  \/ ~GoodbyeHeard /\ Ignore
  \/ /\ GoodbyeHeard
     /\ \/ leaving /\ UNCHANGED wire
        \/ ~leaving /\ Send(Message("GOODBYE", 0, None))
     /\ joined' = FALSE
     /\ ended' = TRUE
     /\ pendingSubs' = EmptyTable /\ subs' = EmptyTable /\ calls' = {}
     /\ pendingProcs' = EmptyTable /\ procs' = EmptyTable
     /\ UNCHANGED <<leaving, stopped, crashed, nextRequest, asked, ran, failures>>

\* handle_msg
Handle(m) ==
  \/ m.type = "WELCOME" /\ OnWelcome
  \/ m.type = "ABORT" /\ Ignore
  \/ m.type = "GOODBYE" /\ OnGoodbye
  \/ m.type = "SUBSCRIBED" /\ OnSubscribed(m)
  \/ m.type = "EVENT" /\ OnEvent(m)
  \/ m.type = "RESULT" /\ OnResult(m)
  \/ m.type = "REGISTERED" /\ OnRegistered(m)
  \/ m.type = "INVOCATION" /\ OnInvocation(m)
  \/ m.type \in {"CALL-ERROR", "SUBSCRIBE-ERROR", "REGISTER-ERROR"} /\ OnError(m)

\* recv_cb of the session: after stop everything is thrown away.
Receive ==
  /\ toClient # <<>>
  /\ ~crashed
  /\ toClient' = Tail(toClient)
  /\ \/ stopped /\ Ignore
     \/ ~stopped /\ Handle(Head(toClient))
  /\ UNCHANGED external

-----------------------------------------------------------------------------
(* The router (external).                                                   *)

\* What a frame says.  Behind the beginning of a YIELD with a list, the next
\* message is read as that list; as a dictionary it cannot be read.
Readable(frame) ==
  /\ frame.msg.type # "VALUE"
  /\ frame.half # <<>> =>
       /\ frame.half[1].kind \in {"value", "list"}
       /\ \A i \in DOMAIN frame.half : frame.half[i].kind # "both"

Read(frame) ==
  IF frame.half = <<>> THEN frame.msg
  ELSE Message("YIELD", frame.half[1].req, None)

Reply(type, m) == toClient' = Append(toClient, Message(type, m.req, m.of))

Serve(m) ==
  \/ /\ m.type = "HELLO"
     /\ \/ router' = "open" /\ Reply("WELCOME", m)
        \/ router' = "closed" /\ Reply("ABORT", m)
     /\ UNCHANGED <<hears, offers>>
  \/ /\ m.type = "GOODBYE"
     /\ Reply("GOODBYE", m)
     /\ router' = "closed"
     /\ UNCHANGED <<hears, offers>>
  \/ /\ m.type = "SUBSCRIBE"
     /\ \/ hears' = hears \cup {m.of} /\ Reply("SUBSCRIBED", m)
        \/ UNCHANGED hears /\ Reply("SUBSCRIBE-ERROR", m)
     /\ UNCHANGED <<router, offers>>
  \/ /\ m.type = "REGISTER"
     /\ \/ m.of \notin offers /\ offers' = offers \cup {m.of} /\ Reply("REGISTERED", m)
        \/ UNCHANGED offers /\ Reply("REGISTER-ERROR", m)
     /\ UNCHANGED <<router, hears>>
  \/ /\ m.type = "CALL"
     /\ Reply("RESULT", m) \/ Reply("CALL-ERROR", m)
     /\ UNCHANGED <<router, hears, offers>>
  \/ /\ m.type \in {"PUBLISH", "YIELD"}
     /\ UNCHANGED <<router, hears, offers, toClient>>

RouterReads ==
  /\ toRouter # <<>>
  /\ toRouter' = Tail(toRouter)
  /\ LET frame == Head(toRouter)
     IN  \/ /\ router \in {"waiting", "open"}
            /\ Readable(frame)
            /\ Serve(Read(frame))
         \/ /\ router \in {"waiting", "open"}
            /\ ~Readable(frame)
            /\ router' = "aborted"
            /\ Reply("ABORT", frame.msg)
            /\ UNCHANGED <<hears, offers>>
         \/ /\ router \in {"closed", "aborted"}
            /\ UNCHANGED <<router, hears, offers, toClient>>
  /\ UNCHANGED <<flags, nextRequest, tables, half, spoiled, pushes, history>>

RouterPushes ==
  /\ router = "open"
  /\ \/ /\ pushes < MaxPushes
        /\ pushes' = pushes + 1
        /\ \/ \E t \in hears :
                toClient' = Append(toClient, Message("EVENT", pushes, t))
           \/ \E p \in offers :
                toClient' = Append(toClient, Message("INVOCATION", pushes, p))
        /\ UNCHANGED router
     \/ /\ toClient' = Append(toClient, Message("GOODBYE", 0, None))
        /\ router' = "closed"
        /\ UNCHANGED pushes
  /\ UNCHANGED <<flags, nextRequest, tables, wire, hears, offers, history>>

-----------------------------------------------------------------------------
Next == User \/ Receive \/ RouterReads \/ RouterPushes

\* The event loop of the process and the router keep reading.
FairSpec == Init /\ [][Next]_vars /\ WF_vars(Receive) /\ WF_vars(RouterReads)

-----------------------------------------------------------------------------
IsTable(table, keys, values) == DOMAIN table \subseteq keys /\ Range(table) \subseteq values

TypeOK ==
  /\ flags \in BOOLEAN \X BOOLEAN \X BOOLEAN \X BOOLEAN
  /\ nextRequest \in 0..MaxRequests
  /\ IsTable(pendingSubs, Requests, Topics) /\ IsTable(subs, Topics, Requests)
  /\ IsTable(pendingProcs, Requests, Procs) /\ IsTable(procs, Procs, Requests)
  /\ calls \subseteq Requests
  /\ half \in Seq(HalfYield)
  /\ toRouter \in Seq([half : Seq(HalfYield), msg : Messages(ClientTypes \cup {"VALUE"})])
  /\ toClient \in Seq(Messages(RouterTypes))

\* Requests of all kinds share one counter and their answers arrive in any mix
\* of success and ERROR; still the callback that runs is always the one its
\* user gave for that topic, procedure or call.
CallbacksMatch ==
  ran # None => asked[ran.req] = [what |-> ran.what, of |-> ran.of]

\* A router that keeps to the protocol makes the session throw only when its
\* answers cross a leave(): REGISTERED is then ignored (735), an INVOCATION
\* that follows it is not (789-792).
CrashesOnlyWhileLeaving == crashed => leaving

\* A router that keeps to the protocol never sends what the session throws
\* "bogus INVOCATION message for non-registered registration ID" for.
NeverBogus == ~crashed

\* Once GOODBYE is sent, by leave or as a reply, nothing follows it but the
\* YIELDs of invocations that were under way: no request, no second GOODBYE.
OnlyYieldsAfterGoodbye ==
  [][(leaving \/ ended) /\ Len(toRouter') > Len(toRouter)
       => Last(toRouter').msg.type = "YIELD"]_vars

\* An endpoint that throws, or publishes, costs the session at most one other
\* message: the next frame takes the abandoned YIELD along and leaves the
\* buffer clean.
SpoilsAtMostOne == Len(spoiled) <= failures

\* leave ends with the end callback, unless the GOODBYE itself was the message
\* an abandoned YIELD spoiled, or the session is dead in some other way.
LeaveEnds ==
  leaving ~> \/ ended \/ crashed \/ stopped \/ router = "aborted"
             \/ \E i \in DOMAIN spoiled : spoiled[i].type = "GOODBYE"
=============================================================================
