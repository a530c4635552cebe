----------------------------- MODULE WampProofs -----------------------------
(***************************************************************************)
(* What WampSession promises, for any topics, procedures and bounds.  The  *)
(* invariants build on each other: Typed; SpoilsPending (a YIELD left in   *)
(* the buffer is a failure not yet paid for); AllTruthful (what each       *)
(* message, table and callback says was asked for under its id);           *)
(* Handshake (hello, welcome and goodbye); Rising (request ids rise along  *)
(* the wire) and, on top of the last two, Accounted (until leave every     *)
(* answer on its way has its entry in the tables).                         *)
(***************************************************************************)
EXTENDS WampSession, SequenceLemmas

-----------------------------------------------------------------------------
(* Queues.                                                                  *)

LEMMA Appended ==
  ASSUME NEW S, NEW s \in Seq(S), NEW x \in S
  PROVE  /\ Append(s, x) \in Seq(S)
         /\ Len(Append(s, x)) = Len(s) + 1
         /\ \A i \in 1..Len(s) : Append(s, x)[i] = s[i]
         /\ Append(s, x)[Len(s) + 1] = x
OBVIOUS

LEMMA Taken ==
  ASSUME NEW S, NEW s \in Seq(S), s # <<>>
  PROVE  /\ Tail(s) \in Seq(S)
         /\ Len(s) \in Nat /\ Len(s) >= 1 /\ Len(Tail(s)) = Len(s) - 1
         /\ \A i \in 1..Len(Tail(s)) : i + 1 \in 1..Len(s) /\ Tail(s)[i] = s[i + 1]
         /\ Head(s) = s[1] /\ s[1] \in S
OBVIOUS

LEMMA TwoAppended ==
  ASSUME NEW S, NEW s \in Seq(S), NEW x \in S, NEW y \in S
  PROVE  s \o <<x, y>> = Append(Append(s, x), y)
OBVIOUS

LEMMA WiderSeq ==
  ASSUME NEW S, NEW T, S \subseteq T, NEW s \in Seq(S)
  PROVE  s \in Seq(T)
OBVIOUS

-----------------------------------------------------------------------------
(* Types, with what each type of message is of.                             *)

ClientSays ==
  {m \in Messages(ClientTypes \cup {"VALUE"}) :
     /\ m.type = "SUBSCRIBE" => m.of \in Topics
     /\ m.type \in {"CALL", "REGISTER"} => m.of \in Procs}

RouterSays ==
  {m \in Messages(RouterTypes) :
     /\ m.type \in {"SUBSCRIBED", "EVENT"} => m.of \in Topics
     /\ m.type \in {"RESULT", "REGISTERED", "INVOCATION"} => m.of \in Procs}

Frames == [half : Seq(HalfYield), msg : ClientSays]

WireTyped ==
  /\ half \in Seq(HalfYield)
  /\ toRouter \in Seq(Frames)
  /\ spoiled \in Seq(ClientSays)
  /\ failures \in Nat

TablesTyped ==
  /\ IsTable(pendingSubs, Requests, Topics) /\ IsTable(subs, Topics, Requests)
  /\ IsTable(pendingProcs, Requests, Procs) /\ IsTable(procs, Procs, Requests)
  /\ calls \subseteq Requests

RouterTyped ==
  /\ router \in {"waiting", "open", "closed", "aborted"}
  /\ hears \subseteq Topics /\ offers \subseteq Procs /\ pushes \in Nat

FlagsTyped ==
  /\ joined \in BOOLEAN /\ leaving \in BOOLEAN /\ stopped \in BOOLEAN
  /\ crashed \in BOOLEAN /\ ended \in BOOLEAN
  /\ nextRequest \in 0..MaxRequests

Typed ==
  /\ FlagsTyped /\ TablesTyped /\ WireTyped /\ RouterTyped
  /\ toClient \in Seq(RouterSays)

LEMMA TypedGivesTypeOK == Typed => TypeOK
<1> SUFFICES ASSUME Typed
             PROVE  TypeOK
  OBVIOUS
<1>1. flags \in BOOLEAN \X BOOLEAN \X BOOLEAN \X BOOLEAN
  BY DEF Typed, FlagsTyped, flags
<1>2. toRouter \in Seq([half : Seq(HalfYield), msg : Messages(ClientTypes \cup {"VALUE"})])
  <2>1. Frames \subseteq [half : Seq(HalfYield), msg : Messages(ClientTypes \cup {"VALUE"})]
    BY DEF Frames, ClientSays
  <2> QED
    BY <2>1, WiderSeq DEF Typed, WireTyped
<1>3. toClient \in Seq(Messages(RouterTypes))
  <2>1. RouterSays \subseteq Messages(RouterTypes)
    BY DEF RouterSays
  <2> QED
    BY <2>1, WiderSeq DEF Typed
<1> QED
  BY <1>1, <1>2, <1>3 DEF Typed, TypeOK, FlagsTyped, TablesTyped, WireTyped

\* Adding and removing an entry of a table.
LEMMA TableWith ==
  ASSUME NEW K, NEW V, NEW table, IsTable(table, K, V), NEW k \in K, NEW v \in V
  PROVE  IsTable(With(table, k, v), K, V)
BY DEF IsTable, With, Range

LEMMA TableMinus ==
  ASSUME NEW K, NEW V, NEW table, IsTable(table, K, V), NEW k
  PROVE  IsTable(Minus(table, k), K, V)
BY DEF IsTable, Minus, Range

LEMMA TableEmpty ==
  ASSUME NEW K, NEW V
  PROVE  IsTable(EmptyTable, K, V)
BY DEF IsTable, EmptyTable, Range

LEMMA TableEntry ==
  ASSUME NEW K, NEW V, NEW table, IsTable(table, K, V), NEW k \in DOMAIN table
  PROVE  k \in K /\ table[k] \in V
BY DEF IsTable, Range

LEMMA SendTyped ==
  ASSUME WireTyped, NEW m \in ClientSays, Send(m), failures' = failures
  PROVE  WireTyped'
<1>1. half' \in Seq(HalfYield)
  BY EmptyInSeq DEF Send, Cleared
<1>2. [half |-> half, msg |-> m] \in Frames
  BY DEF WireTyped, Frames
<1>3. toRouter \in Seq(Frames) /\ spoiled \in Seq(ClientSays) /\ failures \in Nat
  BY DEF WireTyped
<1>4. /\ Append(toRouter, [half |-> half, msg |-> m]) \in Seq(Frames)
      /\ Append(spoiled, m) \in Seq(ClientSays)
  BY <1>2, <1>3, Appended
<1>5. toRouter' \in Seq(Frames) /\ spoiled' \in Seq(ClientSays)
  BY <1>3, <1>4 DEF Send
<1> QED
  BY <1>1, <1>3, <1>5 DEF WireTyped

LEMMA InitTyped == Init => Typed
<1> SUFFICES ASSUME Init
             PROVE  Typed
  OBVIOUS
<1>1. FlagsTyped
  <2>1. MaxRequests \in Nat
    BY WampAssumption
  <2>2. 0 \in 0..MaxRequests
    BY <2>1
  <2> QED
    BY <2>2 DEF Init, FlagsTyped
<1>6. RouterTyped
  BY DEF Init, RouterTyped
<1>2. TablesTyped
  BY TableEmpty DEF Init, TablesTyped
<1>3. Message("HELLO", 0, None) \in ClientSays
  BY DEF Message, ClientSays, Messages, ClientTypes, Names
<1>4. <<>> \in Seq(HalfYield) /\ <<>> \in Seq(ClientSays) /\ <<>> \in Seq(RouterSays)
  BY EmptyInSeq
<1>5. WireTyped
  <2>1. [half |-> <<>>, msg |-> Message("HELLO", 0, None)] \in Frames
    BY <1>3, <1>4 DEF Frames
  <2> QED
    BY <1>4, <2>1 DEF Init, WireTyped
<1> QED
  BY <1>1, <1>2, <1>4, <1>5, <1>6 DEF Typed, Init

LEMMA UserTyped ==
  ASSUME Typed, User
  PROVE  Typed'
<1> USE WampAssumption
<1>1. nextRequest \in Nat
  BY DEF Typed, FlagsTyped
<1>2. ASSUME NEW type \in ClientTypes, NEW of \in Names, NEW what,
             Request(type, of, what),
             Message(type, nextRequest, of) \in ClientSays,
             TablesTyped'
      PROVE  Typed'
  <2>1. WireTyped'
    BY <1>2, SendTyped DEF Request, Typed
  <2>2. FlagsTyped'
    BY <1>2 DEF Request, Typed, FlagsTyped, flags
  <2> QED
    BY <1>2, <2>1, <2>2 DEF Request, Typed, RouterTyped, external
<1>4. joined /\ nextRequest < MaxRequests => nextRequest \in Requests
  BY <1>1 DEF Requests
<1>5. ASSUME NEW t \in Topics, Subscribe(t)
      PROVE  Typed'
  <2>1. Message("SUBSCRIBE", nextRequest, t) \in ClientSays
    BY <1>1 DEF Message, ClientSays, Messages, ClientTypes, Names
  <2>2. TablesTyped'
    <3>1. nextRequest \in Requests
      BY <1>4, <1>5 DEF Subscribe, Request
    <3>2. IsTable(pendingSubs', Requests, Topics)
      BY <1>5, <3>1, TableWith DEF Subscribe, Typed, TablesTyped
    <3> QED
      BY <1>5, <3>2 DEF Subscribe, Typed, TablesTyped
  <2>3. Request("SUBSCRIBE", t, "handler") /\ "SUBSCRIBE" \in ClientTypes /\ t \in Names
    BY <1>5 DEF Subscribe, ClientTypes, Names
  <2> QED
    BY <1>2, <2>1, <2>2, <2>3
<1>6. ASSUME NEW t \in Topics, Publish(t)
      PROVE  Typed'
  <2>1. Message("PUBLISH", nextRequest, t) \in ClientSays
    BY <1>1 DEF Message, ClientSays, Messages, ClientTypes, Names
  <2>2. TablesTyped'
    BY <1>6 DEF Publish, Typed, TablesTyped, tables
  <2>3. Request("PUBLISH", t, "nothing") /\ "PUBLISH" \in ClientTypes /\ t \in Names
    BY <1>6 DEF Publish, ClientTypes, Names
  <2> QED
    BY <1>2, <2>1, <2>2, <2>3
<1>7. ASSUME NEW p \in Procs, Call(p)
      PROVE  Typed'
  <2>1. Message("CALL", nextRequest, p) \in ClientSays
    BY <1>1 DEF Message, ClientSays, Messages, ClientTypes, Names
  <2>2. TablesTyped'
    <3>1. nextRequest \in Requests
      BY <1>4, <1>7 DEF Call, Request
    <3> QED
      BY <1>7, <3>1 DEF Call, Typed, TablesTyped
  <2>3. Request("CALL", p, "result") /\ "CALL" \in ClientTypes /\ p \in Names
    BY <1>7 DEF Call, ClientTypes, Names
  <2> QED
    BY <1>2, <2>1, <2>2, <2>3
<1>8. ASSUME NEW p \in Procs, Provide(p)
      PROVE  Typed'
  <2>1. Message("REGISTER", nextRequest, p) \in ClientSays
    BY <1>1 DEF Message, ClientSays, Messages, ClientTypes, Names
  <2>2. TablesTyped'
    <3>1. nextRequest \in Requests
      BY <1>4, <1>8 DEF Provide, Request
    <3>2. IsTable(pendingProcs', Requests, Procs)
      BY <1>8, <3>1, TableWith DEF Provide, Typed, TablesTyped
    <3> QED
      BY <1>8, <3>2 DEF Provide, Typed, TablesTyped
  <2>3. Request("REGISTER", p, "endpoint") /\ "REGISTER" \in ClientTypes /\ p \in Names
    BY <1>8 DEF Provide, ClientTypes, Names
  <2> QED
    BY <1>2, <2>1, <2>2, <2>3
<1>9. CASE Leave
  <2>1. Message("GOODBYE", 0, None) \in ClientSays
    BY DEF Message, ClientSays, Messages, ClientTypes, Names
  <2>2. WireTyped'
    BY <1>9, <2>1, SendTyped DEF Leave, Typed, history
  <2> QED
    BY <1>9, <2>2 DEF Leave, Typed, FlagsTyped, TablesTyped, RouterTyped, SessionIdLeft,
       tables, external, history
<1>10. CASE Stop
  BY <1>10 DEF Stop, Typed, FlagsTyped, TablesTyped, RouterTyped, WireTyped,
     tables, external, history, wire
<1> QED
  BY <1>5, <1>6, <1>7, <1>8, <1>9, <1>10 DEF User

\* The handlers change the tables, the flags and the wire; what they leave
\* alone is in Quiet.
LEMMA HandleTyped ==
  ASSUME Typed, NEW m \in RouterSays, Handle(m)
  PROVE  FlagsTyped' /\ TablesTyped' /\ WireTyped'
<1> USE WampAssumption
<1>0. /\ FlagsTyped /\ TablesTyped /\ WireTyped
      /\ m.req \in Nat /\ m.of \in Names
      /\ m.type \in {"SUBSCRIBED", "EVENT"} => m.of \in Topics
      /\ m.type \in {"RESULT", "REGISTERED", "INVOCATION"} => m.of \in Procs
  BY DEF Typed, RouterSays, Messages
<1>1. Ignore => FlagsTyped' /\ TablesTyped' /\ WireTyped'
  BY <1>0 DEF Ignore, Quiet, FlagsTyped, TablesTyped, WireTyped, flags, tables, wire
<1>2. Throw => FlagsTyped' /\ TablesTyped' /\ WireTyped'
  BY <1>0 DEF Throw, Quiet, FlagsTyped, TablesTyped, WireTyped, tables, wire
<1>3. Quiet /\ flags' = flags => FlagsTyped' /\ WireTyped'
  BY <1>0 DEF Quiet, FlagsTyped, WireTyped, flags, wire
<1>4. CASE m.type = "WELCOME" /\ OnWelcome
  BY <1>0, <1>4 DEF OnWelcome, Quiet, FlagsTyped, TablesTyped, WireTyped, tables, wire
<1>5. CASE m.type = "GOODBYE" /\ OnGoodbye
  <2>1. CASE Ignore
    BY <1>1, <2>1
  <2>2. CASE ~Ignore
    <3>1. WireTyped'
      <4>1. Message("GOODBYE", 0, None) \in ClientSays
        BY DEF Message, ClientSays, Messages, ClientTypes, Names
      <4>2. failures' = failures /\ (wire' = wire \/ Send(Message("GOODBYE", 0, None)))
        BY <1>5, <2>2 DEF OnGoodbye
      <4> QED
        BY <1>0, <4>1, <4>2, SendTyped DEF WireTyped, wire
    <3>2. TablesTyped'
      BY <1>5, <2>2, TableEmpty DEF OnGoodbye, TablesTyped
    <3>3. FlagsTyped'
      BY <1>0, <1>5, <2>2 DEF OnGoodbye, FlagsTyped
    <3> QED
      BY <3>1, <3>2, <3>3
  <2> QED
    BY <2>1, <2>2
<1>6. CASE m.type = "SUBSCRIBED" /\ OnSubscribed(m)
  <2>1. CASE Ignore \/ Throw
    BY <1>1, <1>2, <2>1
  <2>2. CASE ~(Ignore \/ Throw)
    <3>1. /\ m.req \in DOMAIN pendingSubs /\ m.of \in Topics
          /\ subs' = IF m.of \in DOMAIN subs THEN subs ELSE With(subs, m.of, m.req)
          /\ pendingSubs' = Minus(pendingSubs, m.req)
          /\ UNCHANGED <<flags, calls, pendingProcs, procs>> /\ Quiet
      BY <1>0, <1>6, <2>2 DEF OnSubscribed, Answered
    <3>2. m.req \in Requests
      BY <1>0, <3>1, TableEntry DEF TablesTyped
    <3>3. IsTable(subs', Topics, Requests)
      BY <1>0, <3>1, <3>2, TableWith DEF TablesTyped
    <3>4. IsTable(pendingSubs', Requests, Topics)
      BY <1>0, <3>1, TableMinus DEF TablesTyped
    <3> QED
      BY <1>0, <1>3, <3>1, <3>3, <3>4 DEF TablesTyped
  <2> QED
    BY <2>1, <2>2
<1>7. CASE m.type = "EVENT" /\ OnEvent(m)
  <2>1. Ignore \/ (Quiet /\ flags' = flags /\ UNCHANGED tables)
    BY <1>7 DEF OnEvent
  <2> QED
    BY <1>0, <1>1, <1>3, <2>1 DEF TablesTyped, tables
<1>8. CASE m.type = "RESULT" /\ OnResult(m)
  <2>1. Ignore \/ Throw \/ (Quiet /\ flags' = flags /\ UNCHANGED tables)
    BY <1>8 DEF OnResult
  <2> QED
    BY <1>0, <1>1, <1>2, <1>3, <2>1 DEF TablesTyped, tables
<1>9. CASE m.type = "REGISTERED" /\ OnRegistered(m)
  <2>1. CASE Ignore \/ Throw
    BY <1>1, <1>2, <2>1
  <2>2. CASE ~(Ignore \/ Throw)
    <3>1. /\ m.req \in DOMAIN pendingProcs /\ m.of \in Procs
          /\ procs' = With(procs, m.of, m.req)
          /\ pendingProcs' = Minus(pendingProcs, m.req)
          /\ UNCHANGED <<flags, pendingSubs, subs, calls>> /\ Quiet
      BY <1>0, <1>9, <2>2 DEF OnRegistered, Answered
    <3>2. m.req \in Requests
      BY <1>0, <3>1, TableEntry DEF TablesTyped
    <3>3. IsTable(procs', Procs, Requests)
      BY <1>0, <3>1, <3>2, TableWith DEF TablesTyped
    <3>4. IsTable(pendingProcs', Requests, Procs)
      BY <1>0, <3>1, TableMinus DEF TablesTyped
    <3> QED
      BY <1>0, <1>3, <3>1, <3>3, <3>4 DEF TablesTyped
  <2> QED
    BY <2>1, <2>2
<1>10. CASE m.type = "INVOCATION" /\ OnInvocation(m)
  <2>1. m.of \in Procs
    BY <1>0, <1>10
  <2>2. Begun(m) \in Seq(HalfYield)
    <3>1. [req |-> m.req, kind |-> Kind[m.of]] \in HalfYield
      BY <1>0, <2>1 DEF HalfYield
    <3> QED
      BY <1>0, <3>1, Appended DEF Begun, WireTyped
  <2>3. CASE Throw
    BY <1>2, <2>3
  <2>4. Invoke(m) /\ nextRequest' \in 0..MaxRequests => FlagsTyped' /\ TablesTyped'
    BY <1>0 DEF Invoke, FlagsTyped, TablesTyped, flags, tables
  <2>5. CASE Returns(m)
    <3>1. Message("YIELD", m.req, m.of) \in ClientSays
      BY <1>0 DEF Message, ClientSays, Messages, ClientTypes
    <3>2. WireTyped'
      BY <1>0, <2>5, <3>1, SendTyped DEF Returns
    <3> QED
      BY <1>0, <2>4, <2>5, <3>2 DEF Returns, FlagsTyped
  <2>6. CASE Throws(m)
    BY <1>0, <2>2, <2>4, <2>6 DEF Throws, FlagsTyped, WireTyped
  <2>7. ASSUME NEW t \in Topics, Publishes(m, t)
        PROVE  FlagsTyped' /\ TablesTyped' /\ WireTyped'
    <3> DEFINE publish == Message("PUBLISH", nextRequest, t)
               first   == [half |-> Begun(m), msg |-> publish]
               second  == [half |-> <<>>, msg |-> Message("VALUE", m.req, None)]
    <3>1. nextRequest \in Nat /\ nextRequest' = nextRequest + 1
          /\ nextRequest < MaxRequests /\ MaxRequests \in Nat
      BY <1>0, <2>7 DEF Publishes, FlagsTyped
    <3>2. publish \in ClientSays /\ Message("VALUE", m.req, None) \in ClientSays
      BY <1>0, <3>1 DEF Message, ClientSays, Messages, ClientTypes, Names
    <3>3. <<>> \in Seq(HalfYield)
      BY EmptyInSeq
    <3>4. first \in Frames /\ second \in Frames
      BY <2>2, <3>2, <3>3 DEF Frames
    <3>5. toRouter' = toRouter \o <<first, second>>
      BY <2>7 DEF Publishes
    <3>6. spoiled' = Append(spoiled, publish) /\ half' = <<>> /\ failures' = failures + 1
      BY <2>7 DEF Publishes
    <3> HIDE DEF first, second, publish
    <3>7. toRouter' \in Seq(Frames)
      BY <1>0, <3>4, <3>5, Concat DEF WireTyped
    <3>8. WireTyped'
      BY <1>0, <3>2, <3>3, <3>6, <3>7 DEF WireTyped
    <3>9. nextRequest' \in 0..MaxRequests
      BY <3>1
    <3> QED
      BY <2>4, <2>7, <3>8, <3>9 DEF Publishes
  <2> QED
    BY <1>10, <2>3, <2>5, <2>6, <2>7 DEF OnInvocation
<1>11. CASE OnError(m)
  BY <1>1, <1>2, <1>11 DEF OnError
<1>12. CASE m.type = "ABORT" /\ Ignore
  BY <1>1, <1>12
<1> QED
  BY <1>4, <1>5, <1>6, <1>7, <1>8, <1>9, <1>10, <1>11, <1>12 DEF Handle

LEMMA ReceiveTyped ==
  ASSUME Typed, Receive
  PROVE  Typed'
<1>1. Tail(toClient) \in Seq(RouterSays) /\ Head(toClient) \in RouterSays
  BY Taken DEF Receive, Typed
<1>2. FlagsTyped' /\ TablesTyped' /\ WireTyped'
  <2>1. CASE Ignore
    BY <2>1 DEF Ignore, Quiet, Typed, FlagsTyped, TablesTyped, WireTyped, flags, tables, wire
  <2>2. CASE Handle(Head(toClient))
    BY <1>1, <2>2, HandleTyped
  <2> QED
    BY <2>1, <2>2 DEF Receive
<1> QED
  BY <1>1, <1>2 DEF Receive, Typed, RouterTyped, external

LEMMA ServeTyped ==
  ASSUME Typed, NEW m \in ClientSays, Serve(m)
  PROVE  /\ toClient' \in Seq(RouterSays)
         /\ router' \in {"waiting", "open", "closed", "aborted"}
         /\ hears' \subseteq Topics /\ offers' \subseteq Procs
<1>1. m.req \in Nat /\ m.of \in Names
  BY DEF ClientSays, Messages
<1>2. ASSUME NEW type \in RouterTypes, Reply(type, m),
             type \in {"SUBSCRIBED", "EVENT"} => m.of \in Topics,
             type \in {"RESULT", "REGISTERED", "INVOCATION"} => m.of \in Procs
      PROVE  toClient' \in Seq(RouterSays)
  <2>1. Message(type, m.req, m.of) \in RouterSays
    BY <1>1, <1>2 DEF Message, RouterSays, Messages
  <2> QED
    BY <1>2, <2>1, Appended DEF Reply, Typed
<1>3. toClient' \in Seq(RouterSays)
  BY <1>2 DEF Serve, Typed, ClientSays, RouterTypes
<1>4. /\ router' \in {"waiting", "open", "closed", "aborted"}
      /\ hears' \subseteq Topics /\ offers' \subseteq Procs
  BY DEF Serve, Typed, RouterTyped, ClientSays
<1> QED
  BY <1>3, <1>4

LEMMA RouterTypedStep ==
  ASSUME Typed, RouterReads \/ RouterPushes
  PROVE  Typed'
<1>1. CASE RouterReads
  <2>1. Tail(toRouter) \in Seq(Frames) /\ Head(toRouter) \in Frames /\ toRouter' = Tail(toRouter)
    BY <1>1, Taken DEF RouterReads, Typed, WireTyped
  <2>2. FlagsTyped' /\ TablesTyped' /\ WireTyped'
    BY <1>1, <2>1 DEF RouterReads, Typed, FlagsTyped, TablesTyped, WireTyped, flags, tables, history
  <2>3. Head(toRouter).msg \in ClientSays
    BY <2>1 DEF Frames
  <2>4. CASE Readable(Head(toRouter)) /\ Serve(Read(Head(toRouter)))
    <3>1. Read(Head(toRouter)) \in ClientSays
      <4>1. Head(toRouter).half \in Seq(HalfYield)
        BY <2>1 DEF Frames
      <4>2. Head(toRouter).half # <<>> => Head(toRouter).half[1] \in HalfYield
        BY <4>1, Taken
      <4>3. \A h \in HalfYield : h.req \in Nat
        BY DEF HalfYield
      <4> QED
        BY <2>3, <4>2, <4>3 DEF Read, Message, ClientSays, Messages, ClientTypes, Names
    <3> QED
      BY <1>1, <2>2, <2>4, <3>1, ServeTyped DEF RouterReads, Typed, RouterTyped
  <2>5. CASE /\ router' = "aborted" /\ Reply("ABORT", Head(toRouter).msg)
             /\ UNCHANGED <<hears, offers>>
    <3>1. Message("ABORT", Head(toRouter).msg.req, Head(toRouter).msg.of) \in RouterSays
      BY <2>3 DEF Message, ClientSays, RouterSays, RouterTypes, Messages
    <3>2. toClient' \in Seq(RouterSays)
      BY <2>5, <3>1, Appended DEF Reply, Typed
    <3> QED
      BY <1>1, <2>2, <2>5, <3>2 DEF RouterReads, Typed, RouterTyped
  <2>6. CASE UNCHANGED <<router, hears, offers, toClient>>
    BY <1>1, <2>2, <2>6 DEF RouterReads, Typed, RouterTyped
  <2> QED
    BY <1>1, <2>4, <2>5, <2>6 DEF RouterReads
<1>2. CASE RouterPushes
  <2>1. FlagsTyped' /\ TablesTyped' /\ WireTyped'
    BY <1>2 DEF RouterPushes, Typed, FlagsTyped, TablesTyped, WireTyped, flags, tables, wire, history
  <2>2. RouterTyped'
    BY <1>2 DEF RouterPushes, Typed, RouterTyped
  <2>3. pushes \in Nat /\ hears \subseteq Topics /\ offers \subseteq Procs
    BY DEF Typed, RouterTyped
  <2>4. /\ \A t \in hears : Message("EVENT", pushes, t) \in RouterSays
        /\ \A p \in offers : Message("INVOCATION", pushes, p) \in RouterSays
        /\ Message("GOODBYE", 0, None) \in RouterSays
    BY <2>3 DEF Message, RouterSays, RouterTypes, Messages, Names
  <2>5. toClient' \in Seq(RouterSays)
    BY <1>2, <2>4, Appended DEF RouterPushes, Typed
  <2> QED
    BY <2>1, <2>2, <2>5 DEF Typed
<1> QED
  BY <1>1, <1>2

LEMMA NextTyped == Typed /\ [Next]_vars => Typed'
<1> SUFFICES ASSUME Typed, [Next]_vars
             PROVE  Typed'
  OBVIOUS
<1>1. CASE UNCHANGED vars
  BY <1>1 DEF vars, flags, tables, wire, external, history, Typed, FlagsTyped, TablesTyped,
     WireTyped, RouterTyped
<1> QED
  BY <1>1, UserTyped, ReceiveTyped, RouterTypedStep DEF Next

\* Every message the session sends and gets is of a name of its kind, and the
\* tables hold requests, topics and procedures where they should.
THEOREM TypeCorrect == FairSpec => []TypeOK
<1>1. FairSpec => []Typed
  BY InitTyped, NextTyped, PTL DEF FairSpec
<1> QED
  BY <1>1, TypedGivesTypeOK, PTL

-----------------------------------------------------------------------------
(* An abandoned YIELD spoils one message at most.                           *)

\* A YIELD in the buffer is a failure that has not cost a message yet.
SpoilsPending == Len(spoiled) + (IF half = <<>> THEN 0 ELSE 1) <= failures

LEMMA SendSpoils ==
  ASSUME Typed, SpoilsPending, NEW m \in ClientSays, Send(m), failures' = failures
  PROVE  SpoilsPending'
<1>1. Len(spoiled) \in Nat /\ Len(Append(spoiled, m)) = Len(spoiled) + 1
  BY Appended DEF Typed, WireTyped
<1>2. half' = <<>> /\ (spoiled' = spoiled \/ (half # <<>> /\ spoiled' = Append(spoiled, m)))
  BY DEF Send, Cleared
<1> QED
  BY <1>1, <1>2 DEF SpoilsPending, Typed, WireTyped

\* The messages the session sends, whatever the case.
LEMMA Sayable ==
  /\ \A type \in ClientTypes \ {"SUBSCRIBE", "CALL", "REGISTER"}, req \in Nat, of \in Names :
       Message(type, req, of) \in ClientSays
  /\ \A req \in Nat, t \in Topics : Message("SUBSCRIBE", req, t) \in ClientSays
  /\ \A req \in Nat, p \in Procs :
       Message("CALL", req, p) \in ClientSays /\ Message("REGISTER", req, p) \in ClientSays
  /\ Topics \subseteq Names /\ Procs \subseteq Names /\ None \in Names
BY DEF Message, ClientSays, Messages, ClientTypes, Names

LEMMA SpoilsInv == Typed /\ SpoilsPending /\ [Next]_vars => SpoilsPending'
<1> SUFFICES ASSUME Typed, SpoilsPending, [Next]_vars
             PROVE  SpoilsPending'
  OBVIOUS
<1>0. /\ Len(spoiled) \in Nat /\ failures \in Nat /\ nextRequest \in Nat
      /\ spoiled \in Seq(ClientSays)
  BY WampAssumption DEF Typed, WireTyped, FlagsTyped
<1>1. UNCHANGED <<half, spoiled, failures>> => SpoilsPending'
  BY DEF SpoilsPending
<1>2. CASE User
  <2>1. CASE \E t \in Topics : Subscribe(t) \/ Publish(t)
    BY <1>0, <2>1, SendSpoils, Sayable DEF Subscribe, Publish, Request, ClientTypes
  <2>2. CASE \E p \in Procs : Call(p) \/ Provide(p)
    BY <1>0, <2>2, SendSpoils, Sayable DEF Call, Provide, Request
  <2>3. CASE Leave
    BY <2>3, SendSpoils, Sayable DEF Leave, history, ClientTypes
  <2>4. CASE Stop
    BY <1>1, <2>4 DEF Stop, wire, history
  <2> QED
    BY <1>2, <2>1, <2>2, <2>3, <2>4 DEF User
<1>3. ASSUME NEW m \in RouterSays, Handle(m)
      PROVE  SpoilsPending'
  <2>1. Quiet => SpoilsPending'
    BY <1>1 DEF Quiet, wire
  <2>2. CASE OnGoodbye
    BY <1>1, <2>1, <2>2, SendSpoils, Sayable DEF OnGoodbye, Ignore, wire, ClientTypes
  <2>3. CASE Returns(m)
    <3>1. m.req \in Nat /\ m.of \in Names
      BY DEF RouterSays, Messages
    <3> QED
      BY <2>3, <3>1, SendSpoils, Sayable DEF Returns, ClientTypes
  <2>4. CASE Throws(m)
    BY <1>0, <2>4 DEF Throws, SpoilsPending
  <2>5. ASSUME NEW t \in Topics, Publishes(m, t)
        PROVE  SpoilsPending'
    <3>1. Message("PUBLISH", nextRequest, t) \in ClientSays
      BY <1>0, Sayable DEF ClientTypes
    <3>2. /\ spoiled' = Append(spoiled, Message("PUBLISH", nextRequest, t))
          /\ half' = <<>> /\ failures' = failures + 1
      BY <2>5 DEF Publishes
    <3>3. Len(spoiled') = Len(spoiled) + 1
      BY <1>0, <3>1, <3>2, Appended
    <3> QED
      BY <1>0, <3>2, <3>3 DEF SpoilsPending
  <2> QED
    BY <1>3, <2>1, <2>2, <2>3, <2>4, <2>5
       DEF Handle, OnWelcome, OnSubscribed, OnEvent, OnResult, OnRegistered, OnInvocation,
           OnError, Ignore, Throw
<1>4. CASE Receive
  <2>1. Head(toClient) \in RouterSays
    BY <1>4, Taken DEF Receive, Typed
  <2> QED
    BY <1>1, <1>3, <1>4, <2>1 DEF Receive, Ignore, Quiet, wire
<1>5. CASE RouterReads
  BY <1>1, <1>5 DEF RouterReads, history
<1>6. CASE RouterPushes
  BY <1>1, <1>6 DEF RouterPushes, wire, history
<1>7. CASE UNCHANGED vars
  BY <1>1, <1>7 DEF vars, wire, history
<1> QED
  BY <1>2, <1>4, <1>5, <1>6, <1>7 DEF Next

\* An endpoint that throws or publishes spoils at most one other message: the
\* buffer is clean again after every frame.
THEOREM OneSpoiledEach == FairSpec => []SpoilsAtMostOne
<1>1. Init => SpoilsPending
  BY DEF Init, SpoilsPending
<1>2. Typed /\ SpoilsPending => SpoilsAtMostOne
  BY DEF Typed, WireTyped, SpoilsPending, SpoilsAtMostOne
<1> QED
  BY <1>1, <1>2, InitTyped, NextTyped, SpoilsInv, PTL DEF FairSpec
-----------------------------------------------------------------------------
(* The callback that runs is the one that was asked for.                    *)

Asked(req, what, of) ==
  req \in DOMAIN asked /\ asked[req] = [what |-> what, of |-> of]

\* A request or its success says what was asked for under its id.
Truthful(m) ==
  /\ m.type \in {"SUBSCRIBE", "SUBSCRIBED"} => Asked(m.req, "handler", m.of)
  /\ m.type \in {"CALL", "RESULT"} => Asked(m.req, "result", m.of)
  /\ m.type \in {"REGISTER", "REGISTERED"} => Asked(m.req, "endpoint", m.of)

Truths == {m \in ClientSays \cup RouterSays : Truthful(m)}

AskedSoFar == DOMAIN asked = 0..(nextRequest - 1)
FramesTruthful == \A i \in 1..Len(toRouter) : toRouter[i].msg \in Truths
AnswersTruthful == \A i \in 1..Len(toClient) : toClient[i] \in Truths
TablesTruthful ==
  /\ \A t \in DOMAIN subs : Asked(subs[t], "handler", t)
  /\ \A p \in DOMAIN procs : Asked(procs[p], "endpoint", p)
RanTruthful == ran # None => Asked(ran.req, ran.what, ran.of)

AllTruthful ==
  AskedSoFar /\ FramesTruthful /\ AnswersTruthful /\ TablesTruthful /\ RanTruthful

\* What was asked for stays on record.
Remembered == \A req, what, of : Asked(req, what, of) => Asked(req, what, of)'

LEMMA NewRequest ==
  ASSUME AskedSoFar, nextRequest \in Nat, nextRequest' = nextRequest + 1,
         NEW what, NEW of, asked' = With(asked, nextRequest, [what |-> what, of |-> of])
  PROVE  AskedSoFar' /\ Remembered /\ \A n : n = nextRequest => Asked(n, what, of)'
<1>1. DOMAIN asked' = DOMAIN asked \cup {nextRequest}
  BY DEF With
<1>2. nextRequest \notin DOMAIN asked
  BY DEF AskedSoFar
<1>3. AskedSoFar'
  <2>1. (0..(nextRequest - 1)) \cup {nextRequest} = 0..nextRequest
    OBVIOUS
  <2>2. nextRequest' - 1 = nextRequest
    OBVIOUS
  <2> QED
    BY <1>1, <2>1, <2>2 DEF AskedSoFar
<1>4. /\ \A req \in DOMAIN asked : asked'[req] = asked[req]
      /\ asked'[nextRequest] = [what |-> what, of |-> of]
  BY <1>2 DEF With
<1>5. Remembered
  BY <1>1, <1>4 DEF Remembered, Asked
<1>6. ASSUME NEW n, n = nextRequest
      PROVE  Asked(n, what, of)'
  BY <1>1, <1>4, <1>6 DEF Asked
<1> QED
  BY <1>3, <1>5, <1>6

LEMMA OldRequests ==
  ASSUME UNCHANGED <<nextRequest, asked>>
  PROVE  Remembered /\ (AskedSoFar => AskedSoFar')
BY DEF Remembered, Asked, AskedSoFar
LEMMA StaysTruthful ==
  ASSUME Remembered
  PROVE  /\ Truths \subseteq Truths'
         /\ UNCHANGED <<subs, procs>> /\ TablesTruthful => TablesTruthful'
         /\ ran' = ran /\ RanTruthful => RanTruthful'
<1>1. Truths \subseteq Truths'
  BY DEF Remembered, Truthful, Truths
<1>2. UNCHANGED <<subs, procs>> /\ TablesTruthful => TablesTruthful'
  BY DEF Remembered, TablesTruthful
<1>3. ran' = ran /\ RanTruthful => RanTruthful'
  BY DEF Remembered, RanTruthful
<1> QED
  BY <1>1, <1>2, <1>3

\* One frame more, one less.
LEMMA FramesStayTruthful ==
  ASSUME Remembered, FramesTruthful, toRouter \in Seq(Frames)
  PROVE  /\ toRouter' = toRouter => FramesTruthful'
         /\ toRouter # <<>> /\ toRouter' = Tail(toRouter) => FramesTruthful'
         /\ \A f \in Frames : toRouter' = Append(toRouter, f) /\ f.msg \in Truths' => FramesTruthful'
<1>1. \A i \in 1..Len(toRouter) : toRouter[i].msg \in Truths'
  BY StaysTruthful DEF FramesTruthful
<1>2. toRouter' = toRouter => FramesTruthful'
  BY <1>1 DEF FramesTruthful
<1>3. ASSUME toRouter # <<>>, toRouter' = Tail(toRouter)
      PROVE  FramesTruthful'
  BY <1>1, <1>3, Taken DEF FramesTruthful
<1>4. ASSUME NEW f \in Frames, toRouter' = Append(toRouter, f), f.msg \in Truths'
      PROVE  FramesTruthful'
  BY <1>1, <1>4, Appended DEF FramesTruthful
<1> QED
  BY <1>2, <1>3, <1>4

LEMMA AnswersStayTruthful ==
  ASSUME Remembered, AnswersTruthful, toClient \in Seq(RouterSays)
  PROVE  /\ toClient' = toClient => AnswersTruthful'
         /\ toClient # <<>> /\ toClient' = Tail(toClient) => AnswersTruthful'
         /\ \A m \in RouterSays : toClient' = Append(toClient, m) /\ m \in Truths => AnswersTruthful'
<1>1. \A i \in 1..Len(toClient) : toClient[i] \in Truths'
  BY StaysTruthful DEF AnswersTruthful
<1>2. toClient' = toClient => AnswersTruthful'
  BY <1>1 DEF AnswersTruthful
<1>3. ASSUME toClient # <<>>, toClient' = Tail(toClient)
      PROVE  AnswersTruthful'
  BY <1>1, <1>3, Taken DEF AnswersTruthful
<1>4. ASSUME NEW m \in RouterSays, toClient' = Append(toClient, m), m \in Truths
      PROVE  AnswersTruthful'
  BY <1>1, <1>4, Appended, StaysTruthful DEF AnswersTruthful
<1> QED
  BY <1>2, <1>3, <1>4
\* A message that asks for nothing is true of anything.
LEMMA OthersTruthful ==
  ASSUME NEW m \in ClientSays,
         m.type \in {"HELLO", "GOODBYE", "PUBLISH", "YIELD", "VALUE"}
  PROVE  m \in Truths'
BY DEF Truths, Truthful

LEMMA SendTruthful ==
  ASSUME Typed, FramesTruthful, Remembered, NEW m \in ClientSays, m \in Truths', Send(m)
  PROVE  FramesTruthful'
<1>1. toRouter \in Seq(Frames) /\ half \in Seq(HalfYield)
  BY DEF Typed, WireTyped
<1>2. [half |-> half, msg |-> m] \in Frames
  BY <1>1 DEF Frames
<1>3. toRouter' = toRouter \/ toRouter' = Append(toRouter, [half |-> half, msg |-> m])
  BY DEF Send
<1> QED
  BY <1>1, <1>2, <1>3, FramesStayTruthful

LEMMA RequestTruthful ==
  ASSUME Typed, AllTruthful, UNCHANGED <<subs, procs>>,
         NEW type, NEW of, NEW what, Request(type, of, what),
         Message(type, nextRequest, of) \in ClientSays,
         <<type, what>> \in {<<"SUBSCRIBE", "handler">>, <<"CALL", "result">>,
                             <<"PUBLISH", "nothing">>, <<"REGISTER", "endpoint">>}
  PROVE  AllTruthful'
<1>0. nextRequest \in Nat
  BY WampAssumption DEF Typed, FlagsTyped
<1>1. AskedSoFar' /\ Remembered /\ \A n : n = nextRequest => Asked(n, what, of)'
  BY <1>0, NewRequest DEF Request, AllTruthful
<1>2. ASSUME NEW m, m = Message(type, nextRequest, of)
      PROVE  m \in Truths'
  BY <1>1, <1>2 DEF Truths, Truthful, Message
<1>3. FramesTruthful'
  BY <1>1, <1>2, SendTruthful DEF Request, AllTruthful
<1>4. AnswersTruthful' /\ TablesTruthful' /\ RanTruthful'
  BY <1>1, StaysTruthful, AnswersStayTruthful DEF Request, AllTruthful, Typed
<1> QED
  BY <1>1, <1>3, <1>4 DEF AllTruthful

LEMMA UserTruthful ==
  ASSUME Typed, AllTruthful, User
  PROVE  AllTruthful'
<1>0. nextRequest \in Nat
  BY WampAssumption DEF Typed, FlagsTyped
<1>1. ASSUME NEW t \in Topics, Subscribe(t)
      PROVE  AllTruthful'
  BY <1>0, <1>1, RequestTruthful, Sayable DEF Subscribe
<1>2. ASSUME NEW t \in Topics, Publish(t)
      PROVE  AllTruthful'
  BY <1>0, <1>2, RequestTruthful, Sayable DEF Publish, ClientTypes, tables
<1>3. ASSUME NEW p \in Procs, Call(p)
      PROVE  AllTruthful'
  BY <1>0, <1>3, RequestTruthful, Sayable DEF Call
<1>4. ASSUME NEW p \in Procs, Provide(p)
      PROVE  AllTruthful'
  BY <1>0, <1>4, RequestTruthful, Sayable DEF Provide
<1>5. ASSUME UNCHANGED <<nextRequest, asked, subs, procs, ran, toClient>>, FramesTruthful'
      PROVE  AllTruthful'
  BY <1>5, OldRequests, StaysTruthful, AnswersStayTruthful DEF AllTruthful, Typed
<1>6. CASE Leave
  <2>1. Message("GOODBYE", 0, None) \in ClientSays
    BY Sayable DEF ClientTypes
  <2>2. Message("GOODBYE", 0, None) \in Truths'
    BY <2>1, OthersTruthful DEF Message
  <2>3. UNCHANGED <<nextRequest, asked, subs, procs, ran, toClient>>
    BY <1>6 DEF Leave, tables, history
  <2>4. FramesTruthful'
    BY <1>6, <2>1, <2>2, <2>3, OldRequests, SendTruthful DEF Leave, AllTruthful
  <2> QED
    BY <1>5, <2>3, <2>4
<1>7. CASE Stop
  <2>1. UNCHANGED <<nextRequest, asked, subs, procs, ran, toClient, toRouter>>
    BY <1>7 DEF Stop, tables, history, wire
  <2>2. FramesTruthful'
    BY <2>1, OldRequests, FramesStayTruthful DEF AllTruthful, Typed, WireTyped
  <2> QED
    BY <1>5, <2>1, <2>2
<1> QED
  BY <1>1, <1>2, <1>3, <1>4, <1>6, <1>7 DEF User

LEMMA HandleTruthful ==
  ASSUME Typed, AllTruthful, NEW m \in RouterSays, m \in Truths, Handle(m)
  PROVE  /\ Remembered /\ AskedSoFar'
         /\ FramesTruthful' /\ TablesTruthful' /\ RanTruthful'
<1> DEFINE Goal == /\ Remembered /\ AskedSoFar'
                   /\ FramesTruthful' /\ TablesTruthful' /\ RanTruthful'
<1>0. /\ toRouter \in Seq(Frames) /\ nextRequest \in Nat
      /\ m.req \in Nat /\ m.of \in Names /\ Truthful(m)
  BY WampAssumption DEF Typed, WireTyped, FlagsTyped, RouterSays, Messages, Truths
<1>1. ASSUME UNCHANGED <<nextRequest, asked>>
      PROVE  Remembered /\ AskedSoFar'
  BY <1>1, OldRequests DEF AllTruthful
<1>2. ASSUME Quiet
      PROVE  Remembered /\ AskedSoFar' /\ FramesTruthful'
  BY <1>0, <1>1, <1>2, FramesStayTruthful DEF Quiet, wire, AllTruthful
<1>3. ASSUME Quiet, UNCHANGED <<subs, procs, ran>>
      PROVE  Goal
  BY <1>2, <1>3, StaysTruthful DEF AllTruthful
<1>4. CASE Ignore \/ Throw \/ OnWelcome
  BY <1>3, <1>4 DEF Ignore, Throw, OnWelcome, tables
<1>5. CASE m.type = "GOODBYE" /\ OnGoodbye /\ ~Ignore
  <2>1. UNCHANGED <<nextRequest, asked, ran>> /\ subs' = EmptyTable /\ procs' = EmptyTable
    BY <1>5 DEF OnGoodbye
  <2>2. Message("GOODBYE", 0, None) \in ClientSays
    BY Sayable DEF ClientTypes
  <2>3. Message("GOODBYE", 0, None) \in Truths'
    BY <2>2, OthersTruthful DEF Message
  <2>4. toRouter' = toRouter \/ Send(Message("GOODBYE", 0, None))
    BY <1>5 DEF OnGoodbye, wire
  <2>5. FramesTruthful'
    BY <1>0, <1>1, <2>1, <2>2, <2>3, <2>4, SendTruthful, FramesStayTruthful DEF AllTruthful
  <2>6. TablesTruthful'
    BY <2>1 DEF TablesTruthful, EmptyTable
  <2> QED
    BY <1>1, <2>1, <2>5, <2>6, StaysTruthful DEF AllTruthful
<1>6. CASE m.type = "SUBSCRIBED" /\ OnSubscribed(m) /\ ~(Ignore \/ Throw)
  <2>1. /\ subs' = IF m.of \in DOMAIN subs THEN subs ELSE With(subs, m.of, m.req)
        /\ UNCHANGED <<procs, ran, asked>> /\ Quiet
    BY <1>6 DEF OnSubscribed, Answered, Quiet
  <2>2. Asked(m.req, "handler", m.of)
    BY <1>0, <1>6 DEF Truthful
  <2>3. TablesTruthful'
    BY <2>1, <2>2 DEF TablesTruthful, AllTruthful, With, Asked
  <2> QED
    BY <1>2, <2>1, <2>3, StaysTruthful DEF AllTruthful
<1>7. CASE m.type = "REGISTERED" /\ OnRegistered(m) /\ ~(Ignore \/ Throw)
  <2>1. /\ procs' = With(procs, m.of, m.req)
        /\ UNCHANGED <<subs, ran, asked>> /\ Quiet
    BY <1>7 DEF OnRegistered, Answered, Quiet
  <2>2. Asked(m.req, "endpoint", m.of)
    BY <1>0, <1>7 DEF Truthful
  <2>3. TablesTruthful'
    BY <2>1, <2>2 DEF TablesTruthful, AllTruthful, With, Asked
  <2> QED
    BY <1>2, <2>1, <2>3, StaysTruthful DEF AllTruthful
<1>8. ASSUME NEW what, NEW of, NEW req, Asked(req, what, of), Run(what, of, req), Remembered
      PROVE  RanTruthful'
  BY <1>8 DEF Run, RanTruthful, Remembered
<1>9. CASE m.type = "EVENT" /\ OnEvent(m) /\ ~Ignore
  <2>1. /\ m.of \in DOMAIN subs /\ Run("handler", m.of, subs[m.of])
        /\ Quiet /\ UNCHANGED <<subs, procs>>
    BY <1>9 DEF OnEvent, tables
  <2>2. Asked(subs[m.of], "handler", m.of)
    BY <2>1 DEF AllTruthful, TablesTruthful
  <2> QED
    BY <1>2, <1>8, <2>1, <2>2, StaysTruthful DEF AllTruthful
<1>10. CASE m.type = "RESULT" /\ OnResult(m) /\ ~(Ignore \/ Throw)
  <2>1. Run("result", m.of, m.req) /\ Quiet /\ UNCHANGED <<subs, procs>>
    BY <1>10 DEF OnResult, tables
  <2>2. Asked(m.req, "result", m.of)
    BY <1>0, <1>10 DEF Truthful
  <2> QED
    BY <1>2, <1>8, <2>1, <2>2, StaysTruthful DEF AllTruthful
<1>11. CASE m.type = "INVOCATION" /\ OnInvocation(m) /\ ~Throw
  <2>1. ASSUME Invoke(m), Remembered
        PROVE  TablesTruthful' /\ RanTruthful'
    <3>1. Asked(procs[m.of], "endpoint", m.of)
      BY <2>1 DEF Invoke, AllTruthful, TablesTruthful
    <3> QED
      BY <1>8, <2>1, <3>1, StaysTruthful DEF Invoke, AllTruthful, tables
  <2>2. CASE Returns(m)
    <3>1. Message("YIELD", m.req, m.of) \in ClientSays
      BY <1>0, Sayable DEF ClientTypes
    <3>2. Message("YIELD", m.req, m.of) \in Truths'
      BY <3>1, OthersTruthful DEF Message
    <3>3. Remembered /\ AskedSoFar'
      BY <1>1, <2>2 DEF Returns
    <3>4. FramesTruthful'
      BY <2>2, <3>1, <3>2, <3>3, SendTruthful DEF Returns, AllTruthful
    <3> QED
      BY <2>1, <2>2, <3>3, <3>4 DEF Returns
  <2>3. CASE Throws(m)
    BY <1>0, <1>1, <2>1, <2>3, FramesStayTruthful DEF Throws, AllTruthful
  <2>4. ASSUME NEW t \in Topics, Publishes(m, t)
        PROVE  Goal
    <3> DEFINE publish == Message("PUBLISH", nextRequest, t)
               value   == Message("VALUE", m.req, None)
               first   == [half |-> Begun(m), msg |-> publish]
               second  == [half |-> <<>>, msg |-> value]
    <3>1. AskedSoFar' /\ Remembered
      BY <1>0, <2>4, NewRequest DEF Publishes, AllTruthful
    <3>2. TablesTruthful' /\ RanTruthful'
      BY <2>1, <2>4, <3>1 DEF Publishes
    <3>3. publish \in ClientSays /\ value \in ClientSays
      BY <1>0, Sayable DEF ClientTypes, Message, ClientSays, Messages
    <3>4. publish \in Truths' /\ value \in Truths'
      <4>1. publish.type = "PUBLISH" /\ value.type = "VALUE"
        BY DEF Message
      <4> QED
        BY <3>3, <4>1 DEF Truths, Truthful
    <3>5. toRouter' = toRouter \o <<first, second>>
      BY <2>4 DEF Publishes
    <3>6. first.msg = publish /\ second.msg = value
      OBVIOUS
    <3> HIDE DEF first, second, publish, value
    <3>7. /\ Len(toRouter') = Len(toRouter) + 2
          /\ \A i \in 1..Len(toRouter) : toRouter'[i] = toRouter[i]
          /\ toRouter'[Len(toRouter) + 1] = first /\ toRouter'[Len(toRouter) + 2] = second
      BY <1>0, <3>5
    <3>8. \A i \in 1..Len(toRouter) : toRouter[i].msg \in Truths'
      BY <3>1, StaysTruthful DEF AllTruthful, FramesTruthful
    <3>9. Len(toRouter) \in Nat
      BY <1>0
    <3>10. FramesTruthful'
      BY <3>4, <3>6, <3>7, <3>8, <3>9 DEF FramesTruthful
    <3> QED
      BY <3>1, <3>2, <3>10
  <2> QED
    BY <1>11, <2>2, <2>3, <2>4 DEF OnInvocation
<1>12. CASE OnError(m)
  BY <1>4, <1>12 DEF OnError
<1> QED
  BY <1>4, <1>5, <1>6, <1>7, <1>9, <1>10, <1>11, <1>12 DEF Handle

LEMMA ReceiveTruthful ==
  ASSUME Typed, AllTruthful, Receive
  PROVE  AllTruthful'
<1>1. Head(toClient) \in RouterSays /\ Head(toClient) \in Truths
  BY Taken DEF Receive, Typed, AllTruthful, AnswersTruthful
<1>2. /\ Remembered /\ AskedSoFar'
      /\ FramesTruthful' /\ TablesTruthful' /\ RanTruthful'
  <2>1. CASE Ignore
    <3>1. Remembered /\ AskedSoFar'
      BY <2>1, OldRequests DEF Ignore, Quiet, AllTruthful
    <3> QED
      BY <2>1, <3>1, StaysTruthful, FramesStayTruthful
         DEF Ignore, Quiet, wire, tables, AllTruthful, Typed, WireTyped
  <2>2. CASE Handle(Head(toClient))
    BY <1>1, <2>2, HandleTruthful
  <2> QED
    BY <2>1, <2>2 DEF Receive
<1>3. AnswersTruthful'
  BY <1>2, AnswersStayTruthful DEF Receive, AllTruthful, Typed
<1> QED
  BY <1>2, <1>3 DEF AllTruthful
LEMMA RouterReadsTruthful ==
  ASSUME Typed, AllTruthful, RouterReads
  PROVE  AllTruthful'
<1> DEFINE frame == Head(toRouter)
<1>1. frame \in Frames /\ frame.msg \in Truths /\ frame.msg \in ClientSays
  <2>1. toRouter \in Seq(Frames) /\ toRouter # <<>>
    BY DEF RouterReads, Typed, WireTyped
  <2>2. frame \in Frames /\ frame = toRouter[1] /\ 1 \in 1..Len(toRouter)
    BY <2>1, Taken
  <2> QED
    BY <2>2 DEF AllTruthful, FramesTruthful, Frames
<1>2. UNCHANGED <<nextRequest, asked, subs, procs, ran>> /\ toRouter' = Tail(toRouter)
  BY DEF RouterReads, tables, history
<1>3. Remembered /\ AskedSoFar' /\ TablesTruthful' /\ RanTruthful' /\ FramesTruthful'
  BY <1>2, OldRequests, StaysTruthful, FramesStayTruthful
     DEF RouterReads, AllTruthful, Typed, WireTyped
<1>4. toClient' = toClient => AnswersTruthful'
  BY <1>3, AnswersStayTruthful DEF AllTruthful, Typed
<1>5. ASSUME NEW type, NEW m, Reply(type, m), Message(type, m.req, m.of) \in RouterSays,
             Truthful(Message(type, m.req, m.of))
      PROVE  AnswersTruthful'
  BY <1>3, <1>5, AnswersStayTruthful DEF Reply, AllTruthful, Typed, Truths
<1>6. frame.msg.req \in Nat /\ frame.msg.of \in Names
  BY <1>1 DEF ClientSays, Messages
<1>7. \A type \in RouterTypes \ {"SUBSCRIBED", "EVENT", "RESULT", "REGISTERED", "INVOCATION"},
         req \in Nat, of \in Names :
        /\ Message(type, req, of) \in RouterSays
        /\ Truthful(Message(type, req, of))
  BY DEF Message, RouterSays, Messages, Truthful, RouterTypes
<1>8. CASE Readable(frame) /\ Serve(Read(frame))
  <2>1. CASE frame.half = <<>>
    <3>0. Read(frame) = frame.msg
      BY <2>1 DEF Read
    <3> HIDE DEF frame
    <3> DEFINE m == frame.msg
    <3>1. Serve(m) /\ m \in Truths /\ m \in ClientSays /\ m.req \in Nat /\ m.of \in Names
      BY <1>1, <1>6, <1>8, <3>0
    <3> HIDE DEF m
    <3>2. CASE m.type = "SUBSCRIBE" /\ Reply("SUBSCRIBED", m)
      <4>1. Message("SUBSCRIBED", m.req, m.of) \in RouterSays
        BY <3>1, <3>2 DEF Message, RouterSays, ClientSays, Messages, RouterTypes
      <4>2. Truthful(Message("SUBSCRIBED", m.req, m.of))
        BY <3>1, <3>2 DEF Message, Truthful, Truths
      <4> QED
        BY <1>3, <1>5, <3>2, <4>1, <4>2 DEF AllTruthful
    <3>3. CASE m.type = "REGISTER" /\ Reply("REGISTERED", m)
      <4>1. Message("REGISTERED", m.req, m.of) \in RouterSays
        BY <3>1, <3>3 DEF Message, RouterSays, ClientSays, Messages, RouterTypes
      <4>2. Truthful(Message("REGISTERED", m.req, m.of))
        BY <3>1, <3>3 DEF Message, Truthful, Truths
      <4> QED
        BY <1>3, <1>5, <3>3, <4>1, <4>2 DEF AllTruthful
    <3>4. CASE m.type = "CALL" /\ Reply("RESULT", m)
      <4>1. Message("RESULT", m.req, m.of) \in RouterSays
        BY <3>1, <3>4 DEF Message, RouterSays, ClientSays, Messages, RouterTypes
      <4>2. Truthful(Message("RESULT", m.req, m.of))
        BY <3>1, <3>4 DEF Message, Truthful, Truths
      <4> QED
        BY <1>3, <1>5, <3>4, <4>1, <4>2 DEF AllTruthful
    <3>5. \A type \in {"WELCOME", "ABORT", "GOODBYE", "SUBSCRIBE-ERROR", "REGISTER-ERROR",
                      "CALL-ERROR"} : Reply(type, m) => AnswersTruthful'
      BY <1>5, <1>7, <3>1 DEF RouterTypes
    <3>6. CASE AnswersTruthful'
      BY <1>3, <3>6 DEF AllTruthful
    <3> QED
      BY <1>4, <3>1, <3>2, <3>3, <3>4, <3>5, <3>6 DEF Serve
  <2>2. CASE frame.half # <<>>
    <3>1. Read(frame).type = "YIELD"
      BY <2>2 DEF Read, Message
    <3>2. toClient' = toClient
      BY <1>8, <3>1 DEF Serve
    <3> QED
      BY <1>3, <1>4, <3>2 DEF AllTruthful
  <2> QED
    BY <2>1, <2>2
<1>9. CASE Reply("ABORT", frame.msg)
  BY <1>3, <1>5, <1>6, <1>7, <1>9 DEF AllTruthful, RouterTypes
<1>10. CASE toClient' = toClient
  BY <1>3, <1>4, <1>10 DEF AllTruthful
<1> QED
  BY <1>8, <1>9, <1>10 DEF RouterReads

LEMMA TruthfulInv == Typed /\ AllTruthful /\ [Next]_vars => AllTruthful'
<1> SUFFICES ASSUME Typed, AllTruthful, [Next]_vars
             PROVE  AllTruthful'
  OBVIOUS
<1>1. ASSUME UNCHANGED <<nextRequest, asked, subs, procs, ran, toRouter>>, AnswersTruthful'
      PROVE  AllTruthful'
  BY <1>1, OldRequests, StaysTruthful, FramesStayTruthful DEF AllTruthful, Typed, WireTyped
<1>2. CASE RouterPushes
  <2>1. UNCHANGED <<nextRequest, asked, subs, procs, ran, toRouter>>
    BY <1>2 DEF RouterPushes, tables, history, wire
  <2>2. Remembered
    BY <2>1, OldRequests
  <2>3. pushes \in Nat /\ hears \subseteq Topics /\ offers \subseteq Procs
    BY DEF Typed, RouterTyped
  <2>4. /\ \A t \in hears : Message("EVENT", pushes, t) \in RouterSays
        /\ \A p \in offers : Message("INVOCATION", pushes, p) \in RouterSays
        /\ Message("GOODBYE", 0, None) \in RouterSays
    BY <2>3 DEF Message, RouterSays, RouterTypes, Messages, Names
  <2>5. \A m \in RouterSays : m.type \in {"EVENT", "INVOCATION", "GOODBYE"} => m \in Truths
    BY DEF Truths, Truthful
  <2>6. \A type, req, of : Message(type, req, of).type = type
    BY DEF Message
  <2>7. \E m \in RouterSays : m \in Truths /\ toClient' = Append(toClient, m)
    BY <1>2, <2>4, <2>5, <2>6 DEF RouterPushes
  <2>8. AnswersTruthful'
    BY <2>2, <2>7, AnswersStayTruthful DEF AllTruthful, Typed
  <2> QED
    BY <1>1, <2>1, <2>8
<1>3. CASE UNCHANGED vars
  <2>1. UNCHANGED <<nextRequest, asked, subs, procs, ran, toRouter, toClient>>
    BY <1>3 DEF vars, tables, history, wire
  <2> QED
    BY <1>1, <2>1, OldRequests, AnswersStayTruthful DEF AllTruthful, Typed
<1> QED
  BY <1>2, <1>3, UserTruthful, ReceiveTruthful, RouterReadsTruthful DEF Next

\* Requests of all kinds share one counter and their answers come in any mix
\* of successes and errors: the callback that runs is still the one its user
\* gave for that topic, procedure or call.
THEOREM RightCallback == FairSpec => []CallbacksMatch
<1>1. Init => AllTruthful
  <2> SUFFICES ASSUME Init
               PROVE  AllTruthful
    OBVIOUS
  <2>1. AskedSoFar /\ TablesTruthful /\ RanTruthful /\ AnswersTruthful
    BY DEF Init, AskedSoFar, TablesTruthful, RanTruthful, AnswersTruthful, EmptyTable
  <2>2. Message("HELLO", 0, None) \in Truths
    BY Sayable DEF Truths, Truthful, Message, ClientTypes
  <2>3. FramesTruthful
    BY <2>2 DEF Init, FramesTruthful
  <2> QED
    BY <2>1, <2>3 DEF AllTruthful
<1>2. AllTruthful => CallbacksMatch
  BY DEF AllTruthful, RanTruthful, Asked, CallbacksMatch
<1> QED
  BY <1>1, <1>2, InitTyped, NextTyped, TruthfulInv, PTL DEF FairSpec
-----------------------------------------------------------------------------
(* What each side puts on the wire.                                         *)

RequestTypes == {"SUBSCRIBE", "CALL", "REGISTER"}
AnswerTypes == {"SUBSCRIBED", "RESULT", "REGISTERED",
                "SUBSCRIBE-ERROR", "CALL-ERROR", "REGISTER-ERROR"}

\* The messages whose answer, or which as an answer, the tables account for.
Answerable ==
  {m \in ClientSays \cup RouterSays :
     /\ m.type \in {"SUBSCRIBE", "SUBSCRIBED"} => m.req \in DOMAIN pendingSubs
     /\ m.type \in {"REGISTER", "REGISTERED"} => m.req \in DOMAIN pendingProcs
     /\ m.type \in {"CALL", "RESULT", "CALL-ERROR"} => m.req \in calls}

\* A request goes out under a new id, and its answer is waited for.
NewFrame(f) ==
  /\ f.msg.type # "HELLO"
  /\ f.msg.type \in RequestTypes =>
       f.msg.req = nextRequest /\ nextRequest' = nextRequest + 1 /\ f.msg \in Answerable'

\* The session sends nothing, a frame, or the two a publishing endpoint makes.
Speaks ==
  /\ nextRequest \in Nat /\ nextRequest' \in Nat /\ nextRequest' >= nextRequest
  /\ \/ toRouter' = toRouter
     \/ \E f \in Frames : toRouter' = Append(toRouter, f) /\ NewFrame(f)
     \/ \E f, g \in Frames : /\ toRouter' = Append(Append(toRouter, f), g)
                            /\ f.msg.type = "PUBLISH" /\ g.msg.type = "VALUE"

LEMMA SendSpeaks ==
  ASSUME Typed, nextRequest' \in Nat, nextRequest' >= nextRequest,
         NEW m \in ClientSays, Send(m), m.type # "HELLO",
         m.type \in RequestTypes =>
           m.req = nextRequest /\ nextRequest' = nextRequest + 1 /\ m \in Answerable'
  PROVE  Speaks
<1> DEFINE f == [half |-> half, msg |-> m]
<1>1. f \in Frames /\ f.msg = m
  BY DEF Typed, WireTyped, Frames
<1>2. toRouter' = toRouter \/ toRouter' = Append(toRouter, f)
  BY DEF Send
<1>3. nextRequest \in Nat
  BY WampAssumption DEF Typed, FlagsTyped
<1> HIDE DEF f
<1>4. NewFrame(f)
  BY <1>1 DEF NewFrame
<1> QED
  BY <1>1, <1>2, <1>3, <1>4 DEF Speaks

LEMMA UserSpeaks ==
  ASSUME Typed, User
  PROVE  Speaks
<1>0. nextRequest \in Nat
  BY WampAssumption DEF Typed, FlagsTyped
<1>1. ASSUME NEW t \in Topics, Subscribe(t)
      PROVE  Speaks
  <2>1. ASSUME NEW m, m = Message("SUBSCRIBE", nextRequest, t)
        PROVE  m \in Answerable' /\ m \in ClientSays /\ m.req = nextRequest /\ m.type = "SUBSCRIBE"
    <3>1. m \in ClientSays /\ m.req = nextRequest /\ m.type = "SUBSCRIBE"
      BY <1>0, <2>1, Sayable DEF Message
    <3>2. nextRequest \in DOMAIN pendingSubs'
      BY <1>1 DEF Subscribe, With
    <3> QED
      BY <3>1, <3>2 DEF Answerable
  <2>2. Send(Message("SUBSCRIBE", nextRequest, t)) /\ nextRequest' = nextRequest + 1
    BY <1>1 DEF Subscribe, Request
  <2> QED
    BY <1>0, <2>1, <2>2, SendSpeaks
<1>2. ASSUME NEW t \in Topics, Publish(t)
      PROVE  Speaks
  <2>1. Send(Message("PUBLISH", nextRequest, t)) /\ nextRequest' = nextRequest + 1
    BY <1>2 DEF Publish, Request
  <2>2. /\ Message("PUBLISH", nextRequest, t) \in ClientSays
        /\ Message("PUBLISH", nextRequest, t).type = "PUBLISH"
    BY <1>0, Sayable DEF ClientTypes, Message
  <2> QED
    BY <1>0, <2>1, <2>2, SendSpeaks DEF RequestTypes
<1>3. ASSUME NEW p \in Procs, Call(p)
      PROVE  Speaks
  <2>1. ASSUME NEW m, m = Message("CALL", nextRequest, p)
        PROVE  m \in Answerable' /\ m \in ClientSays /\ m.req = nextRequest /\ m.type = "CALL"
    <3>1. m \in ClientSays /\ m.req = nextRequest /\ m.type = "CALL"
      BY <1>0, <2>1, Sayable DEF Message
    <3>2. nextRequest \in calls'
      BY <1>3 DEF Call
    <3> QED
      BY <3>1, <3>2 DEF Answerable
  <2>2. Send(Message("CALL", nextRequest, p)) /\ nextRequest' = nextRequest + 1
    BY <1>3 DEF Call, Request
  <2> QED
    BY <1>0, <2>1, <2>2, SendSpeaks
<1>4. ASSUME NEW p \in Procs, Provide(p)
      PROVE  Speaks
  <2>1. ASSUME NEW m, m = Message("REGISTER", nextRequest, p)
        PROVE  m \in Answerable' /\ m \in ClientSays /\ m.req = nextRequest /\ m.type = "REGISTER"
    <3>1. m \in ClientSays /\ m.req = nextRequest /\ m.type = "REGISTER"
      BY <1>0, <2>1, Sayable DEF Message
    <3>2. nextRequest \in DOMAIN pendingProcs'
      BY <1>4 DEF Provide, With
    <3> QED
      BY <3>1, <3>2 DEF Answerable
  <2>2. Send(Message("REGISTER", nextRequest, p)) /\ nextRequest' = nextRequest + 1
    BY <1>4 DEF Provide, Request
  <2> QED
    BY <1>0, <2>1, <2>2, SendSpeaks
<1>5. CASE Leave
  <2>1. Send(Message("GOODBYE", 0, None)) /\ nextRequest' = nextRequest
    BY <1>5 DEF Leave
  <2>2. /\ Message("GOODBYE", 0, None) \in ClientSays
        /\ Message("GOODBYE", 0, None).type = "GOODBYE"
    BY <1>0, Sayable DEF ClientTypes, Message
  <2> QED
    BY <1>0, <2>1, <2>2, SendSpeaks DEF RequestTypes
<1>6. CASE Stop
  BY <1>0, <1>6 DEF Stop, Speaks, wire
<1> QED
  BY <1>1, <1>2, <1>3, <1>4, <1>5, <1>6 DEF User

LEMMA ReceiveSpeaks ==
  ASSUME Typed, Receive
  PROVE  Speaks
<1>0. nextRequest \in Nat /\ Head(toClient) \in RouterSays
  BY WampAssumption, Taken DEF Typed, FlagsTyped, Receive
<1>1. Quiet => Speaks
  BY <1>0 DEF Quiet, Speaks, wire
<1>2. ASSUME NEW m \in RouterSays, Handle(m)
      PROVE  Speaks
  <2>0. m.req \in Nat /\ m.of \in Names
    BY DEF RouterSays, Messages
  <2>1. CASE OnGoodbye /\ ~Ignore
    <3>1. nextRequest' = nextRequest /\ (toRouter' = toRouter \/ Send(Message("GOODBYE", 0, None)))
      BY <2>1 DEF OnGoodbye, wire
    <3>2. /\ Message("GOODBYE", 0, None) \in ClientSays
          /\ Message("GOODBYE", 0, None).type = "GOODBYE"
      BY Sayable DEF ClientTypes, Message
    <3>3. toRouter' = toRouter => Speaks
      BY <1>0, <3>1 DEF Speaks
    <3> QED
      BY <1>0, <3>1, <3>2, <3>3, SendSpeaks DEF RequestTypes
  <2>2. CASE Returns(m)
    <3>1. nextRequest' = nextRequest /\ Send(Message("YIELD", m.req, m.of))
      BY <2>2 DEF Returns
    <3>2. /\ Message("YIELD", m.req, m.of) \in ClientSays
          /\ Message("YIELD", m.req, m.of).type = "YIELD"
      BY <2>0, Sayable DEF ClientTypes, Message
    <3> QED
      BY <1>0, <3>1, <3>2, SendSpeaks DEF RequestTypes
  <2>3. CASE Throws(m)
    BY <1>0, <2>3 DEF Throws, Speaks
  <2>4. ASSUME NEW t \in Topics, Publishes(m, t)
        PROVE  Speaks
    <3> DEFINE f == [half |-> Begun(m), msg |-> Message("PUBLISH", nextRequest, t)]
               g == [half |-> <<>>, msg |-> Message("VALUE", m.req, None)]
    <3>1. Typed'
      BY ReceiveTyped
    <3>2. toRouter' = toRouter \o <<f, g>> /\ nextRequest' = nextRequest + 1
      BY <2>4 DEF Publishes
    <3>3. f.msg.type = "PUBLISH" /\ g.msg.type = "VALUE"
      BY DEF Message
    <3>4. f \in Frames /\ g \in Frames
      <4>1. Begun(m) \in Seq(HalfYield)
        <5>1. Kind[m.of] \in Kinds
          <6>1. m.of \in Procs
            BY <2>4, TableEntry DEF Publishes, Invoke, Typed, TablesTyped
          <6> QED
            BY <6>1, WampAssumption
        <5>2. [req |-> m.req, kind |-> Kind[m.of]] \in HalfYield
          BY <2>0, <5>1 DEF HalfYield
        <5> QED
          BY <5>2, Appended DEF Begun, Typed, WireTyped
      <4>2. /\ Message("PUBLISH", nextRequest, t) \in ClientSays
            /\ Message("VALUE", m.req, None) \in ClientSays
        BY <1>0, <2>0, Sayable DEF ClientTypes, Message, ClientSays, Messages
      <4> QED
        BY <4>1, <4>2, EmptyInSeq DEF Frames
    <3> HIDE DEF f, g
    <3>5. toRouter' = Append(Append(toRouter, f), g)
      BY <3>2, <3>4, TwoAppended DEF Typed, WireTyped
    <3> QED
      BY <1>0, <3>2, <3>3, <3>4, <3>5 DEF Speaks
  <2> QED
    BY <1>1, <1>2, <2>1, <2>2, <2>3, <2>4
       DEF Handle, OnWelcome, OnSubscribed, OnEvent, OnResult, OnRegistered, OnInvocation,
           OnError, Ignore, Throw
<1> QED
  BY <1>0, <1>1, <1>2 DEF Receive, Ignore

\* The reply to m.
Replies(m, type) ==
  \/ type = "WELCOME" /\ m.type = "HELLO" /\ router' = "open" /\ offers' = offers
  \/ type = "ABORT" /\ router' \in {"closed", "aborted"} /\ offers' = offers
  \/ type = "GOODBYE" /\ m.type = "GOODBYE" /\ router' = "closed" /\ offers' = offers
  \/ /\ m.type = "SUBSCRIBE" /\ type \in {"SUBSCRIBED", "SUBSCRIBE-ERROR"}
     /\ UNCHANGED <<router, offers>>
  \/ /\ m.type = "REGISTER" /\ type = "REGISTERED"
     /\ router' = router /\ offers' = offers \cup {m.of}
  \/ m.type = "REGISTER" /\ type = "REGISTER-ERROR" /\ UNCHANGED <<router, offers>>
  \/ /\ m.type = "CALL" /\ type \in {"RESULT", "CALL-ERROR"}
     /\ UNCHANGED <<router, offers>>

LEMMA RouterAnswers ==
  ASSUME Typed, RouterReads
  PROVE  /\ toRouter \in Seq(Frames) /\ toRouter # <<>> /\ toRouter' = Tail(toRouter)
         /\ \/ UNCHANGED <<router, offers, toClient>>
            \/ \E type \in RouterTypes :
                 /\ router \in {"waiting", "open"}
                 /\ toClient' = Append(toClient, Message(type, toRouter[1].msg.req, toRouter[1].msg.of))
                 /\ Message(type, toRouter[1].msg.req, toRouter[1].msg.of) \in RouterSays
                 /\ Replies(toRouter[1].msg, type)
                 /\ \/ toRouter[1].half = <<>> /\ Serve(toRouter[1].msg)
                    \/ type = "ABORT" /\ ~Readable(toRouter[1])
<1> DEFINE frame == toRouter[1]
           m == frame.msg
<1>1. /\ toRouter \in Seq(Frames) /\ toRouter # <<>> /\ toRouter' = Tail(toRouter)
      /\ Head(toRouter) = frame /\ frame \in Frames
  BY Taken DEF RouterReads, Typed, WireTyped
<1>2. m \in ClientSays /\ m.req \in Nat /\ m.of \in Names
  BY <1>1 DEF Frames, ClientSays, Messages
<1> HIDE DEF frame
<1>3. CASE Readable(frame) /\ Serve(Read(frame)) /\ router \in {"waiting", "open"}
  <2>1. CASE frame.half # <<>>
    <3>1. Read(frame).type = "YIELD"
      BY <2>1 DEF Read, Message
    <3> QED
      BY <1>1, <1>3, <3>1 DEF Serve
  <2>2. CASE frame.half = <<>>
    <3>1. Serve(m)
      BY <1>3, <2>2 DEF Read
    <3> HIDE DEF m
    <3>2. CASE m.type \in {"PUBLISH", "YIELD"}
      BY <1>1, <3>1, <3>2 DEF Serve
    <3>3. CASE m.type \notin {"PUBLISH", "YIELD"}
      <4>1. \E type \in RouterTypes :
              /\ Reply(type, m) /\ Replies(m, type)
              /\ type \in {"SUBSCRIBED", "EVENT"} => m.type = "SUBSCRIBE"
              /\ type \in {"RESULT", "REGISTERED", "INVOCATION"} => m.type \in {"CALL", "REGISTER"}
        BY <3>1, <3>3 DEF Serve, Replies, RouterTypes
      <4>2. PICK type \in RouterTypes :
              /\ Reply(type, m) /\ Replies(m, type)
              /\ type \in {"SUBSCRIBED", "EVENT"} => m.type = "SUBSCRIBE"
              /\ type \in {"RESULT", "REGISTERED", "INVOCATION"} => m.type \in {"CALL", "REGISTER"}
        BY <4>1
      <4>3. Message(type, m.req, m.of) \in RouterSays
        BY <1>2, <4>2 DEF Message, RouterSays, ClientSays, Messages
      <4> QED
        BY <1>1, <1>3, <2>2, <3>1, <4>2, <4>3 DEF Reply, m, frame
    <3> QED
      BY <3>2, <3>3
  <2> QED
    BY <2>1, <2>2
<1>4. CASE /\ router \in {"waiting", "open"} /\ ~Readable(frame)
           /\ router' = "aborted" /\ Reply("ABORT", m) /\ UNCHANGED <<hears, offers>>
  <2>1. Message("ABORT", m.req, m.of) \in RouterSays
    BY <1>2 DEF Message, RouterSays, RouterTypes, Messages
  <2> QED
    BY <1>1, <1>4, <2>1 DEF Reply, Replies, m, frame, RouterTypes
<1>5. CASE UNCHANGED <<router, hears, offers, toClient>>
  BY <1>1, <1>5
<1> QED
  BY <1>1, <1>3, <1>4, <1>5 DEF RouterReads

\* RouterPushes adds an EVENT, an INVOCATION of a procedure on offer, or GOODBYE.
LEMMA RouterSpeaks ==
  ASSUME Typed, RouterPushes
  PROVE  /\ router = "open"
         /\ \E m \in RouterSays :
              /\ toClient' = Append(toClient, m)
              /\ \/ m.type = "EVENT" /\ router' = router
                 \/ m.type = "INVOCATION" /\ m.of \in offers /\ router' = router
                 \/ m.type = "GOODBYE" /\ router' = "closed"
<1>1. pushes \in Nat /\ hears \subseteq Topics /\ offers \subseteq Procs
  BY DEF Typed, RouterTyped
<1>2. /\ \A t \in hears : Message("EVENT", pushes, t) \in RouterSays
      /\ \A p \in offers : Message("INVOCATION", pushes, p) \in RouterSays
      /\ Message("GOODBYE", 0, None) \in RouterSays
  BY <1>1 DEF Message, RouterSays, RouterTypes, Messages, Names
<1>3. \A type, req, of : Message(type, req, of).type = type /\ Message(type, req, of).of = of
  BY DEF Message
<1> QED
  BY <1>2, <1>3 DEF RouterPushes
-----------------------------------------------------------------------------
(* Hello, welcome and goodbye.                                              *)

HelloFrame == [half |-> <<>>, msg |-> Message("HELLO", 0, None)]

BeforeWelcome ==
  router = "waiting" =>
    toClient = <<>> /\ toRouter = <<HelloFrame>> /\ ~joined /\ ~leaving /\ ~ended
HelloOnce == \A i \in 1..Len(toRouter) : toRouter[i].msg.type = "HELLO" => router = "waiting"
WelcomeFirst ==
  \A i \in 1..Len(toClient) :
    toClient[i].type = "WELCOME" => i = 1 /\ ~joined /\ ~leaving /\ ~ended
GoodbyeLast ==
  \A i \in 1..Len(toClient) :
    toClient[i].type = "GOODBYE" => i = Len(toClient) /\ router = "closed"
OverIsOver == ended => toClient = <<>> /\ router = "closed"
LeftIsLeft == leaving \/ ended => ~joined

Handshake ==
  BeforeWelcome /\ HelloOnce /\ WelcomeFirst /\ GoodbyeLast /\ OverIsOver /\ LeftIsLeft

\* While the session waits for WELCOME it sends nothing.
LEMMA SpeaksNoHello ==
  ASSUME Typed, HelloOnce, Speaks, router' = router
  PROVE  HelloOnce'
<1>0. toRouter \in Seq(Frames) /\ Len(toRouter) \in Nat
  BY DEF Typed, WireTyped
<1>1. CASE toRouter' = toRouter
  BY <1>1 DEF HelloOnce
<1>2. ASSUME NEW f \in Frames, toRouter' = Append(toRouter, f), NewFrame(f)
      PROVE  HelloOnce'
  BY <1>0, <1>2, Appended DEF HelloOnce, NewFrame
<1>3. ASSUME NEW f \in Frames, NEW g \in Frames,
             toRouter' = Append(Append(toRouter, f), g),
             f.msg.type = "PUBLISH", g.msg.type = "VALUE"
      PROVE  HelloOnce'
  <2>1. /\ Len(toRouter') = Len(toRouter) + 2
        /\ \A i \in 1..Len(toRouter) : toRouter'[i] = toRouter[i]
        /\ toRouter'[Len(toRouter) + 1] = f /\ toRouter'[Len(toRouter) + 2] = g
    BY <1>0, <1>3
  <2> QED
    BY <1>0, <1>3, <2>1 DEF HelloOnce
<1> QED
  BY <1>1, <1>2, <1>3 DEF Speaks

\* Nothing the user can do without a session changes the wire or the flags
\* that matter here.
LEMMA UserHandshake ==
  ASSUME Typed, Handshake, User
  PROVE  Handshake'
<1>1. HelloOnce'
  <2>1. router' = router
    BY DEF User, Subscribe, Publish, Call, Provide, Request, Leave, Stop, external
  <2> QED
    BY <2>1, UserSpeaks, SpeaksNoHello DEF Handshake
<1>2. CASE joined /\ UNCHANGED <<toClient, external, ended>> /\ (UNCHANGED flags \/ joined' = FALSE)
  <2>1. router # "waiting" /\ ~ended /\ ~leaving
    BY <1>2 DEF Handshake, BeforeWelcome, LeftIsLeft
  <2>2. \A i \in 1..Len(toClient) : toClient[i].type # "WELCOME"
    BY <1>2 DEF Handshake, WelcomeFirst
  <2>3. UNCHANGED <<toClient, router, ended>>
    BY <1>2 DEF external
  <2>4. BeforeWelcome' /\ OverIsOver'
    BY <2>1, <2>3 DEF BeforeWelcome, OverIsOver
  <2>5. WelcomeFirst' /\ GoodbyeLast'
    BY <2>2, <2>3 DEF Handshake, WelcomeFirst, GoodbyeLast
  <2>6. LeftIsLeft'
    <3>1. CASE UNCHANGED flags
      <4>1. ~leaving' /\ ~ended'
        BY <2>1, <2>3, <3>1 DEF flags
      <4> QED
        BY <4>1 DEF LeftIsLeft
    <3>2. CASE joined' = FALSE
      BY <3>2 DEF LeftIsLeft
    <3> QED
      BY <1>2, <3>1, <3>2
  <2> QED
    BY <1>1, <2>4, <2>5, <2>6 DEF Handshake
<1>3. CASE Stop
  BY <1>1, <1>3 DEF Stop, Handshake, BeforeWelcome, WelcomeFirst, GoodbyeLast, OverIsOver,
     LeftIsLeft, external, history, wire
<1> QED
  BY <1>2, <1>3 DEF User, Subscribe, Publish, Call, Provide, Request, Leave, SessionIdLeft, history

LEMMA ReceiveHandshake ==
  ASSUME Typed, Handshake, Receive
  PROVE  Handshake'
<1>0. /\ toClient \in Seq(RouterSays) /\ toClient # <<>> /\ toClient' = Tail(toClient)
      /\ router' = router
  BY DEF Receive, Typed, external
<1>1. /\ Len(toClient) \in Nat /\ Len(toClient) >= 1 /\ Len(toClient') = Len(toClient) - 1
      /\ \A i \in 1..Len(toClient') : i + 1 \in 1..Len(toClient) /\ toClient'[i] = toClient[i + 1]
      /\ Head(toClient) = toClient[1]
  BY <1>0, Taken
<1>2. router # "waiting" /\ ~ended
  BY <1>0 DEF Handshake, BeforeWelcome, OverIsOver
<1>3. HelloOnce'
  BY <1>0, ReceiveSpeaks, SpeaksNoHello DEF Handshake
<1>4. BeforeWelcome'
  BY <1>0, <1>2 DEF BeforeWelcome
<1>5. GoodbyeLast'
  <2>1. ASSUME NEW i \in 1..Len(toClient'), toClient'[i].type = "GOODBYE"
        PROVE  i = Len(toClient') /\ router' = "closed"
    <3>1. i + 1 = Len(toClient) /\ router = "closed"
      BY <1>1, <2>1 DEF Handshake, GoodbyeLast
    <3>2. i \in Int /\ Len(toClient') = Len(toClient) - 1
      BY <1>1, <2>1
    <3>3. router' = router
      BY <1>0
    <3> QED
      BY ONLY <1>1, <3>1, <3>2, <3>3
  <2> QED
    BY <2>1 DEF GoodbyeLast
<1>6. \A i \in 1..Len(toClient') : toClient'[i].type # "WELCOME"
  BY <1>1 DEF Handshake, WelcomeFirst
<1>7. WelcomeFirst'
  BY <1>6 DEF WelcomeFirst
<1>8. CASE UNCHANGED <<joined, leaving, ended>>
  BY <1>2, <1>3, <1>4, <1>5, <1>7, <1>8 DEF Handshake, OverIsOver, LeftIsLeft
<1>9. CASE Head(toClient).type = "WELCOME" /\ OnWelcome
  <2>1. ~leaving
    BY <1>1, <1>9 DEF Handshake, WelcomeFirst
  <2> QED
    BY <1>2, <1>3, <1>4, <1>5, <1>7, <1>9, <2>1 DEF Handshake, OverIsOver, LeftIsLeft, OnWelcome, Quiet
<1>10. CASE Head(toClient).type = "GOODBYE" /\ OnGoodbye /\ ~Ignore
  <2>1. Len(toClient) = 1 /\ router = "closed"
    BY <1>1, <1>10 DEF Handshake, GoodbyeLast
  <2>2. toClient' = <<>>
    BY <1>0, <1>1, <2>1
  <2>3. ~joined' /\ ended'
    BY <1>10 DEF OnGoodbye
  <2> QED
    BY <1>0, <1>3, <1>4, <1>5, <1>7, <2>1, <2>2, <2>3 DEF Handshake, OverIsOver, LeftIsLeft
<1> QED
  BY <1>8, <1>9, <1>10
     DEF Receive, Handle, OnSubscribed, OnEvent, OnResult, OnRegistered, OnInvocation, OnError,
         Ignore, Throw, Quiet, Invoke, Returns, Throws, Publishes, flags

LEMMA RouterHandshake ==
  ASSUME Typed, Handshake, RouterReads \/ RouterPushes
  PROVE  Handshake'
<1>0. /\ toClient \in Seq(RouterSays) /\ Len(toClient) \in Nat
      /\ UNCHANGED <<joined, leaving, ended>>
  BY DEF Typed, RouterReads, RouterPushes, flags, history
<1>1. ASSUME NEW m \in RouterSays, toClient' = Append(toClient, m), router \in {"waiting", "open"},
             router' # "waiting", HelloOnce',
             m.type = "WELCOME" => router = "waiting",
             m.type = "GOODBYE" => router' = "closed"
      PROVE  Handshake'
  <2>1. /\ Len(toClient') = Len(toClient) + 1
        /\ \A i \in 1..Len(toClient) : toClient'[i] = toClient[i]
        /\ toClient'[Len(toClient) + 1] = m
    BY <1>0, <1>1, Appended
  <2>2. ~ended
    BY <1>1 DEF Handshake, OverIsOver
  <2>3. BeforeWelcome' /\ OverIsOver' /\ LeftIsLeft'
    BY <1>0, <1>1, <2>2 DEF Handshake, BeforeWelcome, OverIsOver, LeftIsLeft
  <2>4. \A i \in 1..Len(toClient) : toClient[i].type # "GOODBYE"
    BY <1>1 DEF Handshake, GoodbyeLast
  <2>5. GoodbyeLast'
    BY <1>0, <1>1, <2>1, <2>4 DEF GoodbyeLast
  <2>6. WelcomeFirst'
    <3>1. CASE m.type = "WELCOME"
      <4>1. toClient = <<>> /\ ~joined /\ ~leaving /\ ~ended
        BY <1>1, <3>1 DEF Handshake, BeforeWelcome
      <4>2. Len(toClient) = 0
        BY <4>1
      <4> QED
        BY <1>0, <2>1, <4>1, <4>2 DEF WelcomeFirst
    <3>2. CASE m.type # "WELCOME"
      BY <1>0, <2>1, <3>2 DEF Handshake, WelcomeFirst
    <3> QED
      BY <3>1, <3>2
  <2> QED
    BY <1>1, <2>3, <2>5, <2>6 DEF Handshake
<1>2. CASE RouterReads
  <2> DEFINE hello == toRouter[1].msg
  <2>1. /\ toRouter \in Seq(Frames) /\ toRouter # <<>> /\ toRouter' = Tail(toRouter)
        /\ Len(toRouter) \in Nat /\ Len(toRouter) >= 1 /\ Len(toRouter') = Len(toRouter) - 1
        /\ \A i \in 1..Len(toRouter') : i + 1 \in 1..Len(toRouter) /\ toRouter'[i] = toRouter[i + 1]
    BY <1>2, RouterAnswers, Taken
  <2>2. CASE router = "waiting"
    <3>1. toRouter = <<HelloFrame>> /\ toRouter[1] = HelloFrame
      BY <2>2 DEF Handshake, BeforeWelcome
    <3>2. HelloFrame.half = <<>> /\ HelloFrame.msg.type = "HELLO"
      BY DEF HelloFrame, Message
    <3>3. Readable(Head(toRouter)) /\ Read(Head(toRouter)) = HelloFrame.msg
      <4>1. Head(toRouter) = HelloFrame
        BY <3>1
      <4> QED
        BY <3>2, <4>1 DEF Readable, Read
    <3>4. Serve(HelloFrame.msg)
      BY <1>2, <2>2, <3>3 DEF RouterReads
    <3>5. router' # "waiting" /\ (Reply("WELCOME", HelloFrame.msg) \/ Reply("ABORT", HelloFrame.msg))
      BY <3>2, <3>4 DEF Serve
    <3>6. Len(toRouter') = 0
      BY <2>1, <3>1
    <3>7. HelloOnce'
      BY <3>6 DEF HelloOnce
    <3>8. /\ Message("WELCOME", HelloFrame.msg.req, HelloFrame.msg.of) \in RouterSays
          /\ Message("ABORT", HelloFrame.msg.req, HelloFrame.msg.of) \in RouterSays
      BY DEF HelloFrame, Message, RouterSays, Messages, RouterTypes, Names
    <3>9. \A type, req, of : Message(type, req, of).type = type
      BY DEF Message
    <3>10. /\ Message("WELCOME", HelloFrame.msg.req, HelloFrame.msg.of).type = "WELCOME"
           /\ Message("ABORT", HelloFrame.msg.req, HelloFrame.msg.of).type = "ABORT"
      BY <3>9
    <3> QED
      BY <1>1, <2>2, <3>5, <3>7, <3>8, <3>10 DEF Reply
  <2>3. CASE router # "waiting"
    <3>1. \A i \in 1..Len(toRouter) : toRouter[i].msg.type # "HELLO"
      BY <2>3 DEF Handshake, HelloOnce
    <3>2. HelloOnce'
      BY <2>1, <3>1 DEF HelloOnce
    <3>3. CASE UNCHANGED <<router, offers, toClient>>
      BY <1>0, <2>3, <3>2, <3>3
         DEF Handshake, BeforeWelcome, WelcomeFirst, GoodbyeLast, OverIsOver, LeftIsLeft
    <3>4. ASSUME NEW type \in RouterTypes, router \in {"waiting", "open"},
                 toClient' = Append(toClient, Message(type, hello.req, hello.of)),
                 Message(type, hello.req, hello.of) \in RouterSays,
                 Replies(hello, type)
          PROVE  Handshake'
      <4>1. hello.type # "HELLO"
        BY <2>1, <3>1
      <4>2. type # "WELCOME" /\ router' # "waiting" /\ (type = "GOODBYE" => router' = "closed")
        BY <2>3, <3>4, <4>1 DEF Replies
      <4>3. Message(type, hello.req, hello.of).type = type
        BY DEF Message
      <4> QED
        BY <1>1, <3>2, <3>4, <4>2, <4>3
    <3> QED
      BY <1>2, <3>3, <3>4, RouterAnswers
  <2> QED
    BY <2>2, <2>3
<1>3. CASE RouterPushes
  <2>1. toRouter' = toRouter /\ router = "open"
    BY <1>3 DEF RouterPushes, wire
  <2>2. router' # "waiting" /\ HelloOnce'
    BY <1>3, <2>1, RouterSpeaks DEF Handshake, HelloOnce
  <2> QED
    BY <1>1, <1>3, <2>1, <2>2, RouterSpeaks
<1> QED
  BY <1>2, <1>3

LEMMA HandshakeInv == Typed /\ Handshake /\ [Next]_vars => Handshake'
<1> SUFFICES ASSUME Typed, Handshake, [Next]_vars
             PROVE  Handshake'
  OBVIOUS
<1>1. CASE UNCHANGED vars
  BY <1>1 DEF vars, flags, wire, external, history, Handshake, BeforeWelcome, HelloOnce,
     WelcomeFirst, GoodbyeLast, OverIsOver, LeftIsLeft
<1> QED
  BY <1>1, UserHandshake, ReceiveHandshake, RouterHandshake DEF Next

LEMMA HandshakeInit == Init => Handshake
<1> SUFFICES ASSUME Init
             PROVE  Handshake
  OBVIOUS
<1>1. toRouter = <<HelloFrame>> /\ router = "waiting" /\ Len(toClient) = 0
  BY DEF Init, HelloFrame
<1> QED
  BY <1>1 DEF Init, Handshake, BeforeWelcome, HelloOnce, WelcomeFirst, GoodbyeLast, OverIsOver,
     LeftIsLeft
\* After GOODBYE, sent by leave or as a reply, the session sends nothing but
\* the YIELDs of invocations that were under way: leave forgets the session id,
\* without which the user can do nothing and a nested publish throws.
THEOREM NothingAfterGoodbye == FairSpec => OnlyYieldsAfterGoodbye
<1>1. ASSUME Typed, Handshake, [Next]_vars
      PROVE  [(leaving \/ ended) /\ Len(toRouter') > Len(toRouter)
                => Last(toRouter').msg.type = "YIELD"]_vars
  <2> SUFFICES ASSUME leaving \/ ended, Len(toRouter') > Len(toRouter), Next
               PROVE  Last(toRouter').msg.type = "YIELD"
    BY <1>1
  <2>0. Len(toRouter) \in Nat /\ toRouter \in Seq(Frames)
    BY <1>1 DEF Typed, WireTyped
  <2>1. ~joined
    BY <1>1 DEF Handshake, LeftIsLeft
  <2>2. toRouter' # toRouter
    BY <2>0
  <2>3. ~User
    BY <2>1, <2>2 DEF User, Subscribe, Publish, Call, Provide, Request, Leave, Stop, wire
  <2>4. ~RouterPushes
    BY <2>2 DEF RouterPushes, wire
  <2>5. ~RouterReads
    <3> SUFFICES ASSUME RouterReads
                 PROVE  FALSE
      OBVIOUS
    <3>1. Len(toRouter') = Len(toRouter) - 1
      BY <1>1, RouterAnswers, Taken
    <3> QED
      BY <2>0, <3>1
  <2>6. Receive /\ leaving
    BY <1>1, <2>3, <2>4, <2>5 DEF Next, Receive, Handshake, OverIsOver
  <2>7. PICK m \in RouterSays : Returns(m)
    <3>1. Head(toClient) \in RouterSays
      BY <1>1, <2>6, Taken DEF Typed, Receive
    <3> QED
      BY <2>1, <2>2, <2>6, <3>1
         DEF Receive, Handle, OnWelcome, OnGoodbye, OnSubscribed, OnEvent, OnResult, OnRegistered,
             OnInvocation, OnError, Ignore, Throw, Quiet, Throws, Publishes, wire
  <2>8. m.req \in Nat /\ m.of \in Names
    BY DEF RouterSays, Messages
  <2>9. Message("YIELD", m.req, m.of) \in ClientSays
    BY <2>8, Sayable DEF ClientTypes
  <2> DEFINE f == [half |-> half, msg |-> Message("YIELD", m.req, m.of)]
  <2>10. f \in Frames /\ f.msg.type = "YIELD"
    BY <1>1, <2>9 DEF Typed, WireTyped, Frames, Message
  <2>11. toRouter' = Append(toRouter, f)
    BY <2>2, <2>7 DEF Returns, Send
  <2> HIDE DEF f
  <2>12. Last(toRouter') = f
    BY <2>0, <2>10, <2>11, Appended DEF Last
  <2> QED
    BY <2>10, <2>12
<1> QED
  BY <1>1, InitTyped, NextTyped, HandshakeInit, HandshakeInv, PTL
     DEF FairSpec, OnlyYieldsAfterGoodbye
-----------------------------------------------------------------------------
(* Request ids rise along the wire, from the oldest answer to the newest    *)
(* request.                                                                 *)

RequestsRise ==
  \A i, j \in 1..Len(toRouter) :
    /\ i < j
    /\ toRouter[i].msg.type \in RequestTypes
    /\ toRouter[j].msg.type \in RequestTypes
    => toRouter[i].msg.req < toRouter[j].msg.req
AnswersRise ==
  \A i, j \in 1..Len(toClient) :
    i < j /\ toClient[i].type \in AnswerTypes /\ toClient[j].type \in AnswerTypes
    => toClient[i].req < toClient[j].req
AnswersBeforeRequests ==
  \A i \in 1..Len(toClient), j \in 1..Len(toRouter) :
    toClient[i].type \in AnswerTypes /\ toRouter[j].msg.type \in RequestTypes
    => toClient[i].req < toRouter[j].msg.req
RequestsUsed ==
  \A j \in 1..Len(toRouter) :
    toRouter[j].msg.type \in RequestTypes => toRouter[j].msg.req < nextRequest
AnswersUsed ==
  \A i \in 1..Len(toClient) : toClient[i].type \in AnswerTypes => toClient[i].req < nextRequest

Rising ==
  RequestsRise /\ AnswersRise /\ AnswersBeforeRequests /\ RequestsUsed /\ AnswersUsed

LEMMA WireIds ==
  ASSUME Typed
  PROVE  /\ nextRequest \in Nat /\ Len(toRouter) \in Nat /\ Len(toClient) \in Nat
         /\ \A j \in 1..Len(toRouter) : toRouter[j] \in Frames /\ toRouter[j].msg.req \in Nat
         /\ \A i \in 1..Len(toClient) : toClient[i] \in RouterSays /\ toClient[i].req \in Nat
<1>1. nextRequest \in Nat /\ toRouter \in Seq(Frames) /\ toClient \in Seq(RouterSays)
  BY WampAssumption DEF Typed, FlagsTyped, WireTyped
<1>2. \A f \in Frames : f.msg.req \in Nat
  BY DEF Frames, ClientSays, Messages
<1>3. \A m \in RouterSays : m.req \in Nat
  BY DEF RouterSays, Messages
<1> QED
  BY <1>1, <1>2, <1>3

\* The session speaks, and may take the first message of toClient.
LEMMA SpeaksRising ==
  ASSUME Typed, Rising, Speaks, NEW d \in {0, 1}, Len(toClient') \in Nat,
         \A i \in 1..Len(toClient') : i + d \in 1..Len(toClient) /\ toClient'[i] = toClient[i + d]
  PROVE  Rising'
<1>0. toRouter \in Seq(Frames)
  BY DEF Typed, WireTyped
<1>1. nextRequest' \in Nat /\ nextRequest' >= nextRequest
  BY DEF Speaks
<1>2. AnswersRise'
  <2>1. ASSUME NEW i \in 1..Len(toClient'), NEW j \in 1..Len(toClient'), i < j
        PROVE  i + d \in 1..Len(toClient) /\ j + d \in 1..Len(toClient) /\ i + d < j + d
    BY <2>1
  <2> QED
    BY <2>1 DEF Rising, AnswersRise
<1>3. AnswersUsed'
  <2>1. ASSUME NEW i \in 1..Len(toClient'), toClient'[i].type \in AnswerTypes
        PROVE  toClient'[i].req < nextRequest'
    <3>1. toClient'[i].req < nextRequest
      BY <2>1 DEF Rising, AnswersUsed
    <3>2. toClient'[i].req \in Nat
      BY WireIds
    <3> QED
      BY <1>1, <3>1, <3>2, WireIds
  <2> QED
    BY <2>1 DEF AnswersUsed
<1>4. CASE toRouter' = toRouter
  <2>1. RequestsRise' /\ AnswersBeforeRequests'
    BY <1>4 DEF Rising, RequestsRise, AnswersBeforeRequests
  <2>2. RequestsUsed'
    BY <1>1, <1>4, WireIds DEF Rising, RequestsUsed
  <2> QED
    BY <1>2, <1>3, <2>1, <2>2 DEF Rising
<1>5. ASSUME NEW f \in Frames, toRouter' = Append(toRouter, f), NewFrame(f)
      PROVE  Rising'
  <2>1. /\ Len(toRouter') = Len(toRouter) + 1
        /\ \A i \in 1..Len(toRouter) : toRouter'[i] = toRouter[i]
        /\ toRouter'[Len(toRouter) + 1] = f
    BY <1>0, <1>5, Appended
  <2>2. f.msg.type \in RequestTypes => f.msg.req = nextRequest /\ nextRequest' = nextRequest + 1
    BY <1>5 DEF NewFrame
  <2>3. \A j \in 1..Len(toRouter') : j \in 1..Len(toRouter) \/ j = Len(toRouter) + 1
    BY <2>1, WireIds
  <2>4. RequestsRise'
    BY <2>1, <2>2, <2>3, WireIds DEF Rising, RequestsRise, RequestsUsed
  <2>5. AnswersBeforeRequests'
    BY <2>1, <2>2, <2>3, WireIds DEF Rising, AnswersBeforeRequests, AnswersUsed
  <2>6. RequestsUsed'
    BY <1>1, <2>1, <2>2, <2>3, WireIds DEF Rising, RequestsUsed
  <2> QED
    BY <1>2, <1>3, <2>4, <2>5, <2>6 DEF Rising
<1>6. ASSUME NEW f \in Frames, NEW g \in Frames,
             toRouter' = Append(Append(toRouter, f), g),
             f.msg.type = "PUBLISH", g.msg.type = "VALUE"
      PROVE  Rising'
  <2>1. /\ Len(toRouter') = Len(toRouter) + 2
        /\ \A i \in 1..Len(toRouter) : toRouter'[i] = toRouter[i]
        /\ toRouter'[Len(toRouter) + 1] = f /\ toRouter'[Len(toRouter) + 2] = g
    BY <1>0, <1>6
  <2>2. f.msg.type \notin RequestTypes /\ g.msg.type \notin RequestTypes
    BY <1>6 DEF RequestTypes
  <2>3. \A j \in 1..Len(toRouter') :
          toRouter'[j].msg.type \in RequestTypes => j \in 1..Len(toRouter)
    BY <2>1, <2>2, WireIds
  <2>4. RequestsRise'
    BY <2>1, <2>3 DEF Rising, RequestsRise
  <2>5. AnswersBeforeRequests'
    BY <2>1, <2>3 DEF Rising, AnswersBeforeRequests
  <2>6. RequestsUsed'
    <3>1. ASSUME NEW j \in 1..Len(toRouter'), toRouter'[j].msg.type \in RequestTypes
          PROVE  toRouter'[j].msg.req < nextRequest'
      <4>1. toRouter'[j].msg.req < nextRequest /\ toRouter'[j].msg.req \in Nat
        BY <2>1, <2>3, <3>1, WireIds DEF Rising, RequestsUsed
      <4> QED
        BY <1>1, <4>1, WireIds
    <3> QED
      BY <3>1 DEF RequestsUsed
  <2> QED
    BY <1>2, <1>3, <2>4, <2>5, <2>6 DEF Rising
<1> QED
  BY <1>4, <1>5, <1>6 DEF Speaks

LEMMA RouterRising ==
  ASSUME Typed, Rising, RouterReads \/ RouterPushes
  PROVE  Rising'
<1>0. toClient \in Seq(RouterSays) /\ nextRequest' = nextRequest
  BY DEF Typed, RouterReads, RouterPushes
<1>1. CASE RouterReads
  <2> DEFINE m == toRouter[1].msg
  <2>1. /\ toRouter \in Seq(Frames) /\ toRouter # <<>> /\ toRouter' = Tail(toRouter)
        /\ Len(toRouter) \in Nat /\ Len(toRouter) >= 1 /\ Len(toRouter') = Len(toRouter) - 1
        /\ \A i \in 1..Len(toRouter') : i + 1 \in 1..Len(toRouter) /\ toRouter'[i] = toRouter[i + 1]
    BY <1>1, RouterAnswers, Taken
  <2>2. RequestsRise'
    <3>1. ASSUME NEW i \in 1..Len(toRouter'), NEW j \in 1..Len(toRouter'), i < j
          PROVE  i + 1 \in 1..Len(toRouter) /\ j + 1 \in 1..Len(toRouter) /\ i + 1 < j + 1
      BY <2>1, <3>1
    <3> QED
      BY <2>1, <3>1 DEF Rising, RequestsRise
  <2>3. RequestsUsed'
    BY <1>0, <2>1 DEF Rising, RequestsUsed
  <2>4. \A i \in 1..Len(toClient), j \in 1..Len(toRouter') :
          toClient[i].type \in AnswerTypes /\ toRouter'[j].msg.type \in RequestTypes
          => toClient[i].req < toRouter'[j].msg.req
    BY <2>1 DEF Rising, AnswersBeforeRequests
  <2>5. CASE UNCHANGED <<router, offers, toClient>>
    BY <1>0, <2>2, <2>3, <2>4, <2>5 DEF Rising, AnswersRise, AnswersBeforeRequests, AnswersUsed
  <2>6. ASSUME NEW type \in RouterTypes,
               toClient' = Append(toClient, Message(type, m.req, m.of)),
               Message(type, m.req, m.of) \in RouterSays,
               Replies(m, type)
        PROVE  Rising'
    <3> DEFINE r == Message(type, m.req, m.of)
    <3>1. r.type = type /\ r.req = m.req
      BY DEF Message
    <3>2. r.type \in AnswerTypes => m.type \in RequestTypes
      BY <2>6, <3>1 DEF Replies, AnswerTypes, RequestTypes
    <3>3. /\ Len(toClient') = Len(toClient) + 1
          /\ \A i \in 1..Len(toClient) : toClient'[i] = toClient[i]
          /\ toClient'[Len(toClient) + 1] = r
      BY <1>0, <2>6, Appended
    <3>4. 1 \in 1..Len(toRouter)
      BY <2>1
    <3> HIDE DEF r
    <3>5. \A j \in 1..Len(toClient') : j \in 1..Len(toClient) \/ j = Len(toClient) + 1
      BY <3>3, WireIds
    <3>6. \A i \in 1..Len(toClient) :
            toClient[i].type \in AnswerTypes /\ r.type \in AnswerTypes => toClient[i].req < r.req
      BY <3>1, <3>2, <3>4 DEF Rising, AnswersBeforeRequests
    <3>7. \A j \in 1..Len(toRouter') :
            r.type \in AnswerTypes /\ toRouter'[j].msg.type \in RequestTypes
            => r.req < toRouter'[j].msg.req
      <4>1. ASSUME NEW j \in 1..Len(toRouter')
            PROVE  j + 1 \in 1..Len(toRouter) /\ 1 < j + 1 /\ toRouter'[j] = toRouter[j + 1]
        BY <2>1
      <4> QED
        BY <3>1, <3>2, <3>4, <4>1 DEF Rising, RequestsRise
    <3>8. AnswersRise'
      BY <3>3, <3>5, <3>6, WireIds DEF Rising, AnswersRise
    <3>9. AnswersBeforeRequests'
      BY <2>4, <3>3, <3>5, <3>7 DEF AnswersBeforeRequests
    <3>10. r.type \in AnswerTypes => r.req < nextRequest
      BY <3>1, <3>2, <3>4 DEF Rising, RequestsUsed
    <3>11. AnswersUsed'
      BY <1>0, <3>3, <3>5, <3>10 DEF Rising, AnswersUsed
    <3> QED
      BY <2>2, <2>3, <3>8, <3>9, <3>11 DEF Rising
  <2> QED
    BY <1>1, <2>5, <2>6, RouterAnswers
<1>2. CASE RouterPushes
  <2>1. PICK r \in RouterSays : /\ toClient' = Append(toClient, r)
                               /\ r.type \in {"EVENT", "INVOCATION", "GOODBYE"}
    BY <1>2, RouterSpeaks
  <2>2. r.type \notin AnswerTypes
    BY <2>1 DEF AnswerTypes
  <2>3. /\ Len(toClient') = Len(toClient) + 1
        /\ \A i \in 1..Len(toClient) : toClient'[i] = toClient[i]
        /\ toClient'[Len(toClient) + 1] = r
    BY <1>0, <2>1, Appended
  <2>4. \A j \in 1..Len(toClient') :
          toClient'[j].type \in AnswerTypes => j \in 1..Len(toClient)
    BY <2>2, <2>3, WireIds
  <2>5. toRouter' = toRouter
    BY <1>2 DEF RouterPushes, wire
  <2>6. AnswersRise' /\ AnswersBeforeRequests' /\ AnswersUsed'
    BY <1>0, <2>3, <2>4, <2>5 DEF Rising, AnswersRise, AnswersBeforeRequests, AnswersUsed
  <2> QED
    BY <1>0, <2>5, <2>6 DEF Rising, RequestsRise, RequestsUsed
<1> QED
  BY <1>1, <1>2

LEMMA RisingInv == Typed /\ Rising /\ [Next]_vars => Rising'
<1> SUFFICES ASSUME Typed, Rising, [Next]_vars
             PROVE  Rising'
  OBVIOUS
<1>1. CASE User
  <2>1. toClient' = toClient
    BY <1>1 DEF User, Subscribe, Publish, Call, Provide, Request, Leave, Stop
  <2>2. /\ Len(toClient') \in Nat
        /\ \A i \in 1..Len(toClient') : i + 0 \in 1..Len(toClient) /\ toClient'[i] = toClient[i + 0]
    BY <2>1, WireIds
  <2> QED
    BY <1>1, <2>2, UserSpeaks, SpeaksRising
<1>2. CASE Receive
  <2>1. /\ Len(toClient') \in Nat
        /\ \A i \in 1..Len(toClient') : i + 1 \in 1..Len(toClient) /\ toClient'[i] = toClient[i + 1]
    BY <1>2, Taken DEF Receive, Typed
  <2> QED
    BY <1>2, <2>1, ReceiveSpeaks, SpeaksRising
<1>3. CASE UNCHANGED vars
  BY <1>3 DEF vars, wire, Rising, RequestsRise, AnswersRise, AnswersBeforeRequests, RequestsUsed,
     AnswersUsed
<1> QED
  BY <1>1, <1>2, <1>3, RouterRising DEF Next

LEMMA RisingInit == Init => Rising
<1> SUFFICES ASSUME Init
             PROVE  Rising
  OBVIOUS
<1>1. Len(toClient) = 0 /\ Len(toRouter) = 1 /\ toRouter[1].msg.type = "HELLO"
  BY DEF Init, Message
<1>2. "HELLO" \notin RequestTypes
  BY DEF RequestTypes
<1> QED
  BY <1>1, <1>2 DEF Rising, RequestsRise, AnswersRise, AnswersBeforeRequests, RequestsUsed,
     AnswersUsed
-----------------------------------------------------------------------------
(* Until leave, the tables account for every answer on its way.             *)

AnswersExpected == \A i \in 1..Len(toClient) : toClient[i] \in Answerable
RequestsExpected ==
  router \in {"waiting", "open"} =>
    \A j \in 1..Len(toRouter) : toRouter[j].msg \in Answerable
\* A procedure on offer is registered here too, or REGISTERED is on its way.
OffersKnown ==
  router \in {"waiting", "open"} =>
    \A p \in offers :
      \/ p \in DOMAIN procs
      \/ \E j \in 1..Len(toClient) : toClient[j].type = "REGISTERED" /\ toClient[j].of = p
\* REGISTERED comes before the first INVOCATION.
InvocationsKnown ==
  \A i \in 1..Len(toClient) :
    toClient[i].type = "INVOCATION" =>
      \/ toClient[i].of \in DOMAIN procs
      \/ \E j \in 1..Len(toClient) :
           j < i /\ toClient[j].type = "REGISTERED" /\ toClient[j].of = toClient[i].of

AllExpected == AnswersExpected /\ RequestsExpected /\ OffersKnown /\ InvocationsKnown

Accounted ==
  /\ crashed => leaving
  /\ ~leaving /\ ~stopped => AllExpected

\* What is no request needs no entry.
LEMMA NoRequestExpected ==
  ASSUME NEW f \in Frames, f.msg.type \notin RequestTypes
  PROVE  f.msg \in Answerable'
<1>1. f.msg \in ClientSays
  BY DEF Frames
<1>2. f.msg.type \in ClientTypes \cup {"VALUE"}
  BY <1>1 DEF ClientSays, Messages
<1> QED
  BY <1>1, <1>2 DEF Answerable, RequestTypes, ClientTypes

LEMMA SpeaksExpected ==
  ASSUME Typed, Speaks, \A j \in 1..Len(toRouter) : toRouter[j].msg \in Answerable'
  PROVE  \A j \in 1..Len(toRouter') : toRouter'[j].msg \in Answerable'
<1>0. toRouter \in Seq(Frames) /\ Len(toRouter) \in Nat
  BY DEF Typed, WireTyped
<1>1. ASSUME NEW f \in Frames, toRouter' = Append(toRouter, f), NewFrame(f)
      PROVE  \A j \in 1..Len(toRouter') : toRouter'[j].msg \in Answerable'
  <2>1. f.msg \in Answerable'
    BY <1>1, NoRequestExpected DEF NewFrame
  <2>2. /\ Len(toRouter') = Len(toRouter) + 1
        /\ \A i \in 1..Len(toRouter) : toRouter'[i] = toRouter[i]
        /\ toRouter'[Len(toRouter) + 1] = f
    BY <1>0, <1>1, Appended
  <2> QED
    BY <1>0, <2>1, <2>2
<1>2. ASSUME NEW f \in Frames, NEW g \in Frames,
             toRouter' = Append(Append(toRouter, f), g),
             f.msg.type = "PUBLISH", g.msg.type = "VALUE"
      PROVE  \A j \in 1..Len(toRouter') : toRouter'[j].msg \in Answerable'
  <2>1. f.msg \in Answerable' /\ g.msg \in Answerable'
    BY <1>2, NoRequestExpected DEF RequestTypes
  <2>2. /\ Len(toRouter') = Len(toRouter) + 2
        /\ \A i \in 1..Len(toRouter) : toRouter'[i] = toRouter[i]
        /\ toRouter'[Len(toRouter) + 1] = f /\ toRouter'[Len(toRouter) + 2] = g
    BY <1>0, <1>2
  <2> QED
    BY <1>0, <2>1, <2>2
<1> QED
  BY <1>1, <1>2 DEF Speaks

LEMMA UserAccounted ==
  ASSUME Typed, Accounted, User
  PROVE  Accounted'
<1>1. crashed' = crashed /\ (leaving => leaving') /\ (stopped => stopped')
  BY DEF User, Subscribe, Publish, Call, Provide, Request, Leave, Stop, flags, Typed, FlagsTyped
<1>2. SUFFICES ASSUME ~leaving', ~stopped'
               PROVE  AllExpected'
  BY <1>1 DEF Accounted
<1>3. AllExpected
  BY <1>1, <1>2 DEF Accounted
<1>4. ~Leave /\ ~Stop
  BY <1>2 DEF Leave, Stop
<1>5. /\ UNCHANGED <<procs, toClient, router, offers>>
      /\ DOMAIN pendingSubs \subseteq DOMAIN pendingSubs'
      /\ DOMAIN pendingProcs \subseteq DOMAIN pendingProcs'
      /\ calls \subseteq calls'
  BY <1>4 DEF User, Subscribe, Publish, Call, Provide, Request, external, tables, With
<1>6. Answerable \subseteq Answerable'
  BY <1>5 DEF Answerable
<1>7. AnswersExpected'
  BY <1>3, <1>5, <1>6 DEF AllExpected, AnswersExpected
<1>8. RequestsExpected'
  <2>1. SUFFICES ASSUME router' \in {"waiting", "open"}
                 PROVE  \A j \in 1..Len(toRouter') : toRouter'[j].msg \in Answerable'
    BY DEF RequestsExpected
  <2>2. \A j \in 1..Len(toRouter) : toRouter[j].msg \in Answerable'
    BY <1>3, <1>5, <1>6, <2>1 DEF AllExpected, RequestsExpected
  <2> QED
    BY <2>2, UserSpeaks, SpeaksExpected
<1>9. OffersKnown' /\ InvocationsKnown'
  BY <1>3, <1>5 DEF AllExpected, OffersKnown, InvocationsKnown
<1> QED
  BY <1>7, <1>8, <1>9 DEF AllExpected

\* Once the first message m is handled the others are still expected: ids that
\* follow m's are greater.
LEMMA OthersExpected ==
  ASSUME Typed, Rising, AllExpected, toClient # <<>>,
         \/ DOMAIN pendingSubs' = DOMAIN pendingSubs
         \/ /\ toClient[1].type = "SUBSCRIBED"
            /\ DOMAIN pendingSubs' = DOMAIN pendingSubs \ {toClient[1].req},
         \/ DOMAIN pendingProcs' = DOMAIN pendingProcs
         \/ /\ toClient[1].type = "REGISTERED"
            /\ DOMAIN pendingProcs' = DOMAIN pendingProcs \ {toClient[1].req},
         calls' = calls
  PROVE  /\ \A i \in 2..Len(toClient) : toClient[i] \in Answerable'
         /\ router \in {"waiting", "open"} =>
              \A j \in 1..Len(toRouter) : toRouter[j].msg \in Answerable'
<1> DEFINE m == toClient[1]
<1>0. 1 \in 1..Len(toClient) /\ Len(toClient) \in Nat
  BY Taken DEF Typed
<1>1. ASSUME NEW x \in Answerable,
             m.type \in AnswerTypes /\ x.type \in RequestTypes \cup AnswerTypes => x.req # m.req
      PROVE  x \in Answerable'
  <2>1. x.type \in {"SUBSCRIBE", "SUBSCRIBED"} => x.req \in DOMAIN pendingSubs'
    BY <1>1 DEF Answerable, RequestTypes, AnswerTypes
  <2>2. x.type \in {"REGISTER", "REGISTERED"} => x.req \in DOMAIN pendingProcs'
    BY <1>1 DEF Answerable, RequestTypes, AnswerTypes
  <2>3. x.type \in {"CALL", "RESULT", "CALL-ERROR"} => x.req \in calls'
    BY DEF Answerable
  <2> QED
    BY <2>1, <2>2, <2>3 DEF Answerable
<1>2. ASSUME NEW i \in 2..Len(toClient)
      PROVE  toClient[i] \in Answerable'
  <2>1. i \in 1..Len(toClient) /\ 1 < i
    BY <1>0
  <2>2. toClient[i] \in Answerable
    BY <2>1 DEF AllExpected, AnswersExpected
  <2>3. toClient[i].type \notin RequestTypes
    <3>1. toClient[i] \in RouterSays
      BY <2>1, WireIds
    <3> QED
      BY <3>1 DEF RouterSays, Messages, RouterTypes, RequestTypes
  <2>4. m.type \in AnswerTypes /\ toClient[i].type \in AnswerTypes => m.req < toClient[i].req
    BY <1>0, <2>1 DEF Rising, AnswersRise
  <2>5. m.req \in Nat /\ toClient[i].req \in Nat
    BY <1>0, <2>1, WireIds
  <2>6. m.type \in AnswerTypes /\ toClient[i].type \in AnswerTypes => toClient[i].req # m.req
    BY <2>4, <2>5
  <2> QED
    BY <1>1, <2>2, <2>3, <2>6
<1>3. ASSUME router \in {"waiting", "open"}, NEW j \in 1..Len(toRouter)
      PROVE  toRouter[j].msg \in Answerable'
  <2>1. toRouter[j].msg \in Answerable
    BY <1>3 DEF AllExpected, RequestsExpected
  <2>2. toRouter[j].msg.type \notin AnswerTypes
    <3>1. toRouter[j] \in Frames
      BY WireIds
    <3> QED
      BY <3>1 DEF Frames, ClientSays, Messages, ClientTypes, AnswerTypes
  <2>3. m.type \in AnswerTypes /\ toRouter[j].msg.type \in RequestTypes => m.req < toRouter[j].msg.req
    BY <1>0 DEF Rising, AnswersBeforeRequests
  <2>4. m.req \in Nat /\ toRouter[j].msg.req \in Nat
    BY <1>0, WireIds
  <2>5. m.type \in AnswerTypes /\ toRouter[j].msg.type \in RequestTypes => toRouter[j].msg.req # m.req
    BY <2>3, <2>4
  <2> QED
    BY <1>1, <2>1, <2>2, <2>5
<1> QED
  BY <1>2, <1>3

\* Nothing in toClient makes the session throw: its first message is expected.
LEMMA HeadHandled ==
  ASSUME Typed, AllExpected, toClient # <<>>, NEW m, m = toClient[1], ~leaving, Handle(m)
  PROVE  /\ crashed' = crashed /\ leaving' = leaving /\ stopped' = stopped
         /\ \/ m.type = "GOODBYE" /\ ~Ignore /\ OnGoodbye
            \/ UNCHANGED tables
            \/ /\ m.type = "SUBSCRIBED"
               /\ pendingSubs' = Minus(pendingSubs, m.req)
               /\ UNCHANGED <<calls, pendingProcs, procs>>
            \/ /\ m.type = "REGISTERED"
               /\ pendingProcs' = Minus(pendingProcs, m.req)
               /\ procs' = With(procs, m.of, m.req)
               /\ UNCHANGED <<pendingSubs, calls>>
         /\ m.type = "REGISTERED" => m.of \in DOMAIN procs'
<1>0. 1 \in 1..Len(toClient) /\ Len(toClient) \in Nat
  BY Taken DEF Typed
<1>1. m \in Answerable
  BY <1>0 DEF AllExpected, AnswersExpected
<1>2. m.type = "INVOCATION" => m.of \in DOMAIN procs
  BY <1>0 DEF AllExpected, InvocationsKnown
<1>3. CASE m.type = "SUBSCRIBED" /\ OnSubscribed(m)
  <2>1. m.req \in DOMAIN pendingSubs
    BY <1>1, <1>3 DEF Answerable
  <2> QED
    BY <1>3, <2>1 DEF OnSubscribed, Answered, flags
<1>4. CASE m.type = "REGISTERED" /\ OnRegistered(m)
  <2>1. m.req \in DOMAIN pendingProcs
    BY <1>1, <1>4 DEF Answerable
  <2>2. procs' = With(procs, m.of, m.req) => m.of \in DOMAIN procs'
    BY DEF With
  <2> QED
    BY <1>4, <2>1, <2>2 DEF OnRegistered, Answered, flags
<1>5. CASE m.type = "RESULT" /\ OnResult(m)
  <2>1. m.req \in calls
    BY <1>1, <1>5 DEF Answerable
  <2> QED
    BY <1>5, <2>1 DEF OnResult, flags
<1>6. CASE OnError(m) /\ m.type \in {"CALL-ERROR", "SUBSCRIBE-ERROR", "REGISTER-ERROR"}
  <2>1. m.type = "CALL-ERROR" => m.req \in calls
    BY <1>1 DEF Answerable
  <2> QED
    BY <1>6, <2>1 DEF OnError, LookedUp, Ignore, flags
<1>7. CASE m.type = "INVOCATION" /\ OnInvocation(m)
  BY <1>2, <1>7 DEF OnInvocation, Returns, Throws, Publishes, Invoke, flags
<1>8. CASE m.type = "GOODBYE" /\ OnGoodbye
  BY <1>8 DEF OnGoodbye, Ignore, flags
<1>9. CASE m.type = "EVENT" /\ OnEvent(m)
  BY <1>9 DEF OnEvent, Ignore, flags
<1>10. CASE m.type = "WELCOME" /\ OnWelcome
  BY <1>10 DEF OnWelcome
<1>11. CASE m.type = "ABORT" /\ Ignore
  BY <1>11 DEF Ignore, flags
<1> QED
  BY <1>3, <1>4, <1>5, <1>6, <1>7, <1>8, <1>9, <1>10, <1>11 DEF Handle
LEMMA ReceiveAccounted ==
  ASSUME Typed, Handshake, Rising, Accounted, Receive
  PROVE  Accounted'
<1> DEFINE m == toClient[1]
<1>0. /\ toClient \in Seq(RouterSays) /\ toClient # <<>> /\ toClient' = Tail(toClient)
      /\ UNCHANGED <<router, offers>> /\ ~crashed
  BY DEF Receive, Typed, external
<1>1. /\ Len(toClient) \in Nat /\ Len(toClient) >= 1 /\ Len(toClient') = Len(toClient) - 1
      /\ \A i \in 1..Len(toClient') : i + 1 \in 1..Len(toClient) /\ toClient'[i] = toClient[i + 1]
      /\ Head(toClient) = m
  BY <1>0, Taken
<1>2. (leaving => leaving') /\ (stopped => stopped')
  <2>1. Ignore \/ Throw \/ OnWelcome \/ OnGoodbye => UNCHANGED <<leaving, stopped>>
    BY DEF Ignore, Throw, OnWelcome, OnGoodbye, flags
  <2>2. OnSubscribed(m) \/ OnRegistered(m) => UNCHANGED <<leaving, stopped>>
    BY <2>1 DEF OnSubscribed, OnRegistered, flags
  <2>3. OnEvent(m) \/ OnResult(m) \/ OnError(m) => UNCHANGED <<leaving, stopped>>
    BY <2>1 DEF OnEvent, OnResult, OnError, flags
  <2>4. OnInvocation(m) => UNCHANGED <<leaving, stopped>>
    BY <2>1 DEF OnInvocation, Returns, Throws, Publishes, Invoke, flags
  <2>5. Ignore \/ Handle(m)
    BY <1>1 DEF Receive
  <2> QED
    BY <2>1, <2>2, <2>3, <2>4, <2>5 DEF Handle
<1>3. CASE stopped \/ leaving
  <2>1. crashed' => leaving'
    BY <1>0, <1>2, <1>3 DEF Receive, Ignore, flags
  <2> QED
    BY <1>2, <1>3, <2>1 DEF Accounted
<1>4. CASE ~stopped /\ ~leaving
  <2>1. AllExpected /\ Handle(m)
    BY <1>1, <1>4 DEF Accounted, Receive
  <2> HIDE DEF m
  <2>2. /\ crashed' = crashed /\ leaving' = leaving /\ stopped' = stopped
        /\ \/ m.type = "GOODBYE" /\ ~Ignore /\ OnGoodbye
           \/ UNCHANGED tables
           \/ /\ m.type = "SUBSCRIBED"
              /\ pendingSubs' = Minus(pendingSubs, m.req)
              /\ UNCHANGED <<calls, pendingProcs, procs>>
           \/ /\ m.type = "REGISTERED"
              /\ pendingProcs' = Minus(pendingProcs, m.req)
              /\ procs' = With(procs, m.of, m.req)
              /\ UNCHANGED <<pendingSubs, calls>>
        /\ m.type = "REGISTERED" => m.of \in DOMAIN procs'
    BY <1>0, <1>4, <2>1, HeadHandled DEF m
  <2>3. CASE m.type = "GOODBYE" /\ ~Ignore /\ OnGoodbye
    <3>1. Len(toClient) = 1 /\ router = "closed"
      <4>1. 1 \in 1..Len(toClient)
        BY <1>1
      <4> QED
        BY <2>3, <4>1 DEF Handshake, GoodbyeLast, m
    <3>2. Len(toClient') = 0 /\ router' = "closed"
      BY <1>0, <1>1, <3>1
    <3>3. AllExpected'
      BY <3>2 DEF AllExpected, AnswersExpected, RequestsExpected, OffersKnown, InvocationsKnown
    <3> QED
      BY <1>0, <2>2, <3>3 DEF Accounted
  <2>4. CASE ~(m.type = "GOODBYE" /\ ~Ignore /\ OnGoodbye)
    <3>1. /\ \/ DOMAIN pendingSubs' = DOMAIN pendingSubs
             \/ m.type = "SUBSCRIBED" /\ DOMAIN pendingSubs' = DOMAIN pendingSubs \ {m.req}
          /\ \/ DOMAIN pendingProcs' = DOMAIN pendingProcs
             \/ m.type = "REGISTERED" /\ DOMAIN pendingProcs' = DOMAIN pendingProcs \ {m.req}
          /\ calls' = calls
          /\ DOMAIN procs \subseteq DOMAIN procs'
      BY <2>2, <2>4 DEF tables, Minus, With
    <3>2. /\ \A i \in 2..Len(toClient) : toClient[i] \in Answerable'
          /\ router \in {"waiting", "open"} =>
               \A j \in 1..Len(toRouter) : toRouter[j].msg \in Answerable'
      <4>1. m = toClient[1]
        BY DEF m
      <4> QED
        BY <1>0, <2>1, <3>1, <4>1, OthersExpected
    <3>3. AnswersExpected'
      <4>1. ASSUME NEW i \in 1..Len(toClient')
            PROVE  toClient'[i] \in Answerable'
        <5>1. i + 1 \in 2..Len(toClient) /\ toClient'[i] = toClient[i + 1]
          BY <1>1
        <5> QED
          BY <3>2, <5>1
      <4> QED
        BY <4>1 DEF AnswersExpected
    <3>4. RequestsExpected'
      <4> SUFFICES ASSUME router' \in {"waiting", "open"}
                   PROVE  \A j \in 1..Len(toRouter') : toRouter'[j].msg \in Answerable'
        BY DEF RequestsExpected
      <4> QED
        BY <1>0, <3>2, ReceiveSpeaks, SpeaksExpected
    <3>5. \A p : \A j \in 1..Len(toClient) :
            toClient[j].type = "REGISTERED" /\ toClient[j].of = p
            => p \in DOMAIN procs' \/ (j - 1 \in 1..Len(toClient') /\ toClient'[j - 1] = toClient[j])
      <4>1. ASSUME NEW p, NEW j \in 1..Len(toClient), toClient[j].type = "REGISTERED", toClient[j].of = p
            PROVE  p \in DOMAIN procs' \/ (j - 1 \in 1..Len(toClient') /\ toClient'[j - 1] = toClient[j])
        <5>1. CASE j = 1
          BY <2>2, <4>1, <5>1 DEF m
        <5>2. CASE j # 1
          <6>1. j - 1 \in 1..Len(toClient') /\ (j - 1) + 1 = j
            BY <1>1, <5>2
          <6> QED
            BY <1>1, <6>1
        <5> QED
          BY <5>1, <5>2
      <4> QED
        BY <4>1
    <3>6. OffersKnown'
      <4>1. ASSUME router' \in {"waiting", "open"}, NEW p \in offers'
            PROVE  \/ p \in DOMAIN procs'
                   \/ \E j \in 1..Len(toClient') : toClient'[j].type = "REGISTERED" /\ toClient'[j].of = p
        <5>1. \/ p \in DOMAIN procs
              \/ \E j \in 1..Len(toClient) : toClient[j].type = "REGISTERED" /\ toClient[j].of = p
          BY <1>0, <2>1, <4>1 DEF AllExpected, OffersKnown
        <5> QED
          BY <3>1, <3>5, <5>1
      <4> QED
        BY <4>1 DEF OffersKnown
    <3>7. InvocationsKnown'
      <4>1. ASSUME NEW i \in 1..Len(toClient'), toClient'[i].type = "INVOCATION"
            PROVE  \/ toClient'[i].of \in DOMAIN procs'
                   \/ \E j \in 1..Len(toClient') :
                        j < i /\ toClient'[j].type = "REGISTERED" /\ toClient'[j].of = toClient'[i].of
        <5>1. i + 1 \in 1..Len(toClient) /\ toClient'[i] = toClient[i + 1]
          BY <1>1
        <5>2. \/ toClient'[i].of \in DOMAIN procs
              \/ \E j \in 1..Len(toClient) :
                   /\ j < i + 1 /\ toClient[j].type = "REGISTERED"
                   /\ toClient[j].of = toClient'[i].of
          BY <2>1, <4>1, <5>1 DEF AllExpected, InvocationsKnown
        <5>3. CASE toClient'[i].of \in DOMAIN procs
          BY <3>1, <5>3
        <5>4. ASSUME NEW j \in 1..Len(toClient), j < i + 1, toClient[j].type = "REGISTERED",
                     toClient[j].of = toClient'[i].of
              PROVE  \/ toClient'[i].of \in DOMAIN procs'
                     \/ \E k \in 1..Len(toClient') :
                          k < i /\ toClient'[k].type = "REGISTERED" /\ toClient'[k].of = toClient'[i].of
          <6>1. \/ toClient'[i].of \in DOMAIN procs'
                \/ j - 1 \in 1..Len(toClient') /\ toClient'[j - 1] = toClient[j]
            BY <3>5, <5>4
          <6>2. j - 1 < i
            BY <5>4
          <6> QED
            BY <5>4, <6>1, <6>2
        <5> QED
          BY <5>2, <5>3, <5>4
      <4> QED
        BY <4>1 DEF InvocationsKnown
    <3> QED
      BY <1>0, <2>2, <3>3, <3>4, <3>6, <3>7 DEF Accounted, AllExpected
  <2> QED
    BY <2>3, <2>4
<1> QED
  BY <1>3, <1>4

\* The router's message r joins the ones on their way.
LEMMA AppendedExpected ==
  ASSUME Typed, AllExpected, NEW r \in RouterSays, toClient' = Append(toClient, r), procs' = procs,
         Answerable' = Answerable, r \in Answerable,
         r.type = "INVOCATION" => router = "open" /\ r.of \in offers,
         router \in {"waiting", "open"},
         offers' = offers \/ (r.type = "REGISTERED" /\ offers' = offers \cup {r.of})
  PROVE  AnswersExpected' /\ OffersKnown' /\ InvocationsKnown'
<1>1. /\ Len(toClient) \in Nat /\ Len(toClient') = Len(toClient) + 1
      /\ \A i \in 1..Len(toClient) : i \in 1..Len(toClient') /\ toClient'[i] = toClient[i]
      /\ Len(toClient) + 1 \in 1..Len(toClient') /\ toClient'[Len(toClient) + 1] = r
  <2>1. Len(toClient) \in Nat /\ toClient \in Seq(RouterSays)
    BY DEF Typed
  <2>2. /\ Len(toClient') = Len(toClient) + 1
        /\ \A i \in 1..Len(toClient) : toClient'[i] = toClient[i]
        /\ toClient'[Len(toClient) + 1] = r
    BY <2>1, Appended
  <2> QED
    BY <2>1, <2>2
<1>2. \A i \in 1..Len(toClient') : i \in 1..Len(toClient) \/ i = Len(toClient) + 1
  BY <1>1
<1>3. AnswersExpected'
  BY <1>1, <1>2 DEF AllExpected, AnswersExpected
<1>4. \A p \in offers' :
        \/ p \in DOMAIN procs
        \/ \E j \in 1..Len(toClient') : toClient'[j].type = "REGISTERED" /\ toClient'[j].of = p
  BY <1>1 DEF AllExpected, OffersKnown
<1>5. OffersKnown'
  BY <1>4 DEF OffersKnown
<1>6. ASSUME NEW i \in 1..Len(toClient'), toClient'[i].type = "INVOCATION"
      PROVE  \/ toClient'[i].of \in DOMAIN procs'
             \/ \E j \in 1..Len(toClient') :
                  j < i /\ toClient'[j].type = "REGISTERED" /\ toClient'[j].of = toClient'[i].of
  <2>1. CASE i \in 1..Len(toClient)
    BY <1>1, <1>6, <2>1 DEF AllExpected, InvocationsKnown
  <2>2. CASE i = Len(toClient) + 1
    <3>1. r.type = "INVOCATION" /\ toClient'[i] = r /\ r.of \in offers
      BY <1>1, <1>6, <2>2
    <3>2. \/ r.of \in DOMAIN procs
          \/ \E j \in 1..Len(toClient) : toClient[j].type = "REGISTERED" /\ toClient[j].of = r.of
      BY <3>1 DEF AllExpected, OffersKnown
    <3>3. \A j \in 1..Len(toClient) : j < i
      BY <1>1, <2>2
    <3> QED
      BY <1>1, <3>1, <3>2, <3>3
  <2> QED
    BY <1>2, <2>1, <2>2
<1>7. InvocationsKnown'
  BY <1>6 DEF InvocationsKnown
<1> QED
  BY <1>3, <1>5, <1>7

LEMMA RouterAccounted ==
  ASSUME Typed, Accounted, RouterReads \/ RouterPushes
  PROVE  Accounted'
<1>0. UNCHANGED <<leaving, stopped, crashed, pendingSubs, pendingProcs, procs, calls>>
  BY DEF RouterReads, RouterPushes, flags, tables
<1> SUFFICES ASSUME ~leaving, ~stopped
             PROVE  AllExpected'
  BY <1>0 DEF Accounted
<1>1. AllExpected
  BY DEF Accounted
<1>2. Answerable' = Answerable
  BY <1>0 DEF Answerable
<1>3. CASE RouterReads
  <2> DEFINE m == toRouter[1].msg
  <2>1. /\ toRouter \in Seq(Frames) /\ toRouter # <<>> /\ toRouter' = Tail(toRouter)
        /\ Len(toRouter) \in Nat /\ Len(toRouter) >= 1 /\ Len(toRouter') = Len(toRouter) - 1
        /\ \A i \in 1..Len(toRouter') : i + 1 \in 1..Len(toRouter) /\ toRouter'[i] = toRouter[i + 1]
    BY <1>3, RouterAnswers, Taken
  <2>2. (router' \in {"waiting", "open"} => router \in {"waiting", "open"}) => RequestsExpected'
    BY <1>1, <1>2, <2>1 DEF AllExpected, RequestsExpected
  <2>3. CASE UNCHANGED <<router, offers, toClient>>
    <3>1. AnswersExpected' /\ OffersKnown' /\ InvocationsKnown'
      BY <1>0, <1>1, <1>2, <2>3 DEF AllExpected, AnswersExpected, OffersKnown, InvocationsKnown
    <3> QED
      BY <2>2, <2>3, <3>1 DEF AllExpected
  <2>4. ASSUME NEW type \in RouterTypes, router \in {"waiting", "open"},
               toClient' = Append(toClient, Message(type, m.req, m.of)),
               Message(type, m.req, m.of) \in RouterSays,
               Replies(m, type)
        PROVE  AllExpected'
    <3> DEFINE r == Message(type, m.req, m.of)
    <3>1. r.type = type /\ r.req = m.req /\ r.of = m.of
      BY DEF Message
    <3>2. m \in Answerable
      <4>1. 1 \in 1..Len(toRouter)
        BY <2>1
      <4> QED
        BY <1>1, <2>4, <4>1 DEF AllExpected, RequestsExpected
    <3>3. r \in RouterSays /\ toClient' = Append(toClient, r)
      BY <2>4
    <3> HIDE DEF r, m
    <3>4. r \in Answerable
      BY <2>4, <3>1, <3>2, <3>3 DEF Answerable, Replies
    <3>5. r.type # "INVOCATION"
      BY <2>4, <3>1 DEF Replies
    <3>6. offers' = offers \/ (r.type = "REGISTERED" /\ offers' = offers \cup {r.of})
      BY <2>4, <3>1 DEF Replies
    <3>7. AnswersExpected' /\ OffersKnown' /\ InvocationsKnown'
      BY <1>0, <1>1, <1>2, <2>4, <3>3, <3>4, <3>5, <3>6, AppendedExpected
    <3> QED
      BY <2>2, <2>4, <3>7 DEF AllExpected
  <2> QED
    BY <1>3, <2>3, <2>4, RouterAnswers
<1>4. CASE RouterPushes
  <2>1. PICK r \in RouterSays :
          /\ toClient' = Append(toClient, r)
          /\ r.type \in {"EVENT", "INVOCATION", "GOODBYE"}
          /\ r.type = "INVOCATION" => r.of \in offers
    BY <1>4, RouterSpeaks
  <2>2. r \in Answerable
    BY <2>1 DEF Answerable
  <2>3. router = "open" /\ UNCHANGED <<offers, toRouter>>
    BY <1>4 DEF RouterPushes, wire
  <2>4. AnswersExpected' /\ OffersKnown' /\ InvocationsKnown'
    BY <1>0, <1>1, <1>2, <2>1, <2>2, <2>3, AppendedExpected
  <2>5. RequestsExpected'
    BY <1>1, <1>2, <2>3 DEF AllExpected, RequestsExpected
  <2> QED
    BY <2>4, <2>5 DEF AllExpected
<1> QED
  BY <1>3, <1>4

LEMMA AccountedInv == Typed /\ Handshake /\ Rising /\ Accounted /\ [Next]_vars => Accounted'
<1> SUFFICES ASSUME Typed, Handshake, Rising, Accounted, [Next]_vars
             PROVE  Accounted'
  OBVIOUS
<1>1. CASE UNCHANGED vars
  <2>1. UNCHANGED <<leaving, stopped, crashed, pendingSubs, pendingProcs, procs, calls, toRouter,
                    toClient, router, offers>>
    BY <1>1 DEF vars, flags, tables, wire, external
  <2>2. Answerable' = Answerable
    BY <2>1 DEF Answerable
  <2> QED
    BY <2>1, <2>2 DEF Accounted, AllExpected, AnswersExpected, RequestsExpected, OffersKnown,
       InvocationsKnown
<1> QED
  BY <1>1, UserAccounted, ReceiveAccounted, RouterAccounted DEF Next

LEMMA AccountedInit == Init => Accounted
<1> SUFFICES ASSUME Init
             PROVE  Accounted
  OBVIOUS
<1>1. Len(toClient) = 0 /\ Len(toRouter) = 1 /\ offers = {} /\ ~crashed
  BY DEF Init
<1>2. toRouter[1].msg = Message("HELLO", 0, None)
  BY DEF Init
<1>3. Message("HELLO", 0, None) \in Answerable
  BY Sayable DEF Answerable, Message, ClientTypes
<1> QED
  BY <1>1, <1>2, <1>3 DEF Accounted, AllExpected, AnswersExpected, RequestsExpected, OffersKnown,
     InvocationsKnown

\* With a router that keeps to the protocol the session throws out of its
\* message handler only after leave, whatever the user asks for and however
\* successes, errors, EVENTs and INVOCATIONs mix on the way back.
THEOREM ThrowsOnlyWhileLeaving == FairSpec => []CrashesOnlyWhileLeaving
<1>1. Accounted => CrashesOnlyWhileLeaving
  BY DEF Accounted, CrashesOnlyWhileLeaving
<1> QED
  BY <1>1, InitTyped, NextTyped, HandshakeInit, HandshakeInv, RisingInit, RisingInv, AccountedInit,
     AccountedInv, PTL DEF FairSpec
=============================================================================
