---------------------------- MODULE StreamProofs ----------------------------
(***************************************************************************)
(* Proofs about SocketStream, for any buffer, any number of messages and   *)
(* any sizes that fit the buffer.                                          *)
(***************************************************************************)
EXTENDS SocketStream, TLAPS

\* Orders and snapshots, none longer than the buffer.  (The frames of WAMP are
\* cut off too early, see the run wamp_framing.)
Fits == Dialect = "sized" /\ \A size \in Sizes : size <= BufSize

\* What is in the buffer between two callbacks is not a whole message.
Incomplete ==
  handled < Len(messages) => nbytes < Header \/ nbytes < Size(handled + 1)

\* The buffer holds what was read and not handled.
InStep ==
  /\ arrived <= Total(Len(messages))
  /\ phase # "decoding" => nbytes = read - Total(handled) /\ Incomplete
  /\ phase = "decoding" => bytes = read - Total(handled)
  /\ error => peerClosed

IInv == TypeOK /\ InStep

-----------------------------------------------------------------------------
LEMMA Facts ==
  ASSUME Fits, IInv
  PROVE  /\ Header = 2 /\ BufSize \in Nat \ {0}
         /\ messages \in Seq(Nat) /\ Len(messages) \in Nat /\ DOMAIN messages = 1..Len(messages)
         /\ \A n \in 0..Len(messages) : Total(n) \in Nat
         /\ \A n \in 1..Len(messages) : Size(n) \in 3..BufSize
         /\ arrived \in Nat /\ read \in Nat /\ read <= arrived
         /\ handled \in 0..Len(messages)
         /\ nbytes \in 0..BufSize /\ bytes \in 0..BufSize
<1>1. /\ messages \in Seq(Nat) /\ Len(messages) \in Nat /\ DOMAIN messages = 1..Len(messages)
      /\ arrived \in Nat /\ read \in Nat /\ read <= arrived
      /\ handled \in 0..Len(messages)
      /\ nbytes \in 0..BufSize /\ bytes \in 0..BufSize
  BY DEF IInv, TypeOK
<1>2. Header = 2 /\ BufSize \in Nat \ {0}
  BY StreamAssumption DEF Fits, Header
<1>3. \A n \in 0..Len(messages) : Total(n) \in Nat
  BY <1>1 DEF Total
<1>4. \A size \in Sizes : size \in 3..BufSize
  BY <1>2, StreamAssumption DEF Fits
<1>5. \A n \in 1..Len(messages) : Size(n) \in Sizes
  BY <1>1 DEF IInv, TypeOK
<1> QED
  BY <1>1, <1>2, <1>3, <1>4, <1>5

\* The message that is next, when there is one: its number is one of the
\* messages', and its size one the buffer holds.
LEMMA NextMessage ==
  ASSUME Fits, IInv, handled < Len(messages)
  PROVE  /\ handled + 1 \in 1..Len(messages)
         /\ Size(handled + 1) \in 3..BufSize
         /\ Total(handled + 1) \in Nat
<1>1. PICK k : k = handled + 1
  OBVIOUS
<1>2. /\ Len(messages) \in Nat /\ handled \in 0..Len(messages)
      /\ \A n \in 1..Len(messages) : Size(n) \in 3..BufSize
      /\ \A n \in 0..Len(messages) : Total(n) \in Nat
  BY Facts
<1>3. k \in 1..Len(messages) /\ k \in 0..Len(messages)
  BY ONLY <1>1, <1>2, handled < Len(messages)
<1>4. Size(k) \in 3..BufSize /\ Total(k) \in Nat
  BY ONLY <1>2, <1>3
<1> QED
  BY ONLY <1>1, <1>3, <1>4

\* There is room whenever recv is called: a message that is not complete does
\* not fill the buffer, and behind the last one there is nothing.
LEMMA RoomLeft ==
  ASSUME Fits, IInv, phase # "decoding"
  PROVE  nbytes < BufSize
<1>1. CASE handled < Len(messages)
  <2>1. Size(handled + 1) \in 3..BufSize
    BY <1>1, NextMessage
  <2>2. nbytes < Header \/ nbytes < Size(handled + 1)
    BY <1>1 DEF IInv, InStep, Incomplete
  <2>3. Header = 2 /\ BufSize \in Nat /\ nbytes \in 0..BufSize
    BY Facts
  <2> QED
    BY <2>1, <2>2, <2>3
<1>2. CASE handled = Len(messages)
  <2>1. nbytes = read - Total(Len(messages)) /\ arrived <= Total(Len(messages))
    BY <1>2 DEF IInv, InStep
  <2>2. Total(Len(messages)) \in Nat
    BY Facts
  <2> QED
    BY <2>1, <2>2, Facts
<1> QED
  BY <1>1, <1>2, Facts

LEMMA InitIInv == Init => IInv
<1> SUFFICES ASSUME Init
             PROVE  IInv
  OBVIOUS
<1>1. messages = <<>> /\ Len(messages) = 0 /\ DOMAIN messages = {} /\ messages \in Seq(Nat)
  BY DEF Init
<1>2. Total(0) = 0
  BY DEF Total
<1>3. BufSize \in Nat
  BY StreamAssumption
<1>4. TypeOK
  <2>1. \A n \in DOMAIN messages : Size(n) \in Sizes
    BY <1>1
  <2>2. /\ arrived \in Nat /\ read \in 0..arrived /\ nbytes \in 0..BufSize
        /\ bytes \in 0..BufSize /\ handled \in 0..Len(messages)
    BY <1>1, <1>3 DEF Init
  <2> QED
    BY <1>1, <2>1, <2>2 DEF Init, TypeOK
<1>5. InStep
  BY <1>1, <1>2 DEF Init, InStep, Incomplete
<1> QED
  BY <1>4, <1>5 DEF IInv

LEMMA SendStep ==
  ASSUME Fits, IInv, PeerSends
  PROVE  IInv'
<1>1. PICK size \in Sizes : messages' = Append(messages, Total(Len(messages)) + size)
  BY DEF PeerSends
<1> DEFINE L == Len(messages)
           end == Total(L) + size
<1>2. L \in Nat /\ Total(L) \in Nat /\ size \in Nat /\ end \in Nat
  BY Facts, StreamAssumption
<1>3. /\ messages' \in Seq(Nat) /\ Len(messages') = L + 1
      /\ DOMAIN messages' = 1..(L + 1)
      /\ messages'[L + 1] = end
      /\ \A n \in 1..L : messages'[n] = messages[n]
  BY <1>1, <1>2, Facts
<1>4. \A n \in 0..L : Total(n)' = Total(n)
  BY <1>3 DEF Total
<1>5. \A n : n = L + 1 => Total(n)' = end
  BY <1>2, <1>3 DEF Total
<1>6. \A n \in 1..L : Size(n)' = Size(n)
  <2> TAKE n \in 1..L
  <2>1. n \in 0..L /\ n - 1 \in 0..L
    BY <1>2
  <2> QED
    BY <1>4, <2>1 DEF Size
<1>7. \A n : n = L + 1 => Size(n)' = size
  <2> SUFFICES ASSUME NEW n, n = L + 1
               PROVE  Size(n)' = size
    OBVIOUS
  <2>1. n - 1 = L /\ n - 1 \in 0..L
    BY <1>2
  <2>2. Total(n)' = end /\ Total(n - 1)' = Total(L)
    BY <1>4, <1>5, <2>1
  <2> QED
    BY <1>2, <2>2 DEF Size
<1> HIDE DEF L, end
<1>8. UNCHANGED <<arrived, peerClosed, registered, phase, read, nbytes, bytes, handled, error>>
  BY DEF PeerSends
<1>9. TypeOK'
  <2>1. \A n \in DOMAIN messages' : Size(n)' \in Sizes
    <3> TAKE n \in DOMAIN messages'
    <3>1. n \in 1..L \/ n = L + 1
      BY <1>2, <1>3
    <3>2. n \in 1..L => Size(n) \in Sizes
      BY Facts DEF IInv, TypeOK, L
    <3>3. n \in 1..L => Size(n)' = Size(n)
      BY <1>6
    <3>4. n = L + 1 => Size(n)' = size
      BY <1>7
    <3> QED
      BY <3>1, <3>2, <3>3, <3>4
  <2>2. handled' \in 0..Len(messages')
    BY <1>2, <1>3, <1>8, Facts DEF L
  <2> QED
    BY <1>3, <1>8, <2>1, <2>2 DEF IInv, TypeOK
<1>10. InStep'
  <2>1. handled \in 0..L /\ L \in 0..L
    BY <1>2, Facts DEF L
  <2>2. Total(handled)' = Total(handled)
    BY <1>4, <1>8, <2>1
  <2>3. arrived' <= Total(Len(messages))'
    <3>1. arrived <= Total(L) /\ arrived \in Nat
      BY Facts DEF IInv, InStep, L
    <3>2. Total(Len(messages))' = end
      BY <1>2, <1>3 DEF Total
    <3> QED
      BY <1>2, <1>8, <3>1, <3>2 DEF end
  <2>4. phase # "decoding" => Incomplete'
    <3>1. CASE handled = L
      <4>1. phase # "decoding" => nbytes = read - Total(L) /\ arrived <= Total(L)
        BY <3>1 DEF IInv, InStep, L
      <4>2. phase # "decoding" => nbytes < 2
        BY <1>2, <4>1, Facts
      <4> QED
        BY <1>8, <4>2, Facts DEF Incomplete
    <3>2. CASE handled < L
      <4>1. handled + 1 \in 1..L
        BY <2>1, <3>2, <1>2
      <4> QED
        BY <1>6, <1>8, <3>2, <4>1, Facts DEF IInv, InStep, Incomplete, L
    <3> QED
      BY <2>1, <3>1, <3>2, <1>2
  <2> QED
    BY <1>8, <2>2, <2>3, <2>4 DEF IInv, InStep
<1> QED
  BY <1>9, <1>10 DEF IInv

LEMMA ArriveStep ==
  ASSUME Fits, IInv, Segment \/ PeerCloses
  PROVE  IInv'
<1>1. /\ UNCHANGED <<messages, registered, phase, read, nbytes, bytes, handled, error>>
      /\ arrived' \in Nat /\ read <= arrived' /\ arrived' <= Total(Len(messages))
      /\ peerClosed => peerClosed'
      /\ peerClosed' \in BOOLEAN
  <2>1. /\ Total(Len(messages)) \in Nat /\ arrived \in Nat /\ read \in Nat
        /\ read <= arrived /\ arrived <= Total(Len(messages)) /\ peerClosed \in BOOLEAN
    BY Facts DEF IInv, InStep, TypeOK
  <2>2. CASE Segment
    BY <2>1, <2>2 DEF Segment
  <2>3. CASE PeerCloses
    BY <2>1, <2>3 DEF PeerCloses
  <2> QED
    BY <2>2, <2>3
<1>2. \A n : Total(n)' = Total(n) /\ Size(n)' = Size(n)
  BY <1>1 DEF Total, Size
<1> QED
  BY <1>1, <1>2 DEF IInv, TypeOK, InStep, Incomplete

LEMMA EventStep ==
  ASSUME Fits, IInv, Readable \/ Eof
  PROVE  IInv'
<1>1. /\ UNCHANGED <<messages, arrived, peerClosed, read, nbytes, bytes, handled>>
      /\ phase # "decoding" /\ phase' # "decoding"
      /\ phase' \in {"waiting", "receiving", "decoding"}
      /\ error' => peerClosed \/ error
      /\ registered' \in BOOLEAN /\ error' \in BOOLEAN
  BY DEF Readable, Eof, peer, IInv, TypeOK
<1>2. \A n : Total(n)' = Total(n) /\ Size(n)' = Size(n)
  BY <1>1 DEF Total, Size
<1> QED
  BY <1>1, <1>2 DEF IInv, TypeOK, InStep, Incomplete

LEMMA RecvStep ==
  ASSUME Fits, IInv, Recv
  PROVE  IInv'
<1> DEFINE n == IF Unread < Room THEN Unread ELSE Room
<1>1. UNCHANGED <<messages, arrived, peerClosed, registered, nbytes, handled>>
  BY DEF Recv, peer
<1>2. \A k : Total(k)' = Total(k) /\ Size(k)' = Size(k)
  BY <1>1 DEF Total, Size
<1>3. nbytes < BufSize /\ phase = "receiving"
  BY RoomLeft DEF Recv
<1>4. Room \in Nat \ {0} /\ Unread \in Nat /\ n \in Nat
      /\ n <= Unread /\ n <= Room /\ Unread = arrived - read /\ Room = BufSize - nbytes
  BY <1>3, Facts DEF Room, Unread
<1>5. nbytes = read - Total(handled) /\ Incomplete
  BY <1>3 DEF IInv, InStep
<1>6. Total(handled) \in Nat
  BY Facts
<1> HIDE DEF n
<1>7. CASE n > 0 /\ read' = read + n /\ bytes' = nbytes + n /\ phase' = "decoding" /\ error' = error
  <2>0. /\ read \in Nat /\ arrived \in Nat /\ nbytes \in Nat /\ BufSize \in Nat
    BY Facts
  <2>1. read' \in 0..arrived /\ bytes' \in 0..BufSize
    BY <1>4, <1>7, <2>0
  <2>2. bytes' = read' - Total(handled)
    BY <1>4, <1>5, <1>6, <1>7, <2>0
  <2> QED
    BY <1>1, <1>2, <1>7, <2>1, <2>2 DEF IInv, TypeOK, InStep
<1>8. CASE /\ n = 0 /\ phase' = "waiting" /\ read' = read /\ bytes' = bytes
           /\ error' = (error \/ Room = 0 \/ peerClosed)
  <2>1. error' \in BOOLEAN /\ (error' => peerClosed)
    BY <1>4, <1>8 DEF IInv, TypeOK, InStep
  <2> QED
    BY <1>1, <1>2, <1>5, <1>8, <2>1 DEF IInv, TypeOK, InStep, Incomplete
<1> QED
  BY <1>7, <1>8 DEF Recv, n

LEMMA DecodeStep ==
  ASSUME Fits, IInv, Decode
  PROVE  IInv'
<1>1. /\ UNCHANGED <<messages, arrived, peerClosed, registered, phase, read, nbytes, error>>
      /\ phase = "decoding" /\ bytes >= Header
      /\ handled' = handled + 1
      /\ bytes' = bytes - Size(handled + 1)
      /\ Size(handled + 1) <= bytes
  BY DEF Decode, Decodable, Complete, Fits, peer
<1>2. \A k : Total(k)' = Total(k) /\ Size(k)' = Size(k)
  BY <1>1 DEF Total, Size
<1>3. bytes = read - Total(handled) /\ Total(handled) \in Nat
  BY <1>1, Facts DEF IInv, InStep
\* There is a next message: otherwise everything that was sent is handled.
<1>4. handled + 1 \in 1..Len(messages)
  <2>1. handled # Len(messages)
    <3> SUFFICES ASSUME handled = Len(messages)
                 PROVE  FALSE
      OBVIOUS
    <3>1. arrived <= Total(handled)
      BY DEF IInv, InStep
    <3>2. arrived \in Nat /\ read \in Nat /\ read <= arrived /\ Header = 2
      BY Facts
    <3>3. bytes >= Header
      BY <1>1
    <3> QED
      BY <1>3, <3>1, <3>2, <3>3
  <2>2. Len(messages) \in Nat /\ handled \in 0..Len(messages)
    BY Facts
  <2> QED
    BY <2>1, <2>2
<1>5. Size(handled + 1) \in 3..BufSize /\ Total(handled + 1) \in Nat
  <2>1. handled < Len(messages)
    BY <1>4, Facts
  <2> QED
    BY <2>1, NextMessage
<1>6. Total(handled + 1) = Total(handled) + Size(handled + 1)
  <2>1. (handled + 1) - 1 = handled
    BY Facts
  <2> QED
    BY <1>3, <1>5, <2>1 DEF Size
<1>7. bytes' \in 0..BufSize /\ bytes' = read - Total(handled')
  <2>1. read \in Nat /\ BufSize \in Nat /\ bytes \in 0..BufSize
    BY Facts
  <2>2. Size(handled + 1) \in Nat /\ Total(handled') = Total(handled) + Size(handled + 1)
    BY <1>1, <1>5, <1>6, <2>1
  <2>3. bytes' = bytes - Size(handled + 1) /\ Size(handled + 1) <= bytes
    BY <1>1
  <2> QED
    BY <1>3, <2>1, <2>2, <2>3
<1>8. Total(handled)' = Total(handled')
  BY <1>2
<1> QED
  BY <1>1, <1>2, <1>4, <1>7, <1>8 DEF IInv, TypeOK, InStep

LEMMA ReturnStep ==
  ASSUME Fits, IInv, Return
  PROVE  IInv'
<1>1. /\ UNCHANGED <<messages, arrived, peerClosed, registered, read, handled, error>>
      /\ phase = "decoding" /\ phase' = "receiving"
      /\ nbytes' = bytes /\ bytes' = 0
      /\ bytes > 0 => ~Decodable
  BY DEF Return, peer, Kept
<1>2. \A k : Total(k)' = Total(k) /\ Size(k)' = Size(k)
  BY <1>1 DEF Total, Size
<1>3. bytes = read - Total(handled)
  BY <1>1 DEF IInv, InStep
<1>4. Incomplete'
  <2>1. bytes < Header \/ ~(Size(handled + 1) <= bytes)
    BY <1>1, Facts DEF Decodable, Complete, Fits
  <2>2. handled < Len(messages) => Size(handled + 1) \in 3..BufSize
    BY NextMessage
  <2> QED
    BY <1>1, <1>2, <2>1, <2>2, Facts DEF Incomplete
<1>5. 0 \in 0..BufSize
  BY Facts
<1> QED
  BY <1>1, <1>2, <1>3, <1>4, <1>5, Facts DEF IInv, TypeOK, InStep

LEMMA Step ==
  ASSUME Fits, IInv, [Next]_vars
  PROVE  IInv'
<1>1. CASE UNCHANGED vars
  BY <1>1 DEF vars, peer, IInv, TypeOK, InStep, Incomplete, Total, Size
<1> QED
  BY <1>1, SendStep, ArriveStep, EventStep, RecvStep, DecodeStep, ReturnStep DEF Next

LEMMA Invariant ==
  ASSUME Fits
  PROVE  Spec => []IInv
<1>1. IInv /\ [Next]_vars => IInv'
  BY Step
<1> QED
  BY <1>1, InitIInv, PTL DEF Spec

-----------------------------------------------------------------------------
\* The counters keep to their ranges: recv never has more room than the buffer
\* holds, and no callback is handed more bytes than that (st_socket.cpp, recv_cb).
THEOREM TypeCorrect ==
  ASSUME Fits
  PROVE  Spec => []TypeOK
<1>1. IInv => TypeOK
  BY DEF IInv
<1> QED
  BY <1>1, Invariant, PTL

\* However TCP cuts the stream, orders and snapshots are handled only once all
\* of their bytes have been read (Msg::read_s, MdMsg::read_s).
THEOREM HandledWhole ==
  ASSUME Fits
  PROVE  Spec => []WholeMessagesOnly
<1>1. IInv => WholeMessagesOnly
  <2> SUFFICES ASSUME IInv
               PROVE  Total(handled) <= read
    BY DEF WholeMessagesOnly
  <2>1. Total(handled) \in Nat
    BY Facts
  <2>2. nbytes = read - Total(handled) \/ bytes = read - Total(handled)
    BY DEF IInv, InStep
  <2> QED
    BY <2>1, <2>2, Facts
<1> QED
  BY <1>1, Invariant, PTL

\* recv is never called without room, so that 0 always means that the peer has
\* closed (st_socket.cpp, recv_cb): messages must fit the buffer, and may fill it.
THEOREM RoomToReceive ==
  ASSUME Fits
  PROVE  Spec => []NeverTakenForClosed
<1>1. IInv => NeverTakenForClosed
  <2> SUFFICES ASSUME IInv
               PROVE  NeverTakenForClosed
    OBVIOUS
  <2>1. phase # "decoding" => nbytes = read - Total(handled) /\ nbytes < BufSize
    BY RoomLeft DEF IInv, InStep
  <2> QED
    BY <2>1 DEF NeverTakenForClosed, IInv, InStep
<1> QED
  BY <1>1, Invariant, PTL
=============================================================================
