---------------------------- MODULE SocketStream ----------------------------
(***************************************************************************)
(* The receiving end of a TCP connection: Kqueue::loop and Socket::recv_cb *)
(* (st_socket.cpp) with the callbacks that cut the stream into messages.   *)
(* Orders, snapshot requests and snapshot responses begin with a 16-bit    *)
(* size that counts itself (msg.h); the frames of WAMP begin with a 32-bit *)
(* size that does not (ls_autobahn.cpp).                                   *)
(*                                                                         *)
(* The stream is counted in bytes; what a message says does not matter.    *)
(*                                                                         *)
(* A definition named Bad... is the one that follows it with a plausible   *)
(* bug; no specification uses it.                                          *)
(***************************************************************************)
EXTENDS Integers, Sequences

CONSTANTS
  Dialect,     \* "sized" or "wamp"
  Sizes,       \* sizes of whole messages, header included
  BufSize,     \* recv_buf_size_: 32 * 1024 in the code
  MaxMessages  \* bound on the messages of the peer

Header == IF Dialect = "sized" THEN 2 ELSE 4

ASSUME StreamAssumption ==
  /\ Dialect \in {"sized", "wamp"}
  /\ Sizes \subseteq Nat /\ \A size \in Sizes : size > Header
  /\ BufSize \in Nat \ {0} /\ MaxMessages \in Nat

VARIABLES
  messages,    \* the messages the peer has sent, by where each ends in the stream
  arrived,     \* bytes that have reached this host
  peerClosed,  \* the peer's end of the stream has reached this host
  registered,  \* the socket is in the kqueue
  phase,       \* "waiting" in kevent, "receiving" in recv_cb, "decoding" in
               \* the callback of the user
  read,        \* bytes taken by recv
  nbytes,      \* Socket::nbytes_
  bytes,       \* user_bytes while decoding
  handled,     \* messages passed to their handler
  error        \* error_cb was called

peer == <<messages, arrived, peerClosed>>
vars == <<peer, registered, phase, read, nbytes, bytes, handled, error>>

\* Bytes of the first n messages, and of the n-th.
Total(n) == IF n = 0 THEN 0 ELSE messages[n]
Size(n) == Total(n) - Total(n - 1)

Init ==
  /\ messages = <<>> /\ arrived = 0 /\ peerClosed = FALSE
  /\ registered = TRUE /\ phase = "waiting"
  /\ read = 0 /\ nbytes = 0 /\ bytes = 0 /\ handled = 0 /\ error = FALSE

-----------------------------------------------------------------------------
\* The peer sends a message ...
PeerSends ==
  /\ ~peerClosed
  /\ Len(messages) < MaxMessages
  /\ \E size \in Sizes : messages' = Append(messages, Total(Len(messages)) + size)
  /\ UNCHANGED <<arrived, peerClosed, registered, phase, read, nbytes, bytes,
                 handled, error>>

\* ... TCP delivers it in segments of any length ...
Segment ==
  /\ arrived < Total(Len(messages))
  /\ arrived' \in (arrived + 1)..Total(Len(messages))
  /\ UNCHANGED <<messages, peerClosed, registered, phase, read, nbytes, bytes,
                 handled, error>>

\* ... and the peer may close once everything it sent is here.
PeerCloses ==
  /\ ~peerClosed
  /\ arrived = Total(Len(messages))
  /\ peerClosed' = TRUE
  /\ UNCHANGED <<messages, arrived, registered, phase, read, nbytes, bytes,
                 handled, error>>

-----------------------------------------------------------------------------
\* kevent reports data without EV_EOF.
Readable ==
  /\ phase = "waiting" /\ registered
  /\ arrived > read /\ ~peerClosed
  /\ phase' = "receiving"
  /\ UNCHANGED <<peer, registered, read, nbytes, bytes, handled, error>>

\* kevent reports EV_EOF: recv_cb is called with an error and does not read
\* what has arrived; the socket leaves the kqueue.
Eof ==
  /\ phase = "waiting" /\ registered
  /\ peerClosed
  /\ registered' = FALSE
  /\ error' = TRUE
  /\ UNCHANGED <<peer, phase, read, nbytes, bytes, handled>>

\* The bytes the buffer holds already are forgotten.
BadRoom == BufSize

Room == BufSize - nbytes
Unread == arrived - read

\* The loop of recv_cb.  recv returns 0 for a closed stream, and also when
\* there is no room left to read into: both are taken for the peer's close.
Recv ==
  /\ phase = "receiving"
  /\ LET n == IF Unread < Room THEN Unread ELSE Room
     IN  \/ /\ n > 0
            /\ read' = read + n
            /\ bytes' = nbytes + n
            /\ phase' = "decoding"
            /\ UNCHANGED error
         \/ /\ n = 0
            /\ phase' = "waiting"
            /\ error' = (error \/ Room = 0 \/ peerClosed)
            /\ UNCHANGED <<read, bytes>>
  /\ UNCHANGED <<peer, registered, nbytes, handled>>

\* `<' for `<='; and no check that the message is complete.
BadComplete(size) == IF Dialect = "sized" THEN size < bytes ELSE size - Header <= bytes
BadUnchecked(size) == TRUE

\* Msg::read_s and MdMsg::read_s compare the size with the bytes at hand; so
\* does session::recv_cb, where the size does not count the header.
Complete(size) == IF Dialect = "sized" THEN size <= bytes ELSE size - Header <= bytes

\* The next message begins where the last one ended.
Decodable ==
  /\ bytes >= Header
  /\ Complete(Size(handled + 1))

\* One turn of the loop in Client::recv_cb, Client::snap_request_recv_cb,
\* Md::snap_recv_cb or session::recv_cb.  What these loops do after they have
\* consumed more than there is, is not modelled: bytes has wrapped around.
Decode ==
  /\ phase = "decoding"
  /\ bytes > 0
  /\ Decodable
  /\ handled' = handled + 1
  /\ bytes' = bytes - Size(handled + 1)
  /\ UNCHANGED <<peer, registered, phase, read, nbytes, error>>

\* The rest is kept.
BadKept == 0
Kept == bytes

\* Back in recv_cb: the rest moves to the front of the buffer.
Return ==
  /\ phase = "decoding"
  /\ bytes >= 0
  /\ bytes > 0 => ~Decodable
  /\ nbytes' = Kept
  /\ bytes' = 0
  /\ phase' = "receiving"
  /\ UNCHANGED <<peer, registered, read, handled, error>>

-----------------------------------------------------------------------------
Next ==
  \/ PeerSends \/ Segment \/ PeerCloses
  \/ Readable \/ Eof \/ Recv \/ Decode \/ Return

\* The network delivers what was sent; the process runs its event loop.
Fairness ==
  /\ WF_vars(Segment)
  /\ WF_vars(Readable \/ Eof \/ Recv \/ Decode \/ Return)

Spec == Init /\ [][Next]_vars /\ Fairness

-----------------------------------------------------------------------------
TypeOK ==
  /\ messages \in Seq(Nat)
  /\ \A n \in DOMAIN messages : Size(n) \in Sizes
  /\ arrived \in Nat /\ read \in 0..arrived
  /\ <<peerClosed, registered, error>> \in BOOLEAN \X BOOLEAN \X BOOLEAN
  /\ phase \in {"waiting", "receiving", "decoding"}
  /\ nbytes \in 0..BufSize /\ bytes \in 0..BufSize
  /\ handled \in 0..Len(messages)

\* However TCP cuts the stream, a message is handled only when the last of its
\* bytes has been read.
WholeMessagesOnly == Total(handled) <= read

\* Between two callbacks the buffer holds exactly what was read and not
\* handled, and it has room: a full one would be taken for the peer's close.
NeverTakenForClosed ==
  /\ phase # "decoding" => nbytes = read - Total(handled) /\ nbytes < BufSize
  /\ error => peerClosed

\* Every message that is sent gets handled, unless the peer closes: EV_EOF
\* discards what had arrived before it.
HandledUnlessClosed ==
  \A n \in 1..MaxMessages : Len(messages) >= n ~> handled >= n \/ peerClosed
=============================================================================
