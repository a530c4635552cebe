--------------------------- MODULE MCSocketStream ---------------------------
(* Instances of SocketStream small enough for TLC. *)
EXTENDS SocketStream
=============================================================================
