--------------------------- MODULE MCWampSession ---------------------------
(* Instances of WampSession small enough for TLC. *)
EXTENDS WampSession, TLC

CONSTANTS t1, p1, p2

\* Two of the four endpoint types: one whose abandoned YIELD takes the next
\* message for its list, one whose frame cannot be read.
KindOf == p1 :> "list" @@ p2 :> "map"
=============================================================================
