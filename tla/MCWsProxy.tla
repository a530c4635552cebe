----------------------------- MODULE MCWsProxy -----------------------------
(* Instances of WsProxy small enough for TLC. *)
EXTENDS WsProxy
=============================================================================
