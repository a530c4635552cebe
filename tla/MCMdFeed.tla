------------------------------ MODULE MCMdFeed ------------------------------
(* Instances of MdFeed small enough for TLC. *)
EXTENDS MdFeed
=============================================================================
