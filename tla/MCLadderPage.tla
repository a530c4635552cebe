---------------------------- MODULE MCLadderPage ----------------------------
(* Instances of LadderPage small enough for TLC. *)
EXTENDS LadderPage
=============================================================================
