---------------------------- MODULE MCLevelFeed ----------------------------
(* Instances of LevelFeed small enough for TLC. *)
EXTENDS LevelFeed
=============================================================================
