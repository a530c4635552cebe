--------------------------- MODULE MCEngineAudit ---------------------------
(* Instances of EngineAudit small enough for TLC. *)
EXTENDS EngineAudit

\* Ids are compared for equality only.
IdSymmetry == Permutations(OrderIds)
=============================================================================
