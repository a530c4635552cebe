------------------------------ MODULE MCEngine ------------------------------
(* The engine with both of its observers, small enough for TLC. *)
EXTENDS EngineAudit, EngineImplements

ObservedInit == AuditInit /\ request = NoOrder

ObservedSpec ==
  ObservedInit /\ [][RequestNext /\ Audit]_<<vars, auditVars, request>>

\* Ids and symbols are compared for equality only.
NameSymmetry == Permutations(OrderIds) \cup Permutations(Symbols)
=============================================================================
