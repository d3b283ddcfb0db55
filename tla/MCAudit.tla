-------------------------------- MODULE MCAudit --------------------------------
(* Small instances of AuditChain. *)
EXTENDS AuditProperties, TLC

EventSymmetry == Permutations(Event)
=============================================================================
