----------------------------- MODULE MCAuditLog -----------------------------
(* Small instances of AuditLog for TLC.  Writers are interchangeable. *)
EXTENDS AuditLog, TLC

Symmetry == Permutations(Writers)
=============================================================================
