-------------------------- MODULE MCSubmitLimiter --------------------------
(* Small instances of SubmitLimiter for TLC.  Clients and tenants are
   interchangeable. *)
EXTENDS SubmitLimiter, TLC

Symmetry == Permutations(Clients) \cup Permutations(Tenants)
=============================================================================
