------------------------- MODULE MCDeadLetterAdmin -------------------------
(* Small instances of DeadLetterAdmin for TLC.  Clients and refs are
   interchangeable. *)
EXTENDS DeadLetterAdmin, TLC

Symmetry == Permutations(Clients) \cup Permutations(Refs)
=============================================================================
