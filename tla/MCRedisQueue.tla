--------------------------- MODULE MCRedisQueue ---------------------------
(* Small instances of RedisQueue for TLC.  Clients are interchangeable. *)
EXTENDS RedisQueue

Symmetry == Permutations(Clients)
=============================================================================
