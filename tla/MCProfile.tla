----------------------------- MODULE MCProfile -----------------------------
(* Two accounts, so that loads of two cache keys overlap, and more requests *)
(* than the cache ever has in flight.                                       *)
EXTENDS ProfileCache

CONSTANTS a, b, r1, r2, r3
=============================================================================
