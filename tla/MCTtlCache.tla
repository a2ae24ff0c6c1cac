----------------------------- MODULE MCTtlCache -----------------------------
(***************************************************************************)
(* A cache of two short proof IDs and an over-long one, for TLC.           *)
(***************************************************************************)
EXTENDS TtlCache, TLC

CONSTANTS C1, C2, K1, K2, K3

Ask(op, k, ttl) == [op |-> op, key |-> k, ttl |-> ttl]

(* A proof ID presented again, one kept for ever, one too long, a value    *)
(* overwritten by one that expires at once, and the readers.               *)
SomeRequests ==
  {Ask("put_if_absent", K1, 2), Ask("put_if_absent", K2, 9), Ask("put_if_absent", K3, 2),
   Ask("put", K2, 0), Ask("get", K1, 0), Ask("get", K2, 0), Ask("prune_expired", K1, 0)}

Symmetry == Permutations({C1, C2})
=============================================================================
