------------------------------- MODULE TtlMap -------------------------------
(***************************************************************************)
(* The map inside a TtlCache, as values: the expiry of the entry of each   *)
(* key, or Absent.  What a value is is left out; every cache here is asked *)
(* only whether it has a live one.                                         *)
(***************************************************************************)
EXTENDS Integers, FiniteSets

CONSTANTS
  Keys,
  PruneFloor,  \* PRUNE_FLOOR
  MaxTime,     \* the largest u64
  Absent

ASSUME MapAssumption ==
  /\ IsFiniteSet(Keys)
  /\ PruneFloor \in Nat \ {0} /\ MaxTime \in Nat
  /\ Absent \notin Nat

Maps == [Keys -> Nat \cup {Absent}]
EmptyMap == [k \in Keys |-> Absent]
Present(m) == {k \in Keys : m[k] # Absent}

(* An entry is live for a reading of the clock strictly before its expiry. *)
Live(m, k, t) == m[k] # Absent /\ m[k] > t

(* saturating_add: a huge TTL never wraps into the past.                   *)
ExpiresAt(t, ttl) == IF t + ttl > MaxTime THEN MaxTime ELSE t + ttl

Swept(m, t) == [k \in Keys |-> IF Live(m, k, t) THEN m[k] ELSE Absent]

Max2(a, b) == IF a > b THEN a ELSE b

(* The size at which the next sweep fires, after one of a full map.        *)
Rearmed(full, swept) == Max2(2 * Cardinality(Present(swept)), PruneFloor)
=============================================================================
