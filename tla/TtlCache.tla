------------------------------ MODULE TtlCache ------------------------------
(***************************************************************************)
(* The TTL cache under concurrent callers, and the DPoP replay store on it.*)
(*                                                                         *)
(* Every operation reads the clock before it takes the lock, so a call is  *)
(* two steps: other calls, the clock's too, come between the reading and   *)
(* the locked section.  Stall bounds how long that takes.                  *)
(***************************************************************************)
EXTENDS TtlMap

CONSTANTS
  Callers,
  LongKeys,  \* proof IDs longer than MAX_JTI_LEN
  Requests,  \* what callers ask for: operation, key, lifetime
  Stall,     \* bound: from the reading of the clock to the lock
  MaxNow,    \* bound: the clock
  Idle, Accepted, Refused, Never

ASSUME CallAssumption ==
  /\ LongKeys \subseteq Keys
  /\ Stall \in Nat /\ MaxNow \in Nat /\ MaxNow < MaxTime

Ops == {"get", "put", "put_if_absent", "prune_expired"}

ASSUME RequestAssumption == Requests \subseteq [op: Ops, key: Keys, ttl: Nat]

VARIABLES
  now,
  entries,   \* inner
  pruneAt,   \* prune_at
  poisoned,  \* whether a thread panicked inside the lock
  call,      \* per caller: idle, between its reading and the lock, or the result
  last,      \* history: the last insertion of each key
  peak       \* history: the most entries that were ever alive at once

cacheVars == <<now, entries, pruneAt, poisoned, call, last, peak>>

Pending == [op: Ops, key: Keys, ttl: Nat, read: Nat]
Insertion == [at: Nat, ttl: Nat]

ASSUME CallNulls ==
  /\ {Idle, Accepted, Refused} \cap Pending = {}
  /\ Idle # Accepted /\ Idle # Refused /\ Accepted # Refused
  /\ Never \notin Insertion

CacheTypeOK ==
  /\ now \in Nat
  /\ entries \in Maps
  /\ pruneAt \in Nat
  /\ poisoned \in BOOLEAN
  /\ call \in [Callers -> Pending \cup {Idle, Accepted, Refused}]
  /\ last \in [Keys -> Insertion \cup {Never}]
  /\ peak \in Nat

CacheInit ==
  /\ now = 0 /\ entries = EmptyMap /\ pruneAt = PruneFloor /\ poisoned = FALSE
  /\ call = [c \in Callers |-> Idle]
  /\ last = [k \in Keys |-> Never]
  /\ peak = 0

(* The entries that some call under way may still take for live.           *)
StillAlive(m) == {k \in Keys : Live(m, k, now - Stall)}

(* now_secs(), before the lock.  A call whose ID is too long ends there.   *)
Begin(c, r) ==
  /\ call[c] = Idle
  /\ call' = [call EXCEPT ![c] =
       IF r.op = "put_if_absent" /\ r.key \in LongKeys THEN Refused
       ELSE [op |-> r.op, key |-> r.key, ttl |-> r.ttl, read |-> now]]
  /\ UNCHANGED <<now, entries, pruneAt, poisoned, last, peak>>

Calls(c, op) == call[c] \in Pending /\ call[c].op = op
Reply(c, result) == call' = [call EXCEPT ![c] = result]
NoChange == UNCHANGED <<now, entries, pruneAt, poisoned, last, peak>>

(* insert and maybe_prune, by a call that read the clock at p.read.        *)
Insert(p) ==
  LET inserted == [entries EXCEPT ![p.key] = ExpiresAt(p.read, p.ttl)]
      full == Cardinality(Present(inserted)) >= pruneAt
      swept == Swept(inserted, p.read)
  IN /\ entries' = IF full THEN swept ELSE inserted
     /\ pruneAt' = IF full THEN Rearmed(inserted, swept) ELSE pruneAt
     /\ last' = [last EXCEPT ![p.key] = [at |-> now, ttl |-> p.ttl]]
     /\ peak' = Max2(peak, Cardinality(StillAlive(inserted)))
     /\ UNCHANGED <<now, poisoned>>

CacheHit(p) == Live(entries, p.key, p.read)

(* A poisoned lock is a miss.                                              *)
Get(c) ==
  /\ Calls(c, "get")
  /\ Reply(c, IF ~poisoned /\ CacheHit(call[c]) THEN Accepted ELSE Refused)
  /\ NoChange

Put(c) ==
  /\ Calls(c, "put")
  /\ Reply(c, Idle)
  /\ IF poisoned THEN NoChange ELSE Insert(call[c])

(* Mutant: a poisoned lock counts as an empty cache.                       *)
VacantUnlocked(p) == poisoned \/ ~Live(entries, p.key, p.read)
Vacant(p) == ~poisoned /\ ~Live(entries, p.key, p.read)

(* Check and insertion under one write lock; poisoned, it fails closed.    *)
PutIfAbsent(c) ==
  /\ Calls(c, "put_if_absent")
  /\ \/ /\ ~Vacant(call[c])
        /\ Reply(c, Refused)
        /\ NoChange
     \/ /\ Vacant(call[c])
        /\ Reply(c, Accepted)
        /\ Insert(call[c])

PruneExpired(c) ==
  /\ Calls(c, "prune_expired")
  /\ Reply(c, Idle)
  /\ entries' = IF poisoned THEN entries ELSE Swept(entries, call[c].read)
  /\ UNCHANGED <<now, pruneAt, poisoned, last, peak>>

Answered(c) ==
  /\ call[c] \in {Accepted, Refused}
  /\ Reply(c, Idle)
  /\ NoChange

(* A thread panics while it holds the write lock, before its insertion.    *)
Panic(c) ==
  /\ Calls(c, "put") \/ Calls(c, "put_if_absent") \/ Calls(c, "prune_expired")
  /\ poisoned' = TRUE
  /\ Reply(c, Idle)
  /\ UNCHANGED <<now, entries, pruneAt, last, peak>>

Tick ==
  /\ now < MaxNow
  /\ \A c \in Callers : call[c] \in Pending => now - call[c].read < Stall
  /\ now' = now + 1
  /\ UNCHANGED <<entries, pruneAt, poisoned, call, last, peak>>

Locked(c) == Get(c) \/ Put(c) \/ PutIfAbsent(c) \/ PruneExpired(c)

CacheNext ==
  \/ \E c \in Callers : \E r \in Requests : Begin(c, r)
  \/ \E c \in Callers : Locked(c) \/ Answered(c) \/ Panic(c)
  \/ Tick

CacheSpec == CacheInit /\ [][CacheNext]_cacheVars

----------------------------------------------------------------------------
(* Properties                                                              *)

Accepts(c) == PutIfAbsent(c) /\ call'[c] = Accepted

(* Replay protection: put_if_absent accepts a key only once its TTL is over*)
(* since the last insertion, up to the time a call may spend before the    *)
(* lock - however the sweeps of later callers overtake it.                 *)
ReplayWindow ==
  [][\A c \in Callers :
       Accepts(c) /\ last[call[c].key] # Never =>
         now - last[call[c].key].at >= last[call[c].key].ttl - Stall]_cacheVars

(* A value is not served TTL, and the same time, after its insertion.      *)
NoStaleHit ==
  [][\A c \in Callers :
       Get(c) /\ call'[c] = Accepted =>
         /\ last[call[c].key] # Never
         /\ now - last[call[c].key].at < last[call[c].key].ttl + Stall]_cacheVars

(* Expired keys are reclaimed without a maintenance task: the map never    *)
(* holds twice as many entries as were alive at once.                      *)
Bounded == Cardinality(Present(entries)) < Max2(PruneFloor, 2 * peak)

----------------------------------------------------------------------------
(* The inductive invariant                                                 *)

CallInv == \A c \in Callers :
  call[c] \in Pending => call[c].read <= now /\ now - call[c].read <= Stall

(* An entry lasts as its last insertion said, give or take Stall, unless   *)
(* the clock can never reach its expiry; it is swept no earlier.           *)
EntryInv == \A k \in Keys :
  IF last[k] = Never THEN entries[k] = Absent
  ELSE LET due == last[k].at + last[k].ttl
       IN /\ last[k].at <= now
          /\ IF entries[k] = Absent THEN now >= due - Stall
             ELSE entries[k] <= due /\ (entries[k] >= due - Stall \/ entries[k] = MaxTime)

PruneInv ==
  /\ Cardinality(Present(entries)) < pruneAt
  /\ pruneAt <= Max2(PruneFloor, 2 * peak)

CacheInv == CacheTypeOK /\ now <= MaxNow /\ CallInv /\ EntryInv /\ PruneInv
=============================================================================
