--------------------------- MODULE ScopeAwareMdq ---------------------------
(***************************************************************************)
(* The metadata client of the SAML backend: gamlastan's MDQ client, which  *)
(* caches verified entities, paired with a cache of the scopes found in    *)
(* the same documents.  Concurrent requests look entities up; a per-entity *)
(* asynchronous lock serialises the lookups of one entity, a plain mutex   *)
(* guards the scope cache, and the MDQ cache is shared without either.     *)
(*                                                                         *)
(* A step is what runs between two points where another thread can         *)
(* interfere: an await, the mutex, an access to the MDQ cache.  The MDQ    *)
(* client is external: get serves a cached document or fetches one, and    *)
(* may drop entries (expiry, its own capacity) at any time.                *)
(***************************************************************************)
EXTENDS Integers, FiniteSets

CONSTANTS
  Lookups,     \* the calls of `get`, each made once
  Entities,    \* entity IDs
  Locks,       \* the lock objects lookup_lock may allocate
  Capacity,    \* MDQ_CACHE_CAPACITY
  MaxVersion,  \* bound: versions of an entity's metadata
  NoDoc, NoLock, NoLookup, NoEntity, NoAnswer

Versions == 1 .. MaxVersion
Answers == [entity: Entities, document: Versions, scopes: Versions \cup {NoDoc}]

ASSUME CapacityAssumption == Capacity \in Nat \ {0} /\ MaxVersion \in Nat \ {0}
ASSUME NullAssumption ==
  /\ NoDoc \notin Versions /\ NoLock \notin Locks /\ NoLookup \notin Lookups
  /\ NoEntity \notin Entities /\ NoAnswer \notin Answers

VARIABLES
  published,  \* the version the federation serves, per entity
  mdq,        \* MDQ cache: the version held, or NoDoc
  trusted,    \* trusted_scopes: the version whose scopes are held, or NoDoc
  mutex,      \* the lookup inside a reset of both caches, or NoLookup
  lockOf,     \* lookup_locks: the lock registered for an entity, or NoLock
  owner,      \* per lock: the lookup holding it, or NoLookup
  pc,         \* per lookup: where it is
  target,     \* per lookup: the entity asked for
  lock,       \* per lookup: its strong reference to a lock, or NoLock
  cached,     \* per lookup: the local cached_scopes
  fetched,    \* per lookup: the document the MDQ client returned, or NoDoc
  answer      \* per lookup: what get returned

vars == <<published, mdq, trusted, mutex, lockOf, owner, pc, target, lock,
          cached, fetched, answer>>

Phases == {"new", "waiting", "locked", "resetting", "asking", "hit",
           "fetching", "accepted", "promoting", "done"}

TypeOK ==
  /\ published \in [Entities -> Versions]
  /\ mdq \in [Entities -> Versions \cup {NoDoc}]
  /\ trusted \in [Entities -> Versions \cup {NoDoc}]
  /\ mutex \in Lookups \cup {NoLookup}
  /\ lockOf \in [Entities -> Locks \cup {NoLock}]
  /\ owner \in [Locks -> Lookups \cup {NoLookup}]
  /\ pc \in [Lookups -> Phases]
  /\ target \in [Lookups -> Entities \cup {NoEntity}]
  /\ lock \in [Lookups -> Locks \cup {NoLock}]
  /\ cached \in [Lookups -> Versions \cup {NoDoc}]
  /\ fetched \in [Lookups -> Versions \cup {NoDoc}]
  /\ answer \in [Lookups -> Answers \cup {NoAnswer}]

Init ==
  /\ published = [e \in Entities |-> 1]
  /\ mdq = [e \in Entities |-> NoDoc]
  /\ trusted = [e \in Entities |-> NoDoc]
  /\ mutex = NoLookup
  /\ lockOf = [e \in Entities |-> NoLock]
  /\ owner = [k \in Locks |-> NoLookup]
  /\ pc = [l \in Lookups |-> "new"]
  /\ target = [l \in Lookups |-> NoEntity]
  /\ lock = [l \in Lookups |-> NoLock]
  /\ cached = [l \in Lookups |-> NoDoc]
  /\ fetched = [l \in Lookups |-> NoDoc]
  /\ answer = [l \in Lookups |-> NoAnswer]

----------------------------------------------------------------------------
(* lookup_lock and the guard                                               *)

(* A lock lives as long as some lookup refers to it.                       *)
Alive(k) == \E l \in Lookups : lock[l] = k

LookupLock(e) ==
  IF lockOf[e] # NoLock /\ Alive(lockOf[e]) THEN {lockOf[e]} ELSE {k \in Locks : ~Alive(k)}

(* lookup_lock drops the dead entries, then upgrades or registers one.     *)
Enter(l, e) ==
  /\ pc[l] = "new"
  /\ \E k \in LookupLock(e) :
       /\ lock' = [lock EXCEPT ![l] = k]
       /\ lockOf' = [x \in Entities |-> IF x = e THEN k
                                        ELSE IF lockOf[x] # NoLock /\ Alive(lockOf[x])
                                        THEN lockOf[x] ELSE NoLock]
  /\ target' = [target EXCEPT ![l] = e]
  /\ pc' = [pc EXCEPT ![l] = "waiting"]
  /\ UNCHANGED <<published, mdq, trusted, mutex, owner, cached, fetched, answer>>

Acquire(l) ==
  /\ pc[l] = "waiting" /\ owner[lock[l]] = NoLookup
  /\ owner' = [owner EXCEPT ![lock[l]] = l]
  /\ pc' = [pc EXCEPT ![l] = "locked"]
  /\ UNCHANGED <<published, mdq, trusted, mutex, lockOf, target, lock, cached, fetched, answer>>

(* Mutant: an early return that leaks the guard.                           *)
UnlockedByNobody(l) == owner
Unlocked(l) == [k \in Locks |-> IF k = lock[l] /\ owner[k] = l THEN NoLookup ELSE owner[k]]

(* The end of a call, by return, error or drop of the future: the guard    *)
(* unlocks and the reference goes.                                         *)
Leave(l) ==
  /\ owner' = Unlocked(l)
  /\ lock' = [lock EXCEPT ![l] = NoLock]
  /\ pc' = [pc EXCEPT ![l] = "done"]
  /\ UNCHANGED <<published, lockOf, target, cached, fetched>>

Return(l, document, scopes) ==
  /\ answer' = [answer EXCEPT ![l] = [entity |-> target[l], document |-> document,
                                      scopes |-> scopes]]
  /\ Leave(l)

----------------------------------------------------------------------------
(* get                                                                     *)

Held == {e \in Entities : trusted[e] # NoDoc}

RequiresReset(e) == trusted[e] = NoDoc /\ Cardinality(Held) >= Capacity

Cleared == [e \in Entities |-> NoDoc]

(* Mutant: the scopes alone are removed.                                   *)
MdqKept == mdq
MdqCleared == Cleared

(* A reset under the mutex: clear_cache, then clear.  Lookups of other     *)
(* threads use the MDQ cache between the two.                              *)
BeginReset(l, phase) ==
  /\ mutex' = l
  /\ mdq' = MdqCleared
  /\ pc' = [pc EXCEPT ![l] = phase]
  /\ UNCHANGED <<published, trusted, lockOf, owner, target, lock, cached, fetched, answer>>

(* The local copy of the cached scopes, taken before the entity is read.   *)
ReadScopes(l) ==
  /\ pc[l] = "locked" /\ mutex = NoLookup
  /\ \/ RequiresReset(target[l]) /\ BeginReset(l, "resetting")
     \/ /\ ~RequiresReset(target[l])
        /\ cached' = [cached EXCEPT ![l] = trusted[target[l]]]
        /\ pc' = [pc EXCEPT ![l] = "asking"]
        /\ UNCHANGED <<published, mdq, trusted, mutex, lockOf, owner, target, lock,
                       fetched, answer>>

ReadAfterReset(l) ==
  /\ pc[l] = "resetting"
  /\ trusted' = Cleared
  /\ cached' = [cached EXCEPT ![l] = NoDoc]
  /\ mutex' = NoLookup
  /\ pc' = [pc EXCEPT ![l] = "asking"]
  /\ UNCHANGED <<published, mdq, lockOf, owner, target, lock, fetched, answer>>

(* The MDQ client serves the entity from its cache.                        *)
Hit(l) ==
  /\ pc[l] = "asking" /\ mdq[target[l]] # NoDoc
  /\ fetched' = [fetched EXCEPT ![l] = mdq[target[l]]]
  /\ pc' = [pc EXCEPT ![l] = "hit"]
  /\ UNCHANGED <<published, mdq, trusted, mutex, lockOf, owner, target, lock, cached, answer>>

(* Mutant: the scope cache read after the entity.                          *)
ScopesReadLate(l) == trusted[target[l]]
ScopesOnHit(l) == cached[l]

(* Nothing was captured: the entity goes out with the scopes read before.  *)
ReturnHit(l) ==
  /\ pc[l] = "hit"
  /\ Return(l, fetched[l], ScopesOnHit(l))
  /\ UNCHANGED <<mdq, trusted, mutex>>

Miss(l) ==
  /\ pc[l] = "asking" /\ mdq[target[l]] = NoDoc
  /\ pc' = [pc EXCEPT ![l] = "fetching"]
  /\ UNCHANGED <<published, mdq, trusted, mutex, lockOf, owner, target, lock, cached,
                 fetched, answer>>

(* A fetched document that the client accepts is in its cache when it      *)
(* returns; one that cannot be fetched or verified fails the lookup.       *)
Fetch(l) ==
  /\ pc[l] = "fetching"
  /\ fetched' = [fetched EXCEPT ![l] = published[target[l]]]
  /\ mdq' = [mdq EXCEPT ![target[l]] = published[target[l]]]
  /\ pc' = [pc EXCEPT ![l] = "accepted"]
  /\ UNCHANGED <<published, trusted, mutex, lockOf, owner, target, lock, cached, answer>>

FetchFails(l) ==
  /\ pc[l] = "fetching"
  /\ Leave(l)
  /\ UNCHANGED <<mdq, trusted, mutex, answer>>

(* The captured scopes are promoted, and returned with the entity.         *)
Promote(l) ==
  /\ pc[l] = "accepted" /\ mutex = NoLookup
  /\ \/ RequiresReset(target[l]) /\ BeginReset(l, "promoting")
     \/ /\ ~RequiresReset(target[l])
        /\ trusted' = [trusted EXCEPT ![target[l]] = fetched[l]]
        /\ Return(l, fetched[l], fetched[l])
        /\ UNCHANGED <<mdq, mutex>>

PromoteAfterReset(l) ==
  /\ pc[l] = "promoting"
  /\ trusted' = [Cleared EXCEPT ![target[l]] = fetched[l]]
  /\ mutex' = NoLookup
  /\ Return(l, fetched[l], fetched[l])
  /\ UNCHANGED mdq

(* The client of the request disconnects: the future is dropped at one of  *)
(* its awaits, the lock or the fetch.                                      *)
Drop(l) ==
  /\ pc[l] \in {"waiting", "fetching"}
  /\ Leave(l)
  /\ UNCHANGED <<mdq, trusted, mutex, answer>>

Publish(e) ==
  /\ published[e] < MaxVersion
  /\ published' = [published EXCEPT ![e] = @ + 1]
  /\ UNCHANGED <<mdq, trusted, mutex, lockOf, owner, pc, target, lock, cached, fetched, answer>>

(* The MDQ client drops an entry that expired or exceeds its capacity.     *)
Purge(e) ==
  /\ mdq[e] # NoDoc
  /\ mdq' = [mdq EXCEPT ![e] = NoDoc]
  /\ UNCHANGED <<published, trusted, mutex, lockOf, owner, pc, target, lock, cached,
                 fetched, answer>>

(* What a lookup does once it is called; a fetch ends in its timeout.      *)
Step(l) ==
  \/ Acquire(l) \/ ReadScopes(l) \/ ReadAfterReset(l)
  \/ Hit(l) \/ ReturnHit(l) \/ Miss(l)
  \/ Fetch(l) \/ FetchFails(l) \/ Promote(l) \/ PromoteAfterReset(l)

Next ==
  \/ \E l \in Lookups : \E e \in Entities : Enter(l, e)
  \/ \E l \in Lookups : Step(l)
  \/ \E l \in Lookups : Drop(l)
  \/ \E e \in Entities : Publish(e)
  \/ \E e \in Entities : Purge(e)

Spec == Init /\ [][Next]_vars

(* Requests are scheduled by the runtime; nobody is obliged to start one,  *)
(* to disconnect or to publish.                                            *)
FairSpec == Spec /\ \A l \in Lookups : WF_vars(Step(l))
----------------------------------------------------------------------------
(* Properties                                                              *)

(* Lookups that hold the lock of their entity.                             *)
Holding == {"locked", "resetting", "asking", "hit", "fetching", "accepted", "promoting"}

(* The answer of every lookup is one atomic read of one published document *)
(* of the entity asked for, scopes included, however the two caches are    *)
(* filled, reset and purged around it.                                     *)
Service == INSTANCE MdqLookup WITH published <- published, answer <- answer
ServesOneDocument == Service!Spec

(* The weakly referenced locks still are one lock per entity: two lookups  *)
(* of one entity never run past the lock together.                         *)
OneLookupPerEntity ==
  \A l, m \in Lookups :
    pc[l] \in Holding /\ pc[m] \in Holding /\ target[l] = target[m] => l = m

(* "Scopes are never removed independently while MDQ still retains the     *)
(* corresponding entity": an entity in the MDQ cache has the scopes of the *)
(* same document in the other, or the lookup that fetched it is about to   *)
(* promote them.                                                           *)
Promoting(e) == \E l \in Lookups : pc[l] = "accepted" /\ target[l] = e /\ fetched[l] = mdq[e]
RetainedHasScopes ==
  \A e \in Entities : mdq[e] # NoDoc => trusted[e] = mdq[e] \/ Promoting(e)

(* The scope cache keeps the bound it shares with the MDQ cache, although  *)
(* its check and its insertion are separated by a fetch.                   *)
ScopesBounded == Cardinality(Held) <= Capacity

(* A lookup that was called ends: locks, mutex and resets never leave one  *)
(* waiting for ever, whoever else disconnects or fails.                    *)
EveryLookupEnds == \A l \in Lookups : pc[l] = "waiting" ~> pc[l] = "done"

----------------------------------------------------------------------------
(* The inductive invariant                                                 *)

(* A called lookup refers to the lock registered for its entity; a lock is *)
(* owned by one of the lookups past it, and by each of them.               *)
LockInv ==
  \A l \in Lookups :
    /\ pc[l] \notin {"new", "done"} =>
         target[l] # NoEntity /\ lock[l] # NoLock /\ lockOf[target[l]] = lock[l]
    /\ pc[l] \in {"new", "done"} => lock[l] = NoLock
    /\ pc[l] \in Holding => owner[lock[l]] = l

(* Only the lookup inside a reset holds the mutex; until it has cleared    *)
(* the scopes, what others put into the MDQ cache is still to be promoted. *)
ResetInv ==
  /\ \A l \in Lookups : pc[l] \in {"resetting", "promoting"} <=> mutex = l
  /\ mutex # NoLookup => \A e \in Entities : mdq[e] # NoDoc => Promoting(e)

(* The local copies match the document the MDQ cache may serve.            *)
CopyInv ==
  \A l \in Lookups :
    /\ pc[l] = "asking" /\ mdq[target[l]] # NoDoc => cached[l] = mdq[target[l]]
    /\ pc[l] = "accepted" /\ mdq[target[l]] # NoDoc => fetched[l] = mdq[target[l]]
    /\ pc[l] \in {"hit", "accepted", "promoting"} =>
         fetched[l] # NoDoc /\ fetched[l] <= published[target[l]]
    /\ pc[l] = "hit" => cached[l] = fetched[l]

(* Nothing is cached that was not published.                               *)
PublishedInv == \A e \in Entities : mdq[e] # NoDoc => mdq[e] <= published[e]

IInv ==
  /\ TypeOK /\ LockInv /\ ResetInv /\ RetainedHasScopes /\ CopyInv /\ PublishedInv
  /\ IsFiniteSet(Held) /\ ScopesBounded

(* Whom a lookup waits for: the owner of its lock, or the lookup inside a  *)
(* reset of both caches.                                                   *)
WaitsFor(l) ==
  IF pc[l] = "waiting" THEN owner[lock[l]]
  ELSE IF pc[l] \in {"locked", "accepted"} THEN mutex ELSE NoLookup

(* The safety part of EveryLookupEnds: nobody waits for a lookup that is   *)
(* over, and at the end of a wait, at most two lookups on, is one that     *)
(* waits for nobody: no two lookups ever wait for each other.              *)
WaitsEnd ==
  \A l \in Lookups : WaitsFor(l) # NoLookup =>
    LET m == WaitsFor(l)
    IN /\ m # l /\ pc[m] \in Holding
       /\ WaitsFor(m) # NoLookup =>
            LET r == WaitsFor(m)
            IN r \notin {l, m} /\ pc[r] \in Holding /\ WaitsFor(r) = NoLookup

(* A lock is owned by nobody, or by a lookup past it.                      *)
OwnerInv ==
  \A k \in Locks : owner[k] # NoLookup => pc[owner[k]] \in Holding /\ lock[owner[k]] = k
=============================================================================
