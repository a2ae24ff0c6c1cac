---------------------------- MODULE CacheProofs ----------------------------
(***************************************************************************)
(* Proofs about the two caches: the TTL cache, for any number of callers   *)
(* and keys, any lifetimes and any delay between the reading of the clock  *)
(* and the lock; and the metadata client, for any number of lookups,       *)
(* entities, locks and versions, and any capacity.                         *)
(***************************************************************************)
EXTENDS TtlCache, ScopeAwareMdq, FiniteSetTheorems, TLAPS

----------------------------------------------------------------------------
(* The TTL cache and the replay store                                      *)

LEMMA Constants ==
  /\ IsFiniteSet(Keys)
  /\ PruneFloor \in Nat \ {0} /\ MaxTime \in Nat /\ Absent \notin Nat
  /\ Stall \in Nat /\ MaxNow \in Nat /\ MaxNow < MaxTime
  /\ {Idle, Accepted, Refused} \cap Pending = {}
  /\ Idle # Accepted /\ Idle # Refused /\ Accepted # Refused
  /\ Never \notin Insertion
BY MapAssumption, CallAssumption, CallNulls

(* A smaller set of keys is no larger.                                     *)
LEMMA SizeFact ==
  ASSUME NEW S \in SUBSET Keys, NEW T \in SUBSET S
  PROVE  Cardinality(S) \in Nat /\ Cardinality(T) \in Nat /\ Cardinality(T) <= Cardinality(S)
<1>1. IsFiniteSet(S)
  BY Constants, FS_Subset
<1>2. IsFiniteSet(T) /\ Cardinality(T) <= Cardinality(S)
  BY <1>1, FS_Subset
<1> QED
  BY <1>1, <1>2, FS_CardinalityType

LEMMA Max2Fact ==
  ASSUME NEW a \in Nat, NEW b \in Nat
  PROVE  Max2(a, b) \in Nat /\ a <= Max2(a, b) /\ b <= Max2(a, b)
BY DEF Max2

LEMMA ExpiresAtFact ==
  ASSUME NEW t \in Nat, NEW ttl \in Nat
  PROVE  /\ ExpiresAt(t, ttl) \in Nat
         /\ ExpiresAt(t, ttl) <= t + ttl
         /\ ExpiresAt(t, ttl) = t + ttl \/ ExpiresAt(t, ttl) = MaxTime
BY Constants DEF ExpiresAt

(* A sweep keeps what is live and shrinks the map.                         *)
LEMMA SweptFact ==
  ASSUME NEW m \in Maps, NEW t \in Nat
  PROVE  /\ Swept(m, t) \in Maps
         /\ \A k \in Keys : IF Live(m, k, t) THEN Swept(m, t)[k] = m[k]
                            ELSE Swept(m, t)[k] = Absent
         /\ Present(Swept(m, t)) \subseteq Present(m)
BY DEF Swept, Maps, Present, Live

----------------------------------------------------------------------------
(* The parts of the invariant a locked section can disturb                 *)

(* Swept by a call's reading, an entry is over for everyone but the calls  *)
(* of the last Stall.                                                      *)
LEMMA SweepKeepsEntries ==
  ASSUME CacheInv, NEW t \in Nat, t <= now, NEW m \in Maps, NEW ins \in [Keys -> Insertion \cup {Never}],
         \A k \in Keys :
           IF ins[k] = Never THEN m[k] = Absent
           ELSE LET due == ins[k].at + ins[k].ttl
                IN /\ ins[k].at <= now
                   /\ IF m[k] = Absent THEN now >= due - Stall
                      ELSE m[k] <= due /\ (m[k] >= due - Stall \/ m[k] = MaxTime),
         NEW k \in Keys
  PROVE  IF ins[k] = Never THEN Swept(m, t)[k] = Absent
         ELSE LET due == ins[k].at + ins[k].ttl
              IN /\ ins[k].at <= now
                 /\ IF Swept(m, t)[k] = Absent THEN now >= due - Stall
                    ELSE Swept(m, t)[k] <= due
                         /\ (Swept(m, t)[k] >= due - Stall \/ Swept(m, t)[k] = MaxTime)
<1>1. now \in Nat /\ now < MaxTime /\ MaxTime \in Nat /\ Stall \in Nat
  BY Constants DEF CacheInv, CacheTypeOK
<1>2. CASE ins[k] = Never
  BY <1>2, SweptFact
<1>3. CASE ins[k] # Never
  <2>1. ins[k].at \in Nat /\ ins[k].ttl \in Nat /\ m[k] \in Nat \cup {Absent}
    BY <1>3 DEF Insertion, Maps
  <2>2. CASE Live(m, k, t)
    BY <1>1, <1>3, <2>1, <2>2, SweptFact DEF Live
  <2>3. CASE ~Live(m, k, t)
    <3>1. Swept(m, t)[k] = Absent
      BY <2>3, SweptFact
    <3>2. m[k] = Absent \/ (m[k] \in Nat /\ m[k] <= t)
      BY <2>1, <2>3 DEF Live
    <3>3. now >= ins[k].at + ins[k].ttl - Stall
      BY <1>1, <1>3, <2>1, <3>2
    <3>4. ins[k].at <= now
      BY <1>3
    <3> QED
      BY <1>1, <1>3, <2>1, <3>1, <3>3, <3>4
  <2> QED
    BY <2>2, <2>3
<1> QED
  BY <1>2, <1>3

(* insert and maybe_prune.                                                 *)
LEMMA InsertKeeps ==
  ASSUME CacheInv, NEW p \in Pending, p.read <= now, now - p.read <= Stall, Insert(p)
  PROVE  /\ entries' \in Maps /\ pruneAt' \in Nat /\ peak' \in Nat
         /\ last' \in [Keys -> Insertion \cup {Never}]
         /\ now' = now /\ poisoned' = poisoned
         /\ EntryInv' /\ PruneInv'
<1> DEFINE inserted == [entries EXCEPT ![p.key] = ExpiresAt(p.read, p.ttl)]
           full == Cardinality(Present(inserted)) >= pruneAt
           swept == Swept(inserted, p.read)
           ins == [last EXCEPT ![p.key] = [at |-> now, ttl |-> p.ttl]]
<1>1. /\ p.key \in Keys /\ p.ttl \in Nat /\ p.read \in Nat
      /\ now \in Nat /\ entries \in Maps /\ pruneAt \in Nat /\ peak \in Nat
      /\ last \in [Keys -> Insertion \cup {Never}]
      /\ PruneFloor \in Nat \ {0} /\ Stall \in Nat /\ MaxTime \in Nat /\ Absent \notin Nat
  BY Constants DEF CacheInv, CacheTypeOK, Pending
<1>2. /\ entries' = (IF full THEN swept ELSE inserted)
      /\ pruneAt' = (IF full THEN Rearmed(inserted, swept) ELSE pruneAt)
      /\ last' = ins
      /\ peak' = Max2(peak, Cardinality(StillAlive(inserted)))
      /\ now' = now /\ poisoned' = poisoned
  BY DEF Insert
<1>3. inserted \in Maps /\ swept \in Maps
  <2>1. inserted \in Maps
    BY <1>1, ExpiresAtFact DEF Maps
  <2> QED
    BY <1>1, <2>1, SweptFact
<1>4. ins \in [Keys -> Insertion \cup {Never}]
  BY <1>1 DEF Insertion
<1>5. \A k \in Keys :
        IF ins[k] = Never THEN inserted[k] = Absent
        ELSE LET due == ins[k].at + ins[k].ttl
             IN /\ ins[k].at <= now
                /\ IF inserted[k] = Absent THEN now >= due - Stall
                   ELSE inserted[k] <= due /\ (inserted[k] >= due - Stall \/ inserted[k] = MaxTime)
  <2> TAKE k \in Keys
  <2>1. CASE k = p.key
    <3>1. /\ ins[k] = [at |-> now, ttl |-> p.ttl] /\ ins[k] # Never
          /\ inserted[k] = ExpiresAt(p.read, p.ttl)
      BY <1>1, <2>1, Constants DEF Insertion, Maps
    <3>2. /\ inserted[k] \in Nat /\ inserted[k] <= p.read + p.ttl
          /\ inserted[k] = p.read + p.ttl \/ inserted[k] = MaxTime
      BY <1>1, <3>1, ExpiresAtFact
    <3> QED
      BY <1>1, <3>1, <3>2
  <2>2. CASE k # p.key
    <3>1. ins[k] = last[k] /\ inserted[k] = entries[k]
      BY <1>1, <2>2 DEF Maps
    <3> QED
      BY <3>1 DEF CacheInv, EntryInv
  <2> QED
    BY <2>1, <2>2
<1>6. EntryInv'
  <2>1. CASE ~full
    BY <1>2, <1>5, <2>1 DEF EntryInv
  <2>2. CASE full
    <3>1. \A k \in Keys :
            IF ins[k] = Never THEN swept[k] = Absent
            ELSE LET due == ins[k].at + ins[k].ttl
                 IN /\ ins[k].at <= now
                    /\ IF swept[k] = Absent THEN now >= due - Stall
                       ELSE swept[k] <= due /\ (swept[k] >= due - Stall \/ swept[k] = MaxTime)
      <4> HIDE DEF inserted, ins
      <4> QED
        BY <1>1, <1>3, <1>4, <1>5, SweepKeepsEntries
    <3> QED
      BY <1>2, <2>2, <3>1 DEF EntryInv
  <2> QED
    BY <2>1, <2>2
<1>7. /\ Present(swept) \subseteq StillAlive(inserted)
      /\ StillAlive(inserted) \subseteq Keys /\ Present(inserted) \subseteq Keys
  <2>1. ASSUME NEW k \in Present(swept) PROVE k \in StillAlive(inserted)
    <3>1. k \in Keys /\ swept[k] # Absent
      BY DEF Present
    <3>2. Live(inserted, k, p.read) /\ inserted[k] \in Nat \cup {Absent}
      BY <1>1, <1>3, <3>1, SweptFact DEF Maps
    <3>3. Live(inserted, k, now - Stall)
      BY <1>1, <3>2 DEF Live
    <3> QED
      BY <3>1, <3>3 DEF StillAlive
  <2> QED
    BY <2>1 DEF StillAlive, Present
<1>8. /\ Cardinality(Present(swept)) \in Nat /\ Cardinality(StillAlive(inserted)) \in Nat
      /\ Cardinality(Present(inserted)) \in Nat
      /\ Cardinality(Present(swept)) <= Cardinality(StillAlive(inserted))
  <2> HIDE DEF inserted, swept
  <2> QED
    BY <1>7, SizeFact
<1>9. /\ peak' \in Nat /\ peak <= peak' /\ Cardinality(StillAlive(inserted)) <= peak'
  BY <1>1, <1>2, <1>8, Max2Fact
<1>10. PruneInv' /\ pruneAt' \in Nat
  <2>1. CASE ~full
    BY <1>1, <1>2, <1>8, <1>9, <2>1 DEF CacheInv, PruneInv, Max2
  <2>2. CASE full
    BY <1>1, <1>2, <1>8, <1>9, <2>2 DEF PruneInv, Rearmed, Max2
  <2> QED
    BY <2>1, <2>2
<1> QED
  BY <1>2, <1>3, <1>4, <1>6, <1>9, <1>10

(* The calls but one stay, and that one is over.                           *)
LEMMA ReplyKeeps ==
  ASSUME CacheInv, NEW c \in Callers, NEW result \in {Idle, Accepted, Refused},
         Reply(c, result), now' = now
  PROVE  /\ call' \in [Callers -> Pending \cup {Idle, Accepted, Refused}]
         /\ CallInv'
<1>1. /\ call \in [Callers -> Pending \cup {Idle, Accepted, Refused}]
      /\ call' = [call EXCEPT ![c] = result] /\ result \notin Pending
  BY Constants DEF CacheInv, CacheTypeOK, Reply
<1> QED
  BY <1>1 DEF CacheInv, CallInv

----------------------------------------------------------------------------
(* The actions                                                             *)

LEMMA Initial == ASSUME CacheInit PROVE CacheInv
<1>1. CacheTypeOK
  BY Constants DEF CacheInit, CacheTypeOK, Maps, EmptyMap
<1>2. Present(entries) = {} /\ Cardinality(Present(entries)) = 0
  BY FS_EmptySet DEF CacheInit, EmptyMap, Present
<1>3. PruneInv
  BY <1>2, Constants DEF CacheInit, PruneInv, Max2
<1> QED
  BY <1>1, <1>3, Constants DEF CacheInit, CacheInv, CallInv, EntryInv, EmptyMap

LEMMA BeginKeeps == ASSUME CacheInv, NEW c \in Callers, NEW r \in Requests, Begin(c, r) PROVE CacheInv'
<1> DEFINE p == [op |-> r.op, key |-> r.key, ttl |-> r.ttl, read |-> now]
           b == IF r.op = "put_if_absent" /\ r.key \in LongKeys THEN Refused ELSE p
<1>1. call' = [call EXCEPT ![c] = b] /\ UNCHANGED <<now, entries, pruneAt, poisoned, last, peak>>
  BY DEF Begin
<1>2. p \in Pending /\ p.read = now /\ now \in Nat /\ Stall \in Nat
  BY RequestAssumption, Constants DEF CacheInv, CacheTypeOK, Pending
<1>3. CacheTypeOK'
  BY <1>1, <1>2 DEF CacheInv, CacheTypeOK
<1>4. CallInv'
  BY <1>1, <1>2, Constants DEF CacheInv, CacheTypeOK, CallInv
<1>5. EntryInv' /\ PruneInv' /\ now' <= MaxNow
  BY <1>1 DEF CacheInv, EntryInv, PruneInv
<1> QED
  BY <1>3, <1>4, <1>5 DEF CacheInv

(* A locked section that leaves the map alone.                             *)
LEMMA NoChangeKeeps ==
  ASSUME CacheInv, NEW c \in Callers, NEW result \in {Idle, Accepted, Refused},
         Reply(c, result), NoChange
  PROVE  CacheInv'
<1>1. UNCHANGED <<now, entries, pruneAt, poisoned, last, peak>>
  BY DEF NoChange
<1>2. call' \in [Callers -> Pending \cup {Idle, Accepted, Refused}] /\ CallInv'
  BY <1>1, ReplyKeeps
<1> QED
  BY <1>1, <1>2 DEF CacheInv, CacheTypeOK, EntryInv, PruneInv

LEMMA InsertReplyKeeps ==
  ASSUME CacheInv, NEW c \in Callers, NEW result \in {Idle, Accepted, Refused},
         call[c] \in Pending, Reply(c, result), Insert(call[c])
  PROVE  CacheInv'
<1>1. call[c].read <= now /\ now - call[c].read <= Stall
  BY DEF CacheInv, CallInv
<1>2. /\ entries' \in Maps /\ pruneAt' \in Nat /\ peak' \in Nat
      /\ last' \in [Keys -> Insertion \cup {Never}]
      /\ now' = now /\ poisoned' = poisoned
      /\ EntryInv' /\ PruneInv'
  BY <1>1, InsertKeeps
<1>3. call' \in [Callers -> Pending \cup {Idle, Accepted, Refused}] /\ CallInv'
  BY <1>2, ReplyKeeps
<1> QED
  BY <1>2, <1>3 DEF CacheInv, CacheTypeOK

LEMMA PruneKeeps == ASSUME CacheInv, NEW c \in Callers, PruneExpired(c) PROVE CacheInv'
<1> DEFINE t == call[c].read
<1>1. /\ call[c] \in Pending /\ t \in Nat /\ t <= now /\ entries \in Maps
      /\ last \in [Keys -> Insertion \cup {Never}]
  BY DEF CacheInv, CacheTypeOK, PruneExpired, Calls, Pending, CallInv
<1>2. /\ Reply(c, Idle) /\ entries' = (IF poisoned THEN entries ELSE Swept(entries, t))
      /\ UNCHANGED <<now, pruneAt, poisoned, last, peak>>
  BY DEF PruneExpired
<1>3. call' \in [Callers -> Pending \cup {Idle, Accepted, Refused}] /\ CallInv'
  BY <1>2, ReplyKeeps
<1>4. CASE poisoned
  BY <1>2, <1>3, <1>4 DEF CacheInv, CacheTypeOK, EntryInv, PruneInv
<1>5. CASE ~poisoned
  <2>1. entries' = Swept(entries, t) /\ entries' \in Maps
        /\ Present(entries') \subseteq Present(entries)
    BY <1>1, <1>2, <1>5, SweptFact
  <2>2. Cardinality(Present(entries')) <= Cardinality(Present(entries))
        /\ Cardinality(Present(entries')) \in Nat /\ Cardinality(Present(entries)) \in Nat
    BY <2>1, SizeFact DEF Present
  <2>3. PruneInv'
    BY <1>2, <2>2 DEF CacheInv, CacheTypeOK, PruneInv
  <2>4. EntryInv
    BY DEF CacheInv
  <2>5. EntryInv'
    BY <1>1, <1>2, <2>1, <2>4, SweepKeepsEntries DEF EntryInv
  <2> QED
    BY <1>2, <1>3, <2>1, <2>3, <2>5 DEF CacheInv, CacheTypeOK
<1> QED
  BY <1>4, <1>5

LEMMA TickKeeps == ASSUME CacheInv, Tick PROVE CacheInv'
<1>1. /\ now \in Nat /\ now' = now + 1 /\ now < MaxNow /\ MaxNow \in Nat /\ Stall \in Nat
      /\ \A c \in Callers : call[c] \in Pending => now - call[c].read < Stall
      /\ UNCHANGED <<entries, pruneAt, poisoned, call, last, peak>>
  BY Constants DEF CacheInv, CacheTypeOK, Tick
<1>2. CacheTypeOK' /\ now' <= MaxNow
  BY <1>1 DEF CacheInv, CacheTypeOK
<1>3. CallInv'
  BY <1>1 DEF CacheInv, CallInv, Pending
<1>4. EntryInv'
  <2> SUFFICES ASSUME NEW k \in Keys, last[k] # Never
               PROVE  LET due == last[k].at + last[k].ttl
                      IN /\ last[k].at <= now + 1
                         /\ IF entries[k] = Absent THEN now + 1 >= due - Stall
                            ELSE entries[k] <= due
                                 /\ (entries[k] >= due - Stall \/ entries[k] = MaxTime)
    BY <1>1 DEF CacheInv, EntryInv
  <2>1. last[k].at \in Nat /\ last[k].ttl \in Nat
    BY DEF CacheInv, CacheTypeOK, Insertion
  <2> QED
    BY <1>1, <2>1 DEF CacheInv, EntryInv
<1>5. PruneInv'
  BY <1>1 DEF CacheInv, PruneInv
<1> QED
  BY <1>2, <1>3, <1>4, <1>5 DEF CacheInv

LEMMA LockedKeeps == ASSUME CacheInv, NEW c \in Callers, Locked(c) PROVE CacheInv'
<1>1. CASE Get(c)
  BY <1>1, NoChangeKeeps DEF Get
<1>2. CASE Put(c)
  BY <1>2, NoChangeKeeps, InsertReplyKeeps DEF Put, Calls
<1>3. CASE PutIfAbsent(c)
  BY <1>3, NoChangeKeeps, InsertReplyKeeps DEF PutIfAbsent, Calls
<1>4. CASE PruneExpired(c)
  BY <1>4, PruneKeeps
<1> QED
  BY <1>1, <1>2, <1>3, <1>4 DEF Locked

LEMMA PanicKeeps == ASSUME CacheInv, NEW c \in Callers, Panic(c) PROVE CacheInv'
<1>1. /\ Reply(c, Idle) /\ poisoned' = TRUE
      /\ UNCHANGED <<now, entries, pruneAt, last, peak>>
  BY DEF Panic
<1>2. call' \in [Callers -> Pending \cup {Idle, Accepted, Refused}] /\ CallInv'
  BY <1>1, ReplyKeeps
<1> QED
  BY <1>1, <1>2 DEF CacheInv, CacheTypeOK, EntryInv, PruneInv

LEMMA CacheStep == ASSUME CacheInv, [CacheNext]_cacheVars PROVE CacheInv'
<1>1. CASE \E c \in Callers : \E r \in Requests : Begin(c, r)
  BY <1>1, BeginKeeps
<1>2. ASSUME NEW c \in Callers, Locked(c) PROVE CacheInv'
  BY <1>2, LockedKeeps
<1>3. ASSUME NEW c \in Callers, Answered(c) PROVE CacheInv'
  BY <1>3, NoChangeKeeps DEF Answered
<1>4. ASSUME NEW c \in Callers, Panic(c) PROVE CacheInv'
  BY <1>4, PanicKeeps
<1>5. CASE Tick
  BY <1>5, TickKeeps
<1>6. CASE UNCHANGED cacheVars
  BY <1>6 DEF cacheVars, CacheInv, CacheTypeOK, CallInv, EntryInv, PruneInv
<1> QED
  BY <1>1, <1>2, <1>3, <1>4, <1>5, <1>6 DEF CacheNext

(* The inductive invariant of the cache: every entry lasts as long as its  *)
(* last insertion said, give or take the delay before the lock.            *)
THEOREM CacheInvariance == CacheSpec => []CacheInv
<1>1. CacheInit => CacheInv
  BY Initial
<1>2. CacheInv /\ [CacheNext]_cacheVars => CacheInv'
  BY CacheStep
<1> QED
  BY <1>1, <1>2, PTL DEF CacheSpec

(* The map never holds twice as many entries as were alive at once.        *)
THEOREM MemoryBounded == CacheSpec => []Bounded
<1>1. CacheInv => Bounded
  <2>1. ASSUME CacheInv PROVE Bounded
    <3>1. Cardinality(Present(entries)) \in Nat
      BY SizeFact DEF Present
    <3>2. pruneAt \in Nat /\ peak \in Nat /\ PruneFloor \in Nat
      BY <2>1, Constants DEF CacheInv, CacheTypeOK
    <3> QED
      BY <2>1, <3>1, <3>2 DEF CacheInv, PruneInv, Bounded, Max2
  <2> QED
    BY <2>1
<1> QED
  BY <1>1, CacheInvariance, PTL

(* put_if_absent accepts a key again only after its TTL, less Stall.       *)
THEOREM ReplaysRefused == CacheSpec => ReplayWindow
<1> DEFINE Late(c) == Accepts(c) /\ last[call[c].key] # Never =>
                        now - last[call[c].key].at >= last[call[c].key].ttl - Stall
<1>1. ASSUME CacheInv, NEW c \in Callers, Accepts(c), last[call[c].key] # Never
      PROVE  now - last[call[c].key].at >= last[call[c].key].ttl - Stall
  <2> DEFINE p == call[c]
             k == p.key
  <2>1. p \in Pending /\ Vacant(p)
    BY <1>1, Constants DEF Accepts, PutIfAbsent, Calls, Reply, CacheInv, CacheTypeOK
  <2>2. /\ k \in Keys /\ p.read \in Nat /\ p.read <= now /\ now \in Nat
        /\ now < MaxTime /\ MaxTime \in Nat /\ Stall \in Nat
        /\ last[k].at \in Nat /\ last[k].ttl \in Nat
        /\ entries[k] \in Nat \cup {Absent}
    BY <1>1, <2>1, Constants DEF CacheInv, CacheTypeOK, Pending, CallInv, Insertion, Maps
  <2>3. entries[k] = Absent \/ entries[k] <= p.read
    BY <2>1, <2>2 DEF Vacant, Live
  <2> QED
    BY <1>1, <2>2, <2>3, Constants DEF CacheInv, EntryInv
<1>2. CacheInv /\ [CacheNext]_cacheVars => [\A c \in Callers : Late(c)]_cacheVars
  BY <1>1
<1> QED
  BY <1>2, CacheInvariance, PTL DEF CacheSpec, ReplayWindow

(* No value is served TTL, and Stall, after its insertion.                 *)
THEOREM HitsAreFresh == CacheSpec => NoStaleHit
<1> DEFINE Prompt(c) == Get(c) /\ call'[c] = Accepted =>
                          /\ last[call[c].key] # Never
                          /\ now - last[call[c].key].at < last[call[c].key].ttl + Stall
<1>1. ASSUME CacheInv, NEW c \in Callers, Get(c), call'[c] = Accepted
      PROVE  /\ last[call[c].key] # Never
             /\ now - last[call[c].key].at < last[call[c].key].ttl + Stall
  <2> DEFINE p == call[c]
             k == p.key
  <2>1. p \in Pending /\ CacheHit(p)
    BY <1>1, Constants DEF Get, Calls, Reply, CacheInv, CacheTypeOK
  <2>2. /\ k \in Keys /\ p.read \in Nat /\ now - p.read <= Stall /\ now \in Nat
        /\ Stall \in Nat /\ entries[k] # Absent /\ entries[k] > p.read
        /\ entries[k] \in Nat \cup {Absent}
    BY <1>1, <2>1, Constants DEF CacheInv, CacheTypeOK, Pending, CallInv, Maps, CacheHit, Live
  <2>3. last[k] # Never
    BY <1>1, <2>2 DEF CacheInv, EntryInv
  <2>4. last[k].at \in Nat /\ last[k].ttl \in Nat /\ entries[k] <= last[k].at + last[k].ttl
    BY <1>1, <2>2, <2>3 DEF CacheInv, CacheTypeOK, EntryInv, Insertion
  <2> QED
    BY <2>2, <2>3, <2>4
<1>2. CacheInv /\ [CacheNext]_cacheVars => [\A c \in Callers : Prompt(c)]_cacheVars
  BY <1>1
<1> QED
  BY <1>2, CacheInvariance, PTL DEF CacheSpec, NoStaleHit

----------------------------------------------------------------------------
(* The metadata client                                                     *)

(* The last conjuncts of the invariant, under one name.                    *)
BoundInv == IsFiniteSet(Held) /\ ScopesBounded

(* Facts about the constants that every step needs.                        *)
LEMMA Nulls ==
  /\ Versions \subseteq Nat \ {0} /\ NoDoc \notin Versions
  /\ NoLock \notin Locks /\ NoLookup \notin Lookups /\ NoEntity \notin Entities
  /\ Capacity \in Nat \ {0}
BY CapacityAssumption, NullAssumption DEF Versions

LEMMA VersionFacts ==
  ASSUME NEW v \in Versions
  PROVE  v \in Nat /\ v <= v /\ v # NoDoc /\ v + 1 \in Nat /\ v <= v + 1
<1>1. v \in Nat
  BY DEF Versions
<1> QED
  BY <1>1, Nulls

(* A called lookup asks for an entity and refers to a lock.                *)
LEMMA Called ==
  ASSUME TypeOK, LockInv, NEW l \in Lookups, pc[l] \notin {"new", "done"}
  PROVE  /\ target[l] \in Entities /\ lock[l] \in Locks
         /\ lockOf[target[l]] = lock[l]
BY Nulls DEF TypeOK, LockInv

(* Two lookups past the lock of one entity are the same lookup.            *)
LEMMA OneHolder ==
  ASSUME TypeOK, LockInv, NEW l \in Lookups, NEW m \in Lookups,
         pc[l] \in Holding, pc[m] \in Holding, target[l] = target[m]
  PROVE  l = m
<1>1. lock[l] = lock[m]
  BY Called DEF Holding
<1> QED
  BY <1>1 DEF LockInv

(* A step of a lookup that promotes nothing leaves the promotions alone.   *)
LEMMA PromotingKept ==
  ASSUME NEW l \in Lookups, NEW e \in Entities, Promoting(e), pc[l] # "accepted",
         \A m \in Lookups \ {l} :
           pc'[m] = pc[m] /\ target'[m] = target[m] /\ fetched'[m] = fetched[m],
         mdq'[e] = mdq[e]
  PROVE  Promoting(e)'
BY DEF Promoting

----------------------------------------------------------------------------
(* The actions                                                             *)

LEMMA EnterKeeps ==
  ASSUME IInv, NEW l \in Lookups, NEW e \in Entities, Enter(l, e)
  PROVE  IInv'
<1>1. PICK k \in LookupLock(e) :
        /\ lock' = [lock EXCEPT ![l] = k]
        /\ lockOf' = [x \in Entities |-> IF x = e THEN k
                                         ELSE IF lockOf[x] # NoLock /\ Alive(lockOf[x])
                                         THEN lockOf[x] ELSE NoLock]
  BY DEF Enter
<1>2. k \in Locks
  BY <1>1 DEF LookupLock, IInv, TypeOK
<1>3. TypeOK'
  BY <1>1, <1>2 DEF Enter, IInv, TypeOK, Phases
<1>4. \A m \in Lookups \ {l} : pc'[m] = pc[m] /\ target'[m] = target[m]
                                /\ lock'[m] = lock[m] /\ fetched'[m] = fetched[m]
  BY <1>1 DEF Enter, IInv, TypeOK
<1>5. pc[l] = "new" /\ pc'[l] = "waiting" /\ target'[l] = e /\ lock'[l] = k
  BY <1>1 DEF Enter, IInv, TypeOK
<1>6. ASSUME NEW m \in Lookups \ {l}, pc[m] \notin {"new", "done"}
      PROVE  lockOf'[target[m]] = lock[m]
  <2>1. target[m] \in Entities /\ lock[m] \in Locks /\ lockOf[target[m]] = lock[m]
    BY <1>6, Called DEF IInv
  <2>2. lockOf[target[m]] # NoLock /\ Alive(lockOf[target[m]])
    BY <2>1, Nulls DEF Alive
  <2>3. target[m] = e => k = lock[m]
    BY <1>1, <2>1, <2>2 DEF LookupLock
  <2> QED
    BY <1>1, <2>1, <2>2, <2>3
<1>7. LockInv'
  <2> SUFFICES ASSUME NEW m \in Lookups
               PROVE  /\ pc'[m] \notin {"new", "done"} =>
                           target'[m] # NoEntity /\ lock'[m] # NoLock
                           /\ lockOf'[target'[m]] = lock'[m]
                      /\ pc'[m] \in {"new", "done"} => lock'[m] = NoLock
                      /\ pc'[m] \in Holding => owner'[lock'[m]] = m
    BY DEF LockInv, Holding
  <2>1. CASE m = l
    BY <1>1, <1>2, <1>5, <2>1, Nulls DEF Holding
  <2>2. CASE m # l
    BY <1>4, <1>6, <2>2 DEF IInv, LockInv, Enter
  <2> QED
    BY <2>1, <2>2
<1>8. \A x \in Entities : Promoting(x) => Promoting(x)'
  BY <1>4, <1>5, PromotingKept DEF Enter
<1>9. ResetInv'
  BY <1>4, <1>5, <1>8 DEF IInv, ResetInv, Enter
<1>10. RetainedHasScopes' /\ PublishedInv'
  BY <1>8 DEF IInv, RetainedHasScopes, PublishedInv, Enter
<1>11. CopyInv'
  BY <1>4, <1>5 DEF IInv, CopyInv, Enter
<1>12. BoundInv'
  BY DEF IInv, BoundInv, ScopesBounded, Held, Enter
<1> QED
  BY <1>3, <1>7, <1>9, <1>10, <1>11, <1>12 DEF IInv, BoundInv

(* Ending a call gives up the lock and disturbs nobody else's.             *)
LEMMA LeaveLocks ==
  ASSUME TypeOK, LockInv, NEW l \in Lookups, Leave(l)
  PROVE  /\ LockInv'
         /\ owner' \in [Locks -> Lookups \cup {NoLookup}]
         /\ lock' \in [Lookups -> Locks \cup {NoLock}]
         /\ pc' \in [Lookups -> Phases]
         /\ pc'[l] = "done"
         /\ \A m \in Lookups \ {l} : pc'[m] = pc[m] /\ lock'[m] = lock[m]
<1>1. /\ owner' \in [Locks -> Lookups \cup {NoLookup}]
      /\ lock' \in [Lookups -> Locks \cup {NoLock}]
      /\ pc' \in [Lookups -> Phases]
      /\ pc'[l] = "done" /\ lock'[l] = NoLock
      /\ \A m \in Lookups \ {l} : pc'[m] = pc[m] /\ lock'[m] = lock[m]
  BY DEF TypeOK, Leave, Unlocked, Phases
<1>2. ASSUME NEW m \in Lookups \ {l}, pc[m] \in Holding
      PROVE  owner'[lock[m]] = m
  <2>1. lock[m] \in Locks /\ owner[lock[m]] = m
    BY <1>2, Called DEF LockInv, Holding
  <2> QED
    BY <2>1 DEF Leave, Unlocked
<1>3. LockInv'
  <2> SUFFICES ASSUME NEW m \in Lookups
               PROVE  /\ pc'[m] \notin {"new", "done"} =>
                           target'[m] # NoEntity /\ lock'[m] # NoLock
                           /\ lockOf'[target'[m]] = lock'[m]
                      /\ pc'[m] \in {"new", "done"} => lock'[m] = NoLock
                      /\ pc'[m] \in Holding => owner'[lock'[m]] = m
    BY DEF LockInv, Holding
  <2>1. CASE m = l
    BY <1>1, <2>1 DEF Holding
  <2>2. CASE m # l
    BY <1>1, <1>2, <2>2 DEF LockInv, Leave
  <2> QED
    BY <2>1, <2>2
<1> QED
  BY <1>1, <1>3

LEMMA AcquireKeeps ==
  ASSUME IInv, NEW l \in Lookups, Acquire(l)
  PROVE  IInv'
<1>1. pc[l] = "waiting" /\ lock[l] \in Locks /\ owner[lock[l]] = NoLookup
  BY Called DEF Acquire, IInv
<1>2. TypeOK'
  BY DEF Acquire, IInv, TypeOK, Phases
<1>3. /\ pc'[l] = "locked" /\ owner'[lock[l]] = l
      /\ \A m \in Lookups \ {l} : pc'[m] = pc[m] /\ target'[m] = target[m]
                                  /\ fetched'[m] = fetched[m]
  BY <1>1 DEF Acquire, IInv, TypeOK
<1>4. LockInv'
  <2> SUFFICES ASSUME NEW m \in Lookups
               PROVE  /\ pc'[m] \notin {"new", "done"} =>
                           target'[m] # NoEntity /\ lock'[m] # NoLock
                           /\ lockOf'[target'[m]] = lock'[m]
                      /\ pc'[m] \in {"new", "done"} => lock'[m] = NoLock
                      /\ pc'[m] \in Holding => owner'[lock'[m]] = m
    BY DEF LockInv, Holding
  <2>1. CASE m = l
    BY <1>1, <1>3, <2>1 DEF IInv, LockInv, Acquire
  <2>2. CASE m # l
    <3>1. pc[m] \in Holding => owner[lock[m]] = m /\ m # NoLookup
      BY Nulls DEF IInv, LockInv
    <3>2. pc[m] \in Holding => owner'[lock[m]] = m
      BY <1>1, <3>1, Called DEF Acquire, IInv, TypeOK, Holding
    <3> QED
      BY <1>3, <2>2, <3>2 DEF IInv, LockInv, Acquire
  <2> QED
    BY <2>1, <2>2
<1>5. \A x \in Entities : Promoting(x) => Promoting(x)'
  BY <1>1, <1>3, PromotingKept DEF Acquire
<1>6. ResetInv'
  BY <1>1, <1>3, <1>5 DEF IInv, ResetInv, Acquire
<1>7. RetainedHasScopes' /\ PublishedInv'
  BY <1>5 DEF IInv, RetainedHasScopes, PublishedInv, Acquire
<1>8. CopyInv'
  BY <1>3 DEF IInv, CopyInv, Acquire
<1>9. BoundInv'
  BY DEF IInv, BoundInv, ScopesBounded, Held, Acquire
<1> QED
  BY <1>2, <1>4, <1>6, <1>7, <1>8, <1>9 DEF IInv, BoundInv

(* A lookup that takes the mutex to reset has no promotion of its own left *)
(* in the cache, and neither has anyone else.                              *)
LEMMA BeginResetKeeps ==
  ASSUME IInv, NEW l \in Lookups, mutex = NoLookup,
         \/ pc[l] = "locked" /\ BeginReset(l, "resetting")
         \/ pc[l] = "accepted" /\ BeginReset(l, "promoting")
  PROVE  IInv'
<1>1. /\ mutex' = l /\ pc'[l] \in {"resetting", "promoting"}
      /\ pc'[l] = "promoting" => pc[l] = "accepted"
      /\ pc[l] \in Holding /\ pc'[l] \in Holding
      /\ \A m \in Lookups \ {l} : pc'[m] = pc[m]
      /\ \A e \in Entities : mdq'[e] = NoDoc
      /\ pc' \in [Lookups -> Phases]
  BY DEF BeginReset, MdqCleared, Cleared, IInv, TypeOK, Phases, Holding
<1>2. UNCHANGED <<published, trusted, lockOf, owner, target, lock, cached, fetched, answer>>
  BY DEF BeginReset
<1>3. TypeOK'
  BY <1>1, <1>2 DEF BeginReset, MdqCleared, Cleared, IInv, TypeOK
<1>4. LockInv'
  BY <1>1, <1>2 DEF IInv, LockInv, Holding
<1>5. ResetInv'
  BY <1>1, Nulls DEF IInv, ResetInv
<1>6. RetainedHasScopes' /\ PublishedInv'
  BY <1>1 DEF RetainedHasScopes, PublishedInv
<1>7. CopyInv'
  <2> SUFFICES ASSUME NEW m \in Lookups
               PROVE  /\ pc'[m] = "asking" /\ mdq'[target'[m]] # NoDoc =>
                           cached'[m] = mdq'[target'[m]]
                      /\ pc'[m] = "accepted" /\ mdq'[target'[m]] # NoDoc =>
                           fetched'[m] = mdq'[target'[m]]
                      /\ pc'[m] \in {"hit", "accepted", "promoting"} =>
                           fetched'[m] # NoDoc /\ fetched'[m] <= published'[target'[m]]
                      /\ pc'[m] = "hit" => cached'[m] = fetched'[m]
    BY DEF CopyInv
  <2>1. pc'[m] \in {"asking", "accepted"} => mdq'[target'[m]] = NoDoc
    <3>1. CASE pc'[m] \in {"asking", "accepted"}
      <4>1. target'[m] \in Entities
        BY <1>2, <1>3, <1>4, <3>1, Nulls DEF LockInv, TypeOK
      <4> QED
        BY <1>1, <4>1
    <3> QED
      BY <3>1
  <2>2. /\ pc'[m] \in {"accepted", "promoting"} => pc[m] \in {"accepted", "promoting"}
        /\ pc'[m] = "hit" => pc[m] = "hit"
    BY <1>1
  <2> QED
    BY <1>2, <2>1, <2>2 DEF IInv, CopyInv
<1>8. BoundInv'
  BY <1>2 DEF IInv, BoundInv, ScopesBounded, Held
<1> QED
  BY <1>3, <1>4, <1>5, <1>6, <1>7, <1>8 DEF IInv, BoundInv

(* What every end of a call has in common that leaves the caches alone.    *)
LEMMA QuietLeaveKeeps ==
  ASSUME IInv, NEW l \in Lookups, pc[l] \in {"waiting", "hit", "fetching"}, Leave(l),
         UNCHANGED <<mdq, trusted, mutex>>,
         answer' \in [Lookups -> Answers \cup {NoAnswer}]
  PROVE  IInv'
<1>1. /\ LockInv' /\ pc'[l] = "done"
      /\ owner' \in [Locks -> Lookups \cup {NoLookup}]
      /\ lock' \in [Lookups -> Locks \cup {NoLock}]
      /\ pc' \in [Lookups -> Phases]
      /\ \A m \in Lookups \ {l} : pc'[m] = pc[m]
  BY LeaveLocks DEF IInv
<1>2. UNCHANGED <<published, lockOf, target, cached, fetched>>
  BY DEF Leave
<1>3. TypeOK'
  BY <1>1, <1>2 DEF IInv, TypeOK
<1>4. \A x \in Entities : Promoting(x) => Promoting(x)'
  BY <1>1, <1>2, PromotingKept
<1>5. ResetInv'
  BY <1>1, <1>4 DEF IInv, ResetInv
<1>6. RetainedHasScopes' /\ PublishedInv'
  BY <1>2, <1>4 DEF IInv, RetainedHasScopes, PublishedInv
<1>7. CopyInv'
  BY <1>1, <1>2 DEF IInv, CopyInv
<1>8. BoundInv'
  BY DEF IInv, BoundInv, ScopesBounded, Held
<1> QED
  BY <1>1, <1>3, <1>5, <1>6, <1>7, <1>8 DEF IInv, BoundInv

LEMMA ReadScopesKeeps ==
  ASSUME IInv, NEW l \in Lookups, ReadScopes(l)
  PROVE  IInv'
<1>1. CASE RequiresReset(target[l]) /\ BeginReset(l, "resetting")
  BY <1>1, BeginResetKeeps DEF ReadScopes
<1>2. CASE /\ cached' = [cached EXCEPT ![l] = trusted[target[l]]]
           /\ pc' = [pc EXCEPT ![l] = "asking"]
           /\ UNCHANGED <<published, mdq, trusted, mutex, lockOf, owner, target, lock,
                          fetched, answer>>
  <2>1. pc[l] = "locked" /\ target[l] \in Entities
    BY Called DEF ReadScopes, IInv
  <2>2. TypeOK'
    BY <1>2, <2>1 DEF IInv, TypeOK, Phases
  <2>3. /\ pc'[l] = "asking" /\ cached'[l] = trusted[target[l]]
        /\ \A m \in Lookups \ {l} : pc'[m] = pc[m] /\ cached'[m] = cached[m]
    BY <1>2 DEF IInv, TypeOK
  <2>4. LockInv'
    BY <1>2, <2>1, <2>3 DEF IInv, LockInv, Holding
  <2>5. \A x \in Entities : Promoting(x) => Promoting(x)'
    BY <1>2, <2>1, <2>3, PromotingKept
  <2>6. ResetInv'
    BY <1>2, <2>1, <2>3, <2>5 DEF IInv, ResetInv
  <2>7. RetainedHasScopes' /\ PublishedInv'
    BY <1>2, <2>5 DEF IInv, RetainedHasScopes, PublishedInv
  <2>8. ~Promoting(target[l])
    BY <2>1, OneHolder DEF Promoting, Holding, IInv
  <2>9. mdq[target[l]] # NoDoc => cached'[l] = mdq[target[l]]
    BY <2>1, <2>3, <2>8 DEF IInv, RetainedHasScopes
  <2>10. CopyInv'
    BY <1>2, <2>3, <2>9 DEF IInv, CopyInv
  <2>11. BoundInv'
    BY <1>2 DEF IInv, BoundInv, ScopesBounded, Held
  <2> QED
    BY <2>2, <2>4, <2>6, <2>7, <2>10, <2>11 DEF IInv, BoundInv
<1> QED
  BY <1>1, <1>2 DEF ReadScopes

LEMMA ReadAfterResetKeeps ==
  ASSUME IInv, NEW l \in Lookups, ReadAfterReset(l)
  PROVE  IInv'
<1>1. pc[l] = "resetting" /\ target[l] \in Entities /\ mutex = l /\ mutex # NoLookup
  BY Called, Nulls DEF ReadAfterReset, IInv, ResetInv
<1>2. UNCHANGED <<published, mdq, lockOf, owner, target, lock, fetched, answer>>
  BY DEF ReadAfterReset
<1>3. TypeOK'
  BY DEF ReadAfterReset, Cleared, IInv, TypeOK, Phases
<1>4. /\ pc'[l] = "asking" /\ mutex' = NoLookup
      /\ \A m \in Lookups \ {l} : pc'[m] = pc[m] /\ cached'[m] = cached[m]
      /\ \A e \in Entities : trusted'[e] = NoDoc
  BY DEF ReadAfterReset, Cleared, IInv, TypeOK
<1>5. LockInv'
  BY <1>1, <1>2, <1>4 DEF IInv, LockInv, Holding
<1>6. \A x \in Entities : Promoting(x) => Promoting(x)'
  BY <1>1, <1>2, <1>4, PromotingKept
<1>7. ResetInv'
  BY <1>1, <1>4, Nulls DEF IInv, ResetInv
<1>8. RetainedHasScopes' /\ PublishedInv'
  BY <1>1, <1>2, <1>6 DEF IInv, ResetInv, RetainedHasScopes, PublishedInv
<1>9. ~Promoting(target[l])
  BY <1>1, OneHolder DEF Promoting, Holding, IInv
<1>10. mdq[target[l]] = NoDoc
  BY <1>1, <1>9 DEF IInv, ResetInv
<1>11. CopyInv'
  BY <1>2, <1>4, <1>10 DEF IInv, CopyInv
<1>12. Held' = {}
  BY <1>4 DEF Held
<1>13. BoundInv'
  BY <1>12, FS_EmptySet, Nulls DEF BoundInv, ScopesBounded
<1> QED
  BY <1>3, <1>5, <1>7, <1>8, <1>11, <1>13 DEF IInv, BoundInv

LEMMA HitKeeps ==
  ASSUME IInv, NEW l \in Lookups, Hit(l)
  PROVE  IInv'
<1>1. pc[l] = "asking" /\ target[l] \in Entities /\ mdq[target[l]] # NoDoc
  BY Called DEF Hit, IInv
<1>2. /\ mdq[target[l]] \in Versions /\ mdq[target[l]] <= published[target[l]]
      /\ cached[l] = mdq[target[l]]
  BY <1>1 DEF IInv, TypeOK, CopyInv, PublishedInv
<1>3. UNCHANGED <<published, mdq, trusted, mutex, lockOf, owner, target, lock, cached, answer>>
  BY DEF Hit
<1>4. TypeOK'
  BY <1>2 DEF Hit, IInv, TypeOK, Phases
<1>5. /\ pc'[l] = "hit" /\ fetched'[l] = mdq[target[l]]
      /\ \A m \in Lookups \ {l} : pc'[m] = pc[m] /\ fetched'[m] = fetched[m]
  BY DEF Hit, IInv, TypeOK
<1>6. LockInv'
  BY <1>1, <1>3, <1>5 DEF IInv, LockInv, Holding
<1>7. \A x \in Entities : Promoting(x) => Promoting(x)'
  BY <1>1, <1>3, <1>5, PromotingKept
<1>8. ResetInv'
  BY <1>1, <1>3, <1>5, <1>7 DEF IInv, ResetInv
<1>9. RetainedHasScopes' /\ PublishedInv'
  BY <1>3, <1>7 DEF IInv, RetainedHasScopes, PublishedInv
<1>10. CopyInv'
  BY <1>1, <1>2, <1>3, <1>5 DEF IInv, CopyInv
<1>11. BoundInv'
  BY <1>3 DEF IInv, BoundInv, ScopesBounded, Held
<1> QED
  BY <1>4, <1>6, <1>8, <1>9, <1>10, <1>11 DEF IInv, BoundInv

LEMMA ReturnHitKeeps ==
  ASSUME IInv, NEW l \in Lookups, ReturnHit(l)
  PROVE  IInv'
<1>1. pc[l] = "hit" /\ target[l] \in Entities
  BY Called DEF ReturnHit, IInv
<1>2. fetched[l] \in Versions /\ cached[l] \in Versions \cup {NoDoc}
  BY <1>1 DEF IInv, TypeOK, CopyInv
<1>3. answer' \in [Lookups -> Answers \cup {NoAnswer}]
  BY <1>1, <1>2 DEF ReturnHit, Return, ScopesOnHit, Answers, IInv, TypeOK
<1> QED
  BY <1>1, <1>3, QuietLeaveKeeps DEF ReturnHit, Return

LEMMA FetchFailsKeeps ==
  ASSUME IInv, NEW l \in Lookups, FetchFails(l) \/ Drop(l)
  PROVE  IInv'
<1>1. answer' \in [Lookups -> Answers \cup {NoAnswer}]
  BY DEF FetchFails, Drop, IInv, TypeOK
<1> QED
  BY <1>1, QuietLeaveKeeps DEF FetchFails, Drop

LEMMA MissKeeps ==
  ASSUME IInv, NEW l \in Lookups, Miss(l)
  PROVE  IInv'
<1>1. pc[l] = "asking"
  BY DEF Miss
<1>2. UNCHANGED <<published, mdq, trusted, mutex, lockOf, owner, target, lock, cached,
                  fetched, answer>>
  BY DEF Miss
<1>3. TypeOK'
  BY DEF Miss, IInv, TypeOK, Phases
<1>4. pc'[l] = "fetching" /\ \A m \in Lookups \ {l} : pc'[m] = pc[m]
  BY DEF Miss, IInv, TypeOK
<1>5. LockInv'
  BY <1>1, <1>2, <1>4 DEF IInv, LockInv, Holding
<1>6. \A x \in Entities : Promoting(x) => Promoting(x)'
  BY <1>1, <1>2, <1>4, PromotingKept
<1>7. ResetInv'
  BY <1>1, <1>2, <1>4, <1>6 DEF IInv, ResetInv
<1>8. RetainedHasScopes' /\ PublishedInv'
  BY <1>2, <1>6 DEF IInv, RetainedHasScopes, PublishedInv
<1>9. CopyInv'
  BY <1>2, <1>4 DEF IInv, CopyInv
<1>10. BoundInv'
  BY <1>2 DEF IInv, BoundInv, ScopesBounded, Held
<1> QED
  BY <1>3, <1>5, <1>7, <1>8, <1>9, <1>10 DEF IInv, BoundInv

(* Only the lookup itself fills the cache for its entity, so no promotion  *)
(* of another is lost.                                                     *)
LEMMA FetchKeeps ==
  ASSUME IInv, NEW l \in Lookups, Fetch(l)
  PROVE  IInv'
<1> DEFINE t == target[l]
<1>1. pc[l] = "fetching" /\ pc[l] \in Holding /\ t \in Entities
  BY Called DEF Fetch, IInv, Holding
<1>2. /\ UNCHANGED <<published, trusted, mutex, lockOf, owner, target, lock, cached, answer>>
      /\ published[t] \in Versions
  BY <1>1 DEF Fetch, IInv, TypeOK
<1>3. /\ pc'[l] = "accepted" /\ fetched'[l] = published[t] /\ mdq'[t] = published[t]
      /\ \A m \in Lookups \ {l} : pc'[m] = pc[m] /\ fetched'[m] = fetched[m]
      /\ \A e \in Entities \ {t} : mdq'[e] = mdq[e]
  BY <1>1 DEF Fetch, IInv, TypeOK
<1>4. TypeOK'
  BY <1>1, <1>2 DEF Fetch, IInv, TypeOK, Phases
<1>5. LockInv'
  BY <1>1, <1>2, <1>3 DEF IInv, LockInv, Holding
<1>6. Promoting(t)'
  BY <1>2, <1>3 DEF Promoting
<1>7. \A e \in Entities \ {t} : Promoting(e) => Promoting(e)'
  BY <1>1, <1>2, <1>3, PromotingKept
<1>8. ResetInv'
  BY <1>1, <1>2, <1>3, <1>6, <1>7 DEF IInv, ResetInv
<1>9. RetainedHasScopes'
  BY <1>2, <1>3, <1>6, <1>7 DEF IInv, RetainedHasScopes
<1>10. PublishedInv'
  <2>1. published[t] <= published[t]
    BY <1>2, VersionFacts
  <2> QED
    BY <1>2, <1>3, <2>1 DEF IInv, PublishedInv
<1>11. CopyInv'
  <2> SUFFICES ASSUME NEW m \in Lookups
               PROVE  /\ pc'[m] = "asking" /\ mdq'[target'[m]] # NoDoc =>
                           cached'[m] = mdq'[target'[m]]
                      /\ pc'[m] = "accepted" /\ mdq'[target'[m]] # NoDoc =>
                           fetched'[m] = mdq'[target'[m]]
                      /\ pc'[m] \in {"hit", "accepted", "promoting"} =>
                           fetched'[m] # NoDoc /\ fetched'[m] <= published'[target'[m]]
                      /\ pc'[m] = "hit" => cached'[m] = fetched'[m]
    BY DEF CopyInv
  <2>1. CASE m = l
    BY <1>2, <1>3, <2>1, VersionFacts
  <2>2. CASE m # l
    <3>1. pc[m] \in {"asking", "accepted"} => target[m] \in Entities \ {t}
      BY <1>1, <2>2, Called, OneHolder DEF IInv, Holding
    <3> QED
      BY <1>2, <1>3, <2>2, <3>1 DEF IInv, CopyInv
  <2> QED
    BY <2>1, <2>2
<1>12. BoundInv'
  BY <1>2 DEF IInv, BoundInv, ScopesBounded, Held
<1> QED
  BY <1>4, <1>5, <1>8, <1>9, <1>10, <1>11, <1>12 DEF IInv, BoundInv

LEMMA PromoteKeeps ==
  ASSUME IInv, NEW l \in Lookups, Promote(l)
  PROVE  IInv'
<1>1. CASE RequiresReset(target[l]) /\ BeginReset(l, "promoting")
  BY <1>1, BeginResetKeeps DEF Promote
<1>2. CASE /\ ~RequiresReset(target[l])
           /\ trusted' = [trusted EXCEPT ![target[l]] = fetched[l]]
           /\ Return(l, fetched[l], fetched[l])
           /\ UNCHANGED <<mdq, mutex>>
  <2> DEFINE t == target[l]
  <2>1. pc[l] = "accepted" /\ pc[l] \in Holding /\ t \in Entities /\ Leave(l)
        /\ mutex = NoLookup
    BY <1>2, Called DEF Promote, IInv, Return, Holding
  <2>2. fetched[l] \in Versions /\ (mdq[t] # NoDoc => fetched[l] = mdq[t])
    BY <2>1 DEF IInv, TypeOK, CopyInv
  <2>3. /\ LockInv' /\ pc'[l] = "done"
        /\ owner' \in [Locks -> Lookups \cup {NoLookup}]
        /\ lock' \in [Lookups -> Locks \cup {NoLock}]
        /\ pc' \in [Lookups -> Phases]
        /\ \A m \in Lookups \ {l} : pc'[m] = pc[m]
    BY <2>1, LeaveLocks DEF IInv
  <2>4. UNCHANGED <<published, mdq, mutex, lockOf, target, cached, fetched>>
    BY <1>2, <2>1 DEF Leave
  <2>5. /\ trusted'[t] = fetched[l] /\ trusted' \in [Entities -> Versions \cup {NoDoc}]
        /\ \A e \in Entities \ {t} : trusted'[e] = trusted[e]
    BY <1>2, <2>1, <2>2 DEF IInv, TypeOK
  <2>6. answer' \in [Lookups -> Answers \cup {NoAnswer}]
    BY <1>2, <2>1, <2>2 DEF Return, Answers, IInv, TypeOK
  <2>7. TypeOK'
    BY <2>3, <2>4, <2>5, <2>6 DEF IInv, TypeOK
  <2>8. ResetInv'
    BY <2>1, <2>3, <2>4 DEF IInv, ResetInv
  <2>9. ASSUME NEW e \in Entities \ {t}, Promoting(e)
        PROVE  Promoting(e)'
    BY <2>3, <2>4, <2>9 DEF Promoting
  <2>10. RetainedHasScopes'
    BY <2>2, <2>4, <2>5, <2>9 DEF IInv, RetainedHasScopes
  <2>11. CopyInv' /\ PublishedInv'
    BY <2>3, <2>4 DEF IInv, CopyInv, PublishedInv
  <2>12. Held' = Held \cup {t}
    BY <2>1, <2>2, <2>5, Nulls DEF Held
  <2>13. BoundInv'
    <3>1. CASE t \in Held
      <4>1. Held' = Held
        BY <2>12, <3>1
      <4> QED
        BY <4>1 DEF IInv, BoundInv, ScopesBounded
    <3>2. CASE t \notin Held
      <4>1. IsFiniteSet(Held) /\ Cardinality(Held) \in Nat
        BY FS_CardinalityType DEF IInv
      <4>2. Cardinality(Held) < Capacity
        BY <1>2, <2>1, <3>2, <4>1, Nulls DEF RequiresReset, Held
      <4>3. IsFiniteSet(Held') /\ Cardinality(Held') = Cardinality(Held) + 1
        BY <2>12, <3>2, <4>1, FS_AddElement
      <4> QED
        BY <4>1, <4>2, <4>3, Nulls DEF BoundInv, ScopesBounded
    <3> QED
      BY <3>1, <3>2
  <2> QED
    BY <2>3, <2>7, <2>8, <2>10, <2>11, <2>13 DEF IInv, BoundInv
<1> QED
  BY <1>1, <1>2 DEF Promote

(* After a reset only the entity promoted has scopes; what others put into *)
(* the MDQ cache meanwhile still awaits its promotion.                     *)
LEMMA PromoteAfterResetKeeps ==
  ASSUME IInv, NEW l \in Lookups, PromoteAfterReset(l)
  PROVE  IInv'
<1> DEFINE t == target[l]
<1>1. pc[l] = "promoting" /\ pc[l] \in Holding /\ t \in Entities /\ Leave(l)
      /\ mutex = l /\ mutex # NoLookup /\ mutex' = NoLookup
  BY Called, Nulls DEF PromoteAfterReset, IInv, ResetInv, Return, Holding
<1>2. fetched[l] \in Versions
  BY <1>1 DEF IInv, TypeOK, CopyInv
<1>3. /\ LockInv' /\ pc'[l] = "done"
      /\ owner' \in [Locks -> Lookups \cup {NoLookup}]
      /\ lock' \in [Lookups -> Locks \cup {NoLock}]
      /\ pc' \in [Lookups -> Phases]
      /\ \A m \in Lookups \ {l} : pc'[m] = pc[m]
  BY <1>1, LeaveLocks DEF IInv
<1>4. UNCHANGED <<published, mdq, lockOf, target, cached, fetched>>
  BY <1>1 DEF PromoteAfterReset, Leave
<1>5. /\ trusted'[t] = fetched[l] /\ trusted' \in [Entities -> Versions \cup {NoDoc}]
      /\ \A e \in Entities \ {t} : trusted'[e] = NoDoc
  BY <1>1, <1>2 DEF PromoteAfterReset, Cleared
<1>6. answer' \in [Lookups -> Answers \cup {NoAnswer}]
  BY <1>1, <1>2 DEF PromoteAfterReset, Return, Answers, IInv, TypeOK
<1>7. TypeOK'
  BY <1>1, <1>3, <1>4, <1>5, <1>6 DEF IInv, TypeOK
<1>8. ResetInv'
  BY <1>1, <1>3, Nulls DEF IInv, ResetInv
<1>9. \A e \in Entities : Promoting(e) => Promoting(e)'
  BY <1>1, <1>3, <1>4, PromotingKept
<1>10. RetainedHasScopes'
  BY <1>1, <1>4, <1>9 DEF IInv, ResetInv, RetainedHasScopes
<1>11. CopyInv' /\ PublishedInv'
  BY <1>3, <1>4 DEF IInv, CopyInv, PublishedInv
<1>12. Held' = {t}
  BY <1>1, <1>2, <1>5, Nulls DEF Held
<1>13. BoundInv'
  <2>1. IsFiniteSet({t}) /\ Cardinality({t}) = 1
    BY FS_Singleton
  <2>2. 1 <= Capacity
    BY Nulls
  <2> QED
    BY <1>12, <2>1, <2>2 DEF BoundInv, ScopesBounded
<1> QED
  BY <1>3, <1>7, <1>8, <1>10, <1>11, <1>13 DEF IInv, BoundInv

LEMMA PublishKeeps ==
  ASSUME IInv, NEW e \in Entities, Publish(e)
  PROVE  IInv'
<1>1. UNCHANGED <<mdq, trusted, mutex, lockOf, owner, pc, target, lock, cached, fetched,
                  answer>>
  BY DEF Publish
<1>2. published[e] \in Nat /\ MaxVersion \in Nat
  BY CapacityAssumption DEF IInv, TypeOK, Versions
<1>3. /\ published'[e] = published[e] + 1
      /\ \A x \in Entities \ {e} : published'[x] = published[x]
  BY DEF Publish, IInv, TypeOK
<1>4. TypeOK'
  BY <1>1, <1>2 DEF Publish, IInv, TypeOK, Versions
<1>5. \A x \in Entities : published[x] \in Nat /\ published'[x] \in Nat
                          /\ published[x] <= published'[x]
  <2>1. \A x \in Entities : published[x] \in Versions
    BY DEF IInv, TypeOK
  <2>2. \A x \in Entities : published'[x] = published[x] \/ published'[x] = published[x] + 1
    BY <1>3
  <2> QED
    BY <2>1, <2>2, VersionFacts
<1>6. PublishedInv'
  <2> SUFFICES ASSUME NEW x \in Entities, mdq[x] # NoDoc
               PROVE  mdq[x] <= published'[x]
    BY <1>1 DEF PublishedInv
  <2>1. mdq[x] \in Nat /\ mdq[x] <= published[x]
    BY Nulls DEF IInv, TypeOK, PublishedInv
  <2> QED
    BY <1>5, <2>1
<1>7. CopyInv'
  <2>1. ASSUME NEW l \in Lookups, pc[l] \in {"hit", "accepted", "promoting"}
        PROVE  fetched[l] # NoDoc /\ fetched[l] <= published'[target[l]]
    <3>1. target[l] \in Entities
      BY <2>1, Called DEF IInv
    <3>2. fetched[l] # NoDoc /\ fetched[l] \in Nat /\ fetched[l] <= published[target[l]]
      BY <2>1, Nulls DEF IInv, TypeOK, CopyInv
    <3> QED
      BY <1>5, <3>1, <3>2
  <2> QED
    BY <1>1, <2>1 DEF IInv, CopyInv
<1>8. LockInv' /\ ResetInv' /\ RetainedHasScopes' /\ BoundInv'
  BY <1>1 DEF IInv, LockInv, ResetInv, RetainedHasScopes, Promoting, BoundInv,
              ScopesBounded, Held
<1> QED
  BY <1>4, <1>6, <1>7, <1>8 DEF IInv, BoundInv

(* Losing an MDQ entry never hurts: the scopes may outlive the entity.     *)
LEMMA PurgeKeeps ==
  ASSUME IInv, NEW e \in Entities, Purge(e)
  PROVE  IInv'
<1>1. UNCHANGED <<published, trusted, mutex, lockOf, owner, pc, target, lock, cached,
                  fetched, answer>>
  BY DEF Purge
<1>2. TypeOK'
  BY DEF Purge, IInv, TypeOK
<1>3. mdq'[e] = NoDoc /\ \A x \in Entities \ {e} : mdq'[x] = mdq[x]
  BY DEF Purge, IInv, TypeOK
<1>4. \A x \in Entities \ {e} : Promoting(x) => Promoting(x)'
  BY <1>1, <1>3 DEF Promoting
<1>5. ResetInv'
  BY <1>1, <1>3, <1>4 DEF IInv, ResetInv
<1>6. RetainedHasScopes'
  BY <1>1, <1>3, <1>4 DEF IInv, RetainedHasScopes
<1>7. PublishedInv'
  BY <1>1, <1>3 DEF IInv, PublishedInv
<1>8. \A l \in Lookups : pc[l] \in {"asking", "accepted"} => target[l] \in Entities
  BY Called DEF IInv
<1>9. CopyInv'
  BY <1>1, <1>3, <1>8 DEF IInv, CopyInv
<1>10. LockInv' /\ BoundInv'
  BY <1>1 DEF IInv, LockInv, BoundInv, ScopesBounded, Held
<1> QED
  BY <1>2, <1>5, <1>6, <1>7, <1>9, <1>10 DEF IInv, BoundInv

----------------------------------------------------------------------------
(* The invariant and its consequences                                      *)

LEMMA InitIInv == Init => IInv
<1> SUFFICES ASSUME Init PROVE IInv
  OBVIOUS
<1>1. TypeOK
  BY CapacityAssumption DEF Init, TypeOK, Versions, Phases
<1>2. LockInv /\ ResetInv /\ RetainedHasScopes /\ CopyInv /\ PublishedInv
  BY Nulls DEF Init, LockInv, ResetInv, RetainedHasScopes, CopyInv, PublishedInv, Holding
<1>3. Held = {}
  BY DEF Init, Held
<1>4. BoundInv
  BY <1>3, FS_EmptySet, Nulls DEF BoundInv, ScopesBounded
<1> QED
  BY <1>1, <1>2, <1>4 DEF IInv, BoundInv

LEMMA NextIInv == IInv /\ [Next]_vars => IInv'
<1> SUFFICES ASSUME IInv, [Next]_vars PROVE IInv'
  OBVIOUS
<1>1. CASE \E l \in Lookups : \E e \in Entities : Enter(l, e)
  BY <1>1, EnterKeeps
<1>2. CASE \E l \in Lookups : Step(l)
  <2> PICK l \in Lookups : Step(l)
    BY <1>2
  <2> QED
    BY AcquireKeeps, ReadScopesKeeps, ReadAfterResetKeeps, HitKeeps, ReturnHitKeeps, MissKeeps,
       FetchKeeps, FetchFailsKeeps, PromoteKeeps, PromoteAfterResetKeeps DEF Step
<1>3. CASE \E l \in Lookups : Drop(l)
  BY <1>3, FetchFailsKeeps
<1>4. CASE \E e \in Entities : Publish(e)
  BY <1>4, PublishKeeps
<1>5. CASE \E e \in Entities : Purge(e)
  BY <1>5, PurgeKeeps
<1>6. CASE UNCHANGED vars
  BY <1>6 DEF vars, IInv, TypeOK, LockInv, ResetInv, RetainedHasScopes, Promoting,
              CopyInv, PublishedInv, ScopesBounded, Held
<1> QED
  BY <1>1, <1>2, <1>3, <1>4, <1>5, <1>6 DEF Next

(* Every state of the metadata client satisfies the inductive invariant:   *)
(* the locks are exclusive per entity, a reset clears both caches as one,  *)
(* and local copies match the document the MDQ cache would serve.          *)
THEOREM Invariance == Spec => []IInv
BY InitIInv, NextIInv, PTL DEF Spec

(* An entity the MDQ cache retains has the scopes of the same document in  *)
(* the scope cache, or about to be promoted by the lookup that fetched it. *)
THEOREM ScopesFollowEntities == Spec => []RetainedHasScopes
<1>1. IInv => RetainedHasScopes
  BY DEF IInv
<1> QED
  BY <1>1, Invariance, PTL

(* The scope cache never exceeds MDQ_CACHE_CAPACITY.                       *)
THEOREM ScopesStayBounded == Spec => []ScopesBounded
<1>1. IInv => ScopesBounded
  BY DEF IInv
<1> QED
  BY <1>1, Invariance, PTL

(* The weakly referenced locks serialise the lookups of one entity.        *)
THEOREM Serialised == Spec => []OneLookupPerEntity
<1>1. IInv => OneLookupPerEntity
  BY OneHolder DEF IInv, OneLookupPerEntity
<1> QED
  BY <1>1, Invariance, PTL

----------------------------------------------------------------------------
(* Nobody waits for ever on another's account                              *)

LEMMA OwnerKept ==
  ASSUME TypeOK, LockInv, OwnerInv, [Next]_vars
  PROVE  OwnerInv'
<1>1. ASSUME NEW l \in Lookups, Leave(l) PROVE OwnerInv'
  <2>1. ASSUME NEW k \in Locks, owner'[k] # NoLookup
        PROVE  pc'[owner'[k]] \in Holding /\ lock'[owner'[k]] = k
    <3>1. owner'[k] = owner[k] /\ ~(k = lock[l] /\ owner[k] = l)
      BY <1>1, <2>1 DEF Leave, Unlocked
    <3>2. pc[owner[k]] \in Holding /\ lock[owner[k]] = k /\ owner[k] \in Lookups
      BY <2>1, <3>1 DEF OwnerInv, TypeOK
    <3> QED
      BY <1>1, <3>1, <3>2 DEF Leave, TypeOK
  <2> QED
    BY <2>1 DEF OwnerInv
<1>2. ASSUME NEW l \in Lookups, NEW p \in Holding, pc[l] \in Holding,
             pc' = [pc EXCEPT ![l] = p], UNCHANGED <<owner, lock>>
      PROVE  OwnerInv'
  BY <1>2 DEF TypeOK, OwnerInv
<1>3. ASSUME UNCHANGED <<pc, owner, lock>> PROVE OwnerInv'
  BY <1>3 DEF OwnerInv
<1>4. ASSUME NEW l \in Lookups, NEW e \in Entities, Enter(l, e) PROVE OwnerInv'
  <2>1. \A k \in Locks : owner[k] # NoLookup => owner[k] \in Lookups /\ owner[k] # l
    BY <1>4 DEF Enter, OwnerInv, Holding, TypeOK
  <2>2. /\ \A m \in Lookups \ {l} : pc'[m] = pc[m] /\ lock'[m] = lock[m]
        /\ owner' = owner
    BY <1>4 DEF Enter, TypeOK
  <2> QED
    BY <2>1, <2>2 DEF OwnerInv
<1>5. ASSUME NEW l \in Lookups, Acquire(l) PROVE OwnerInv'
  <2>1. lock[l] \in Locks /\ owner[lock[l]] = NoLookup /\ pc[l] = "waiting"
    BY <1>5, Called DEF Acquire
  <2>2. /\ owner' = [owner EXCEPT ![lock[l]] = l] /\ lock' = lock
        /\ pc' = [pc EXCEPT ![l] = "locked"]
    BY <1>5 DEF Acquire
  <2>3. ASSUME NEW k \in Locks \ {lock[l]}, owner[k] # NoLookup
        PROVE  owner[k] \in Lookups \ {l} /\ pc[owner[k]] \in Holding /\ lock[owner[k]] = k
    BY <2>1, <2>3 DEF OwnerInv, Holding, TypeOK
  <2> QED
    BY <2>1, <2>2, <2>3 DEF OwnerInv, Holding, TypeOK
<1>6. CASE \E l \in Lookups : Step(l)
  <2> PICK l \in Lookups : Step(l)
    BY <1>6
  <2>1. CASE ReadScopes(l) \/ ReadAfterReset(l) \/ Hit(l) \/ Miss(l) \/ Fetch(l)
    BY <1>2, <2>1 DEF ReadScopes, BeginReset, ReadAfterReset, Hit, Miss, Fetch, Holding
  <2>2. CASE ReturnHit(l) \/ FetchFails(l) \/ PromoteAfterReset(l)
    BY <1>1, <2>2 DEF ReturnHit, FetchFails, PromoteAfterReset, Return
  <2>3. CASE Promote(l)
    BY <1>1, <1>2, <2>3 DEF Promote, BeginReset, Return, Holding
  <2> QED
    BY <1>5, <2>1, <2>2, <2>3 DEF Step
<1>7. CASE \E l \in Lookups : Drop(l)
  BY <1>1, <1>7 DEF Drop
<1>8. CASE \E e \in Entities : Publish(e) \/ Purge(e)
  BY <1>3, <1>8 DEF Publish, Purge
<1>9. CASE UNCHANGED vars
  BY <1>3, <1>9 DEF vars
<1> QED
  BY <1>4, <1>6, <1>7, <1>8, <1>9 DEF Next

(* The lock's owner is past the lock, and may wait for the lookup inside a *)
(* reset, which waits for nobody.                                          *)
LEMMA WaitsAreShort ==
  ASSUME IInv, OwnerInv
  PROVE  WaitsEnd
<1> SUFFICES ASSUME NEW l \in Lookups, WaitsFor(l) # NoLookup
             PROVE  LET m == WaitsFor(l)
                    IN /\ m # l /\ pc[m] \in Holding
                       /\ WaitsFor(m) # NoLookup =>
                            LET r == WaitsFor(m)
                            IN r \notin {l, m} /\ pc[r] \in Holding /\ WaitsFor(r) = NoLookup
  BY DEF WaitsEnd
<1>1. mutex # NoLookup => mutex \in Lookups /\ pc[mutex] \in {"resetting", "promoting"}
  BY DEF IInv, TypeOK, ResetInv
<1>2. mutex # NoLookup => WaitsFor(mutex) = NoLookup /\ pc[mutex] \in Holding
  BY <1>1 DEF WaitsFor, Holding
<1>3. CASE pc[l] = "waiting"
  <2> DEFINE m == owner[lock[l]]
  <2>1. lock[l] \in Locks /\ WaitsFor(l) = m
    BY <1>3, Called DEF IInv, WaitsFor
  <2>2. m \in Lookups /\ pc[m] \in Holding
    BY <2>1 DEF OwnerInv, IInv, TypeOK
  <2>3. m # l
    BY <1>3, <2>2 DEF Holding
  <2> HIDE DEF m
  <2>4. WaitsFor(m) # NoLookup => WaitsFor(m) = mutex /\ pc[m] \in {"locked", "accepted"}
    BY <2>2 DEF WaitsFor, Holding
  <2> QED
    BY <1>1, <1>2, <1>3, <2>1, <2>2, <2>3, <2>4
<1>4. CASE pc[l] \in {"locked", "accepted"}
  <2>1. WaitsFor(l) = mutex
    BY <1>4 DEF WaitsFor
  <2> QED
    BY <1>1, <1>2, <1>4, <2>1
<1> QED
  BY <1>3, <1>4 DEF WaitsFor

(* Among any number of lookups, entities, locks and disconnects, no two    *)
(* lookups wait for each other, and none for one that is over.             *)
THEOREM NoDeadlock == Spec => []WaitsEnd
<1>1. Init => OwnerInv
  BY DEF Init, OwnerInv
<1>2. IInv /\ OwnerInv /\ [Next]_vars => OwnerInv'
  BY OwnerKept DEF IInv
<1>3. IInv /\ OwnerInv => WaitsEnd
  BY WaitsAreShort
<1> QED
  BY <1>1, <1>2, <1>3, Invariance, PTL DEF Spec

----------------------------------------------------------------------------
(* The refinement of MdqLookup                                             *)

(* A lookup has no answer before its call ends.                            *)
AnswerInv == \A l \in Lookups : pc[l] # "done" => answer[l] = NoAnswer

LEMMA AnswerKept ==
  ASSUME TypeOK, AnswerInv, [Next]_vars
  PROVE  AnswerInv'
<1>1. ASSUME NEW l \in Lookups, Leave(l),
             \A m \in Lookups \ {l} : answer'[m] = answer[m]
      PROVE  AnswerInv'
  BY <1>1 DEF TypeOK, AnswerInv, Leave
<1>2. ASSUME NEW l \in Lookups, NEW p \in Phases, pc[l] # "done",
             pc' = [pc EXCEPT ![l] = p], UNCHANGED answer
      PROVE  AnswerInv'
  BY <1>2 DEF TypeOK, AnswerInv
<1>3. ASSUME UNCHANGED <<pc, answer>> PROVE AnswerInv'
  BY <1>3 DEF AnswerInv
<1>4. CASE \E l \in Lookups : \E e \in Entities : Enter(l, e)
  BY <1>2, <1>4 DEF Enter, Phases
<1>5. CASE \E l \in Lookups : Step(l)
  <2> PICK l \in Lookups : Step(l)
    BY <1>5
  <2>1. CASE Acquire(l) \/ ReadScopes(l) \/ ReadAfterReset(l) \/ Hit(l) \/ Miss(l) \/ Fetch(l)
    BY <1>2, <2>1 DEF Acquire, ReadScopes, BeginReset, ReadAfterReset, Hit, Miss, Fetch, Phases
  <2>2. CASE ReturnHit(l) \/ FetchFails(l) \/ PromoteAfterReset(l)
    BY <1>1, <2>2 DEF ReturnHit, FetchFails, PromoteAfterReset, Return, TypeOK
  <2>3. CASE Promote(l)
    BY <1>1, <1>2, <2>3 DEF Promote, BeginReset, Return, TypeOK, Phases
  <2> QED
    BY <2>1, <2>2, <2>3 DEF Step
<1>6. CASE \E l \in Lookups : Drop(l)
  BY <1>1, <1>6 DEF Drop
<1>7. CASE \E e \in Entities : Publish(e) \/ Purge(e)
  BY <1>3, <1>7 DEF Publish, Purge
<1>8. CASE UNCHANGED vars
  BY <1>3, <1>8 DEF vars
<1> QED
  BY <1>4, <1>5, <1>6, <1>7, <1>8 DEF Next

(* A call that ends with an answer is one atomic read, if the document and *)
(* the scopes it returns are of one published version.                     *)
LEMMA ReturnServes ==
  ASSUME TypeOK, LockInv, AnswerInv, NEW l \in Lookups, pc[l] \in Holding,
         NEW v \in Versions, v <= published[target[l]], Return(l, v, v)
  PROVE  Service!Next
<1>1. target[l] \in Entities /\ published[target[l]] \in Versions
  BY Called DEF Holding, TypeOK
<1>2. v \in 1 .. published[target[l]]
  BY <1>1 DEF Versions
<1>3. answer[l] = NoAnswer
  BY DEF AnswerInv, Holding
<1>4. answer' = [answer EXCEPT ![l] = [entity |-> target[l], document |-> v, scopes |-> v]]
      /\ UNCHANGED published
  BY DEF Return, Leave
<1>5. Service!Serve(l, target[l])
  BY <1>2, <1>3, <1>4 DEF Service!Serve
<1> QED
  BY <1>1, <1>5 DEF Service!Next

LEMMA StepServes ==
  ASSUME IInv, AnswerInv, [Next]_vars
  PROVE  Service!Next \/ UNCHANGED <<published, answer>>
<1>1. ASSUME NEW l \in Lookups, pc[l] \in {"hit", "accepted", "promoting"},
             Return(l, fetched[l], fetched[l])
      PROVE  Service!Next
  <2>1. fetched[l] \in Versions /\ fetched[l] <= published[target[l]]
    BY <1>1 DEF IInv, TypeOK, CopyInv
  <2> QED
    BY <1>1, <2>1, ReturnServes DEF IInv, Holding
<1>2. ASSUME NEW l \in Lookups, ReturnHit(l) PROVE Service!Next
  <2>1. cached[l] = fetched[l]
    BY <1>2 DEF ReturnHit, IInv, CopyInv
  <2> QED
    BY <1>1, <1>2, <2>1 DEF ReturnHit, ScopesOnHit
<1>3. CASE \E l \in Lookups : Step(l)
  <2> PICK l \in Lookups : Step(l)
    BY <1>3
  <2>1. CASE ReturnHit(l)
    BY <1>2, <2>1
  <2>2. CASE Promote(l) \/ PromoteAfterReset(l)
    BY <1>1, <2>2 DEF Promote, PromoteAfterReset, BeginReset
  <2>3. CASE Acquire(l) \/ ReadScopes(l) \/ ReadAfterReset(l) \/ Hit(l) \/ Miss(l)
             \/ Fetch(l) \/ FetchFails(l)
    BY <2>3 DEF Acquire, ReadScopes, BeginReset, ReadAfterReset, Hit, Miss, Fetch,
                FetchFails, Leave
  <2> QED
    BY <2>1, <2>2, <2>3 DEF Step
<1>4. CASE \E e \in Entities : Publish(e)
  BY <1>4 DEF Publish, Service!Publish, Service!Next
<1>5. CASE \/ \E l \in Lookups : \E e \in Entities : Enter(l, e)
           \/ \E l \in Lookups : Drop(l)
           \/ \E e \in Entities : Purge(e)
  BY <1>5 DEF Enter, Drop, Leave, Purge
<1>6. CASE UNCHANGED vars
  BY <1>6 DEF vars
<1> QED
  BY <1>3, <1>4, <1>5, <1>6 DEF Next

(* Whatever the interleaving of lookups, resets, purges and new metadata,  *)
(* an answer is one atomic read of one published document: the client      *)
(* implements MdqLookup.                                                   *)
THEOREM Refinement == Spec => ServesOneDocument
<1>1. Init => Service!Init /\ IInv /\ AnswerInv
  BY InitIInv DEF Init, Service!Init, AnswerInv
<1>2. IInv /\ AnswerInv /\ [Next]_vars => IInv' /\ AnswerInv'
  BY NextIInv, AnswerKept DEF IInv
<1>3. IInv /\ AnswerInv /\ [Next]_vars => [Service!Next]_<<published, answer>>
  BY StepServes
<1> QED
  BY <1>1, <1>2, <1>3, PTL DEF Spec, ServesOneDocument, Service!Spec
=============================================================================
