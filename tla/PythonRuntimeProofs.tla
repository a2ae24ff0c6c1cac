------------------------ MODULE PythonRuntimeProofs ------------------------
(***************************************************************************)
(* Permits are conserved and contexts stay trustworthy, for any number of  *)
(* requests, permits, backends and decorations, whatever Python returns.   *)
(***************************************************************************)
EXTENDS PythonRuntime, FiniteSetTheorems, TLAPS

Calls == Contexts \cup {NoCall, Running, Failed}

LEMMA Constants ==
  /\ MaxCalls \in Nat /\ MaxCalls > 0 /\ CallTimeout \in Nat
  /\ Returns \subseteq Contexts
  /\ NoCall \notin Contexts /\ Running \notin Contexts /\ Failed \notin Contexts
  /\ NoCall # Running /\ NoCall # Failed /\ Running # Failed
BY RuntimeAssumption, NullAssumption

(* Those who hold a permit when requests are at phases ph and calls at c.  *)
HoldersOf(ph, c) == {r \in Requests : c[r] = Running \/ ph[r] = "granted"}

LEMMA HoldersIs == Holders = HoldersOf(phase, call) /\ Holders' = HoldersOf(phase', call')
BY DEF Holders, InPython, HoldersOf

----------------------------------------------------------------------------
(* The permits                                                             *)

(* A step that moves no permit keeps the account, if it makes nobody wait  *)
(* while a permit is free.                                                 *)
LEMMA PermitsKept ==
  ASSUME PermitInv, free' = free, HoldersOf(phase', call') = HoldersOf(phase, call),
         (\E r \in Requests : phase'[r] = "waiting") =>
           free = 0 \/ \E r \in Requests : phase[r] = "waiting"
  PROVE  PermitInv'
BY HoldersIs DEF PermitInv

(* A permit given back goes to a waiter or to the pool, and is not lost.   *)
LEMMA ReleaseKeeps ==
  ASSUME TypeOK, PermitInv, CallInv,
         NEW ph \in [Requests -> Phases], call' \in [Requests -> Calls], Release(ph),
         NEW r \in Holders, HoldersOf(ph, call') = Holders \ {r},
         \A w \in Requests : ph[w] = "waiting" => phase[w] = "waiting" /\ call'[w] = NoCall
  PROVE  PermitInv' /\ phase' \in [Requests -> Phases] /\ free' \in Nat
<1> DEFINE H == HoldersOf(ph, call')
<1>1. IsFiniteSet(H) /\ Cardinality(H) = Cardinality(Holders) - 1
  BY FS_RemoveElement DEF PermitInv
<1>2. Cardinality(H) \in Nat /\ Cardinality(Holders) \in Nat
  BY <1>1, FS_CardinalityType DEF PermitInv
<1>3. free \in Nat /\ free + 1 + Cardinality(H) = MaxCalls
  BY <1>1, <1>2 DEF PermitInv, TypeOK
<1>4. CASE /\ \A w \in Requests : ph[w] # "waiting"
           /\ phase' = ph
           /\ free' = free + 1
  BY <1>1, <1>2, <1>3, <1>4, HoldersIs DEF PermitInv
<1>5. CASE \E w \in Requests :
             ph[w] = "waiting" /\ phase' = [ph EXCEPT ![w] = "granted"] /\ free' = free
  <2>1. PICK w \in Requests :
          ph[w] = "waiting" /\ phase' = [ph EXCEPT ![w] = "granted"] /\ free' = free
    BY <1>5
  <2>2. phase' \in [Requests -> Phases] /\ free = 0
    BY <2>1 DEF Phases, PermitInv
  <2>3. w \notin H /\ HoldersOf(phase', call') = H \cup {w}
    <3>1. ph[w] # "granted" /\ call'[w] # Running
      BY <2>1, Constants
    <3> QED
      BY <2>1, <3>1 DEF HoldersOf
  <2>4. IsFiniteSet(H \cup {w}) /\ Cardinality(H \cup {w}) = Cardinality(H) + 1
    BY <1>1, <2>3, FS_AddElement
  <2> QED
    BY <1>2, <1>3, <2>1, <2>2, <2>3, <2>4, HoldersIs DEF PermitInv
<1> QED
  BY <1>4, <1>5 DEF Release

(* Where each request is and what its call is, after a permit moved on.    *)
LEMMA ReleaseCallInv ==
  ASSUME NEW ph \in [Requests -> Phases], Release(ph), call' \in [Requests -> Calls],
         \A r \in Requests :
           /\ ph[r] = "running" => call'[r] # NoCall
           /\ ph[r] = "ended" => call'[r] \in {NoCall, Running}
           /\ ph[r] \in {"ready", "waiting", "granted"} => call'[r] = NoCall
  PROVE  CallInv'
<1>1. CASE phase' = ph
  BY <1>1 DEF CallInv
<1>2. CASE \E w \in Requests : ph[w] = "waiting" /\ phase' = [ph EXCEPT ![w] = "granted"]
  BY <1>2 DEF CallInv
<1> QED
  BY <1>1, <1>2 DEF Release

----------------------------------------------------------------------------
(* Type correctness and the permits, action by action                      *)

Safe == TypeOK /\ PermitInv /\ CallInv

LEMMA PublishSafe ==
  ASSUME Safe, NEW r \in Requests, NEW k \in Keys, NEW v \in Values, Publish(r, k, v)
  PROVE  Safe'
<1>1. ctx' \in [Requests -> Contexts] /\ origin' \in [Requests -> [Keys -> Values \cup {Unset}]]
  BY DEF Publish, Safe, TypeOK, Contexts
<1>2. TypeOK'
  BY <1>1 DEF Publish, Safe, TypeOK
<1>3. PermitInv'
  BY PermitsKept DEF Publish, Safe
<1>4. CallInv'
  BY DEF Publish, Safe, CallInv
<1> QED
  BY <1>2, <1>3, <1>4 DEF Safe

LEMMA BeginSafe ==
  ASSUME Safe, NEW r \in Requests, Begin(r)
  PROVE  Safe'
<1>1. phase[r] = "ready" /\ call[r] = NoCall /\ free \in Nat
  BY DEF Begin, Safe, CallInv, TypeOK
<1>2. deadline' \in [Requests -> Nat] /\ now' = now /\ ctx' = ctx /\ origin' = origin
  BY Constants DEF Begin, Safe, TypeOK
<1>3. CASE free > 0 /\ free' = free - 1 /\ phase' = Moved(r, "running")
            /\ call' = [call EXCEPT ![r] = Running]
  <2>1. TypeOK'
    BY <1>1, <1>2, <1>3 DEF Safe, TypeOK, Moved, Phases
  <2>2. r \notin Holders /\ HoldersOf(phase', call') = Holders \cup {r}
    BY <1>1, <1>3, Constants, HoldersIs DEF HoldersOf, Moved, Safe, TypeOK
  <2>3. IsFiniteSet(Holders \cup {r}) /\ Cardinality(Holders \cup {r}) = Cardinality(Holders) + 1
    BY <2>2, FS_AddElement DEF Safe, PermitInv
  <2>4. Cardinality(Holders) \in Nat
    BY FS_CardinalityType DEF Safe, PermitInv
  <2>5. \A w \in Requests : phase'[w] # "waiting"
    BY <1>1, <1>3 DEF Moved, Safe, PermitInv, TypeOK
  <2>6. PermitInv'
    BY <1>1, <1>3, <2>2, <2>3, <2>4, <2>5, HoldersIs DEF Safe, PermitInv
  <2>7. CallInv'
    BY <1>3, Constants DEF Safe, TypeOK, CallInv, Moved
  <2> QED
    BY <2>1, <2>6, <2>7 DEF Safe
<1>4. CASE free = 0 /\ phase' = Moved(r, "waiting") /\ UNCHANGED <<free, call>>
  <2>1. TypeOK'
    BY <1>2, <1>4 DEF Safe, TypeOK, Moved, Phases
  <2>2. HoldersOf(phase', call') = HoldersOf(phase, call)
    BY <1>1, <1>4 DEF HoldersOf, Moved, Safe, TypeOK
  <2>3. PermitInv'
    BY <1>4, <2>2, PermitsKept DEF Safe
  <2>4. CallInv'
    BY <1>1, <1>4 DEF Safe, TypeOK, CallInv, Moved
  <2> QED
    BY <2>1, <2>3, <2>4 DEF Safe
<1> QED
  BY <1>3, <1>4 DEF Begin

LEMMA SpawnSafe ==
  ASSUME Safe, NEW r \in Requests, Spawn(r)
  PROVE  Safe'
<1>1. TypeOK'
  BY DEF Spawn, Safe, TypeOK, Moved, Phases
<1>2. HoldersOf(phase', call') = HoldersOf(phase, call)
  BY DEF HoldersOf, Spawn, Moved, Safe, TypeOK
<1>3. PermitInv'
  <2>1. \A w \in Requests : phase'[w] = "waiting" => phase[w] = "waiting"
    BY DEF Spawn, Moved, Safe, TypeOK
  <2> QED
    BY <1>2, <2>1, PermitsKept DEF Safe, Spawn
<1>4. CallInv'
  BY Constants DEF Spawn, Safe, TypeOK, CallInv, Moved
<1> QED
  BY <1>1, <1>3, <1>4 DEF Safe

(* A request leaves the queue or its call, keeping nobody's permit.        *)
LEMMA LeaveSafe ==
  ASSUME Safe, NEW r \in Requests, NEW p \in {"ready", "ended"},
         phase[r] # "granted", phase' = Moved(r, p), free' = free, now' = now, NoDeadline(r),
         call' = IF p = "ready" THEN [call EXCEPT ![r] = NoCall] ELSE Detached(r),
         p = "ready" => call[r] # Running,
         ctx' \in [Requests -> Contexts], origin' \in [Requests -> [Keys -> Values \cup {Unset}]]
  PROVE  Safe'
<1>1. call' \in [Requests -> Calls]
  BY DEF Safe, TypeOK, Detached, Calls
<1>2. TypeOK'
  BY <1>1 DEF Safe, TypeOK, Moved, Phases, Calls, NoDeadline
<1>3. HoldersOf(phase', call') = HoldersOf(phase, call)
  <2>1. \A q \in Requests : call'[q] = Running <=> call[q] = Running
    BY Constants DEF Safe, TypeOK, Detached
  <2>2. \A q \in Requests : phase'[q] = "granted" <=> phase[q] = "granted"
    BY DEF Safe, TypeOK, Moved
  <2> QED
    BY <2>1, <2>2 DEF HoldersOf
<1>4. PermitInv'
  <2>1. \A w \in Requests : phase'[w] = "waiting" => phase[w] = "waiting"
    BY DEF Moved, Safe, TypeOK
  <2> QED
    BY <1>3, <2>1, PermitsKept DEF Safe
<1>5. CallInv'
  BY DEF Safe, TypeOK, CallInv, Moved, Detached
<1> QED
  BY <1>2, <1>4, <1>5 DEF Safe

LEMMA ExitsSafe ==
  ASSUME Safe, NEW r \in Requests, Exits(r)
  PROVE  Safe'
<1>1. call[r] = Running /\ Release(phase) /\ phase \in [Requests -> Phases]
  BY DEF Exits, Safe, TypeOK
<1>2. PICK out \in Calls :
        /\ out # Running
        /\ call' = [call EXCEPT ![r] = out]
        /\ (phase[r] = "running" /\ out # NoCall) \/ (phase[r] = "ended" /\ out = NoCall)
  <2>1. CASE /\ phase[r] = "running"
             /\ \E out \in Returns \cup {Failed} : call' = [call EXCEPT ![r] = out]
    <3>1. PICK out \in Returns \cup {Failed} : call' = [call EXCEPT ![r] = out]
      BY <2>1
    <3>2. out \in Calls /\ out # Running /\ out # NoCall
      BY <3>1, Constants DEF Calls
    <3>3. (phase[r] = "running" /\ out # NoCall) \/ (phase[r] = "ended" /\ out = NoCall)
      BY <2>1, <3>2
    <3> QED
      BY <3>1, <3>2, <3>3
  <2>2. CASE phase[r] = "ended" /\ call' = [call EXCEPT ![r] = NoCall]
    <3>1. NoCall \in Calls /\ NoCall # Running
      BY Constants DEF Calls
    <3> QED
      BY <2>2, <3>1
  <2> QED
    BY <2>1, <2>2 DEF Exits
<1>3. call' \in [Requests -> Calls]
  BY <1>2 DEF Safe, TypeOK, Calls
<1>4. phase[r] # "waiting" /\ phase[r] # "granted"
  BY <1>1, Constants DEF Safe, CallInv
<1>5. r \in Holders /\ HoldersOf(phase, call') = Holders \ {r}
  BY <1>1, <1>2, <1>4, HoldersIs DEF HoldersOf, Safe, TypeOK
<1>6. \A w \in Requests : phase[w] = "waiting" => call'[w] = NoCall
  BY <1>2, <1>4 DEF Safe, TypeOK, CallInv
<1>7. PermitInv' /\ phase' \in [Requests -> Phases] /\ free' \in Nat
  BY <1>1, <1>3, <1>5, <1>6, ReleaseKeeps DEF Safe
<1>8. TypeOK'
  BY <1>3, <1>7 DEF Exits, Safe, TypeOK, Calls
<1>9. CallInv'
  <2>1. \A q \in Requests :
          /\ phase[q] = "running" => call'[q] # NoCall
          /\ phase[q] = "ended" => call'[q] \in {NoCall, Running}
          /\ phase[q] \in {"ready", "waiting", "granted"} => call'[q] = NoCall
    BY <1>2 DEF Safe, TypeOK, CallInv
  <2> QED
    BY <1>1, <1>3, <2>1, ReleaseCallInv
<1> QED
  BY <1>7, <1>8, <1>9 DEF Safe

LEMMA DropSafe ==
  ASSUME Safe, NEW r \in Requests, Drop(r)
  PROVE  Safe'
<1>1. ctx' \in [Requests -> Contexts] /\ origin' \in [Requests -> [Keys -> Values \cup {Unset}]]
  BY DEF Drop, Safe, TypeOK
<1>2. CASE phase[r] # "granted"
  BY <1>1, <1>2, LeaveSafe DEF Drop
<1>3. CASE phase[r] = "granted"
  <2> DEFINE ph == Moved(r, "ended")
  <2>1. call[r] = NoCall /\ call' = call /\ Release(ph) /\ ph \in [Requests -> Phases]
    BY <1>3, Constants DEF Drop, Detached, Moved, Phases, Safe, TypeOK, CallInv
  <2>2. call' \in [Requests -> Calls]
    BY <2>1 DEF Safe, TypeOK, Calls
  <2>3. r \in Holders /\ HoldersOf(ph, call') = Holders \ {r}
    BY <1>3, <2>1, Constants, HoldersIs DEF HoldersOf, Moved, Safe, TypeOK
  <2>4. \A w \in Requests : ph[w] = "waiting" => phase[w] = "waiting" /\ call'[w] = NoCall
    BY <2>1 DEF Moved, Safe, TypeOK, CallInv
  <2>5. PermitInv' /\ phase' \in [Requests -> Phases] /\ free' \in Nat
    BY <2>1, <2>2, <2>3, <2>4, ReleaseKeeps DEF Safe
  <2>6. TypeOK'
    BY <2>2, <2>5 DEF Drop, NoDeadline, Safe, TypeOK, Calls
  <2>7. CallInv'
    <3>1. \A q \in Requests :
            /\ ph[q] = "running" => call'[q] # NoCall
            /\ ph[q] = "ended" => call'[q] \in {NoCall, Running}
            /\ ph[q] \in {"ready", "waiting", "granted"} => call'[q] = NoCall
      BY <1>3, <2>1 DEF Moved, Safe, TypeOK, CallInv
    <3> QED
      BY <2>1, <2>2, <3>1, ReleaseCallInv
  <2> QED
    BY <2>5, <2>6, <2>7 DEF Safe
<1> QED
  BY <1>2, <1>3

LEMMA CommitsSafe ==
  ASSUME Safe, NEW r \in Requests, Commits(r)
  PROVE  Safe'
<1>1. call[r] \in Contexts /\ call[r] # Running /\ phase[r] # "granted"
  BY Constants DEF Commits
<1>2. ctx' \in [Requests -> Contexts]
  <2>1. [ctx[r] EXCEPT !.target_backend = call[r].target_backend,
                       !.decorations = call[r].decorations] \in Contexts
    BY <1>1 DEF Safe, TypeOK, Contexts
  <2> QED
    BY <2>1 DEF Commits, Safe, TypeOK
<1>3. origin' \in [Requests -> [Keys -> Values \cup {Unset}]]
  <2>1. call[r].decorations \in [Keys -> Values \cup {Unset}]
    BY <1>1 DEF Contexts
  <2> QED
    BY <2>1 DEF Commits, Safe, TypeOK
<1> QED
  BY <1>1, <1>2, <1>3, LeaveSafe DEF Commits

(* Those that end because of a deadline or an invalid result.              *)
LEMMA FailsSafe ==
  ASSUME Safe, NEW r \in Requests, AcquireTimesOut(r) \/ CallTimesOut(r) \/ Rejects(r)
  PROVE  Safe'
<1>1. ctx' \in [Requests -> Contexts] /\ origin' \in [Requests -> [Keys -> Values \cup {Unset}]]
  BY DEF AcquireTimesOut, CallTimesOut, Rejects, Safe, TypeOK
<1>2. CASE AcquireTimesOut(r)
  <2>1. call[r] = NoCall /\ call' = Detached(r)
    BY <1>2, Constants DEF AcquireTimesOut, Safe, TypeOK, CallInv, Detached
  <2> QED
    BY <1>1, <1>2, <2>1, LeaveSafe DEF AcquireTimesOut
<1>3. CASE CallTimesOut(r)
  BY <1>1, <1>3, LeaveSafe DEF CallTimesOut
<1>4. CASE Rejects(r)
  <2>1. call' = Detached(r)
    BY <1>4, Constants DEF Rejects, Detached
  <2> QED
    BY <1>1, <1>4, <2>1, LeaveSafe DEF Rejects
<1> QED
  BY <1>2, <1>3, <1>4

LEMMA TickSafe ==
  ASSUME Safe, Tick
  PROVE  Safe'
<1>1. TypeOK' /\ CallInv'
  BY DEF Tick, Safe, TypeOK, CallInv
<1>2. PermitInv'
  BY PermitsKept DEF Tick, Safe
<1> QED
  BY <1>1, <1>2 DEF Safe

----------------------------------------------------------------------------
(* The contexts                                                            *)

LEMMA PublishTrusted ==
  ASSUME TypeOK, ContextTrusted, NEW r \in Requests, NEW k \in Keys, NEW v \in Values,
         Publish(r, k, v)
  PROVE  ContextTrusted'
<1>1. ctx' = [ctx EXCEPT ![r].decorations[k] = v] /\ origin' = [origin EXCEPT ![r][k] = v]
  BY DEF Publish
<1>2. \A q \in Requests : ctx'[q].target_backend = ctx[q].target_backend
  BY <1>1 DEF TypeOK, Contexts
<1>3. \A q \in Requests, j \in Keys :
        ctx[q].decorations[j] = origin[q][j] => ctx'[q].decorations[j] = origin'[q][j]
  BY <1>1 DEF TypeOK, Contexts
<1> QED
  BY <1>2, <1>3, RuntimeAssumption DEF ContextTrusted

(* What a service returned passed the checks against what it was given.    *)
LEMMA CommitsTrusted ==
  ASSUME TypeOK, ContextTrusted, NEW r \in Requests, Commits(r)
  PROVE  ContextTrusted'
<1> DEFINE out == call[r]
<1>1. Valid(ctx[r], out)
  BY DEF Commits
<1>2. /\ ctx'[r].target_backend = out.target_backend
      /\ ctx'[r].decorations = out.decorations
      /\ \A q \in Requests \ {r} : ctx'[q] = ctx[q]
  BY DEF Commits, TypeOK, Contexts
<1>3. /\ \A q \in Requests \ {r} : origin'[q] = origin[q]
      /\ \A k \in Keys : origin'[r][k] =
           IF k \in Reserved \ ReadOnly /\ origin[r][k] = Unset
           THEN out.decorations[k] ELSE origin[r][k]
  BY DEF Commits, TypeOK
<1>4. ASSUME NEW k \in Reserved \cup ReadOnly
      PROVE  ctx'[r].decorations[k] = origin'[r][k]
  <2>1. k \in Keys /\ ctx[r].decorations[k] = origin[r][k]
    BY RuntimeAssumption DEF ContextTrusted
  <2>2. CASE k \in ReadOnly
    BY <1>1, <1>2, <1>3, <2>1, <2>2 DEF Valid
  <2>3. CASE k \in Reserved \ ReadOnly
    BY <1>1, <1>2, <1>3, <2>1, <2>3 DEF Valid
  <2> QED
    BY <2>2, <2>3
<1>5. ctx'[r].target_backend \in Backends \cup {NoBackend}
  BY <1>1, <1>2 DEF Valid
<1> QED
  BY <1>2, <1>3, <1>4, <1>5 DEF ContextTrusted

LEMMA StepTrusted ==
  ASSUME TypeOK, ContextTrusted, Next
  PROVE  ContextTrusted'
<1>1. CASE \E r \in Requests : \E k \in Keys, v \in Values : Publish(r, k, v)
  BY <1>1, PublishTrusted
<1>2. CASE \E r \in Requests : Commits(r)
  BY <1>2, CommitsTrusted
<1>3. CASE UNCHANGED <<ctx, origin>>
  BY <1>3 DEF ContextTrusted
<1> QED
  BY <1>1, <1>2, <1>3 DEF Next, Begin, Awaits, Spawn, AcquireTimesOut, CallTimesOut,
     Rejects, Exits, Drop, Tick

----------------------------------------------------------------------------
(* The theorems                                                            *)

LEMMA InitInv == Init => IInv
<1> SUFFICES ASSUME Init PROVE IInv
  OBVIOUS
<1>1. TypeOK
  BY RuntimeAssumption DEF Init, TypeOK, Phases, Contexts
<1>2. PermitInv
  <2>1. Holders = {}
    BY Constants DEF Init, Holders, InPython
  <2> QED
    BY <2>1, FS_EmptySet, Constants DEF Init, PermitInv
<1>3. CallInv
  BY DEF Init, CallInv
<1>4. ContextTrusted
  BY RuntimeAssumption DEF Init, ContextTrusted
<1> QED
  BY <1>1, <1>2, <1>3, <1>4 DEF IInv

LEMMA StepInv == IInv /\ [Next]_vars => IInv'
<1> SUFFICES ASSUME IInv, [Next]_vars PROVE IInv'
  OBVIOUS
<1>1. Safe /\ ContextTrusted
  BY DEF IInv, Safe
<1>2. CASE Next
  <2>1. Safe'
    <3>1. CASE Tick
      BY <1>1, <3>1, TickSafe
    <3>2. CASE \E r \in Requests :
                 \/ \E k \in Keys, v \in Values : Publish(r, k, v)
                 \/ Begin(r) \/ Awaits(r) \/ Exits(r) \/ Drop(r)
      BY <1>1, <3>2, PublishSafe, BeginSafe, SpawnSafe, FailsSafe, CommitsSafe,
         ExitsSafe, DropSafe DEF Awaits
    <3> QED
      BY <1>2, <3>1, <3>2 DEF Next
  <2>2. ContextTrusted'
    BY <1>1, <1>2, StepTrusted DEF Safe
  <2> QED
    BY <2>1, <2>2 DEF Safe, IInv
<1>3. CASE UNCHANGED vars
  BY <1>3 DEF vars, IInv, TypeOK, PermitInv, CallInv, ContextTrusted, Holders, InPython
<1> QED
  BY <1>2, <1>3

(* The inductive invariant holds in every behaviour of the runtime.        *)
THEOREM Invariance == Spec => []IInv
BY InitInv, StepInv, PTL DEF Spec

(* The calls in Python, detached ones included, never exceed               *)
(* max_concurrent_calls.                                                   *)
THEOREM CallsBounded == Spec => []AtMostMaxCalls
<1>1. IInv => AtMostMaxCalls
  <2> SUFFICES ASSUME IInv PROVE AtMostMaxCalls
    OBVIOUS
  <2>1. IsFiniteSet(Holders) /\ InPython \subseteq Holders
    BY DEF IInv, PermitInv, Holders
  <2>2. IsFiniteSet(InPython) /\ Cardinality(InPython) <= Cardinality(Holders)
    BY <2>1, FS_Subset
  <2>3. Cardinality(InPython) \in Nat /\ Cardinality(Holders) \in Nat
    BY <2>1, <2>2, FS_CardinalityType
  <2> QED
    BY <2>2, <2>3, Constants DEF IInv, TypeOK, PermitInv, AtMostMaxCalls
<1> QED
  BY <1>1, Invariance, PTL

(* A request is refused for want of a permit only while all are held.      *)
THEOREM NoPermitLost == Spec => RefusedOnlyWhenFull
<1>1. IInv /\ [Next]_vars =>
        [\A r \in Requests : AcquireTimesOut(r) => Cardinality(Holders) = MaxCalls]_vars
  <2> SUFFICES ASSUME IInv, NEW r \in Requests, AcquireTimesOut(r)
               PROVE  Cardinality(Holders) = MaxCalls
    OBVIOUS
  <2>1. free = 0 /\ free + Cardinality(Holders) = MaxCalls
    BY DEF IInv, PermitInv, AcquireTimesOut
  <2>2. Cardinality(Holders) \in Nat
    BY FS_CardinalityType DEF IInv, PermitInv
  <2> QED
    BY <2>1, <2>2
<1> QED
  BY <1>1, Invariance, PTL DEF Spec, RefusedOnlyWhenFull

(* Reserved and read-only decorations and the backend stay trustworthy     *)
(* through any chain of Python services.                                   *)
THEOREM ContextsTrusted == Spec => []ContextTrusted
<1>1. IInv => ContextTrusted
  BY DEF IInv
<1> QED
  BY <1>1, Invariance, PTL
=============================================================================
