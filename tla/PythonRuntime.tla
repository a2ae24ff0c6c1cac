--------------------------- MODULE PythonRuntime ---------------------------
(***************************************************************************)
(* The embedded Python runtime: requests run Python micro-services in      *)
(* turn, each in a thread that holds a permit of one semaphore until       *)
(* Python returns, and each awaited no longer than its deadline.  A call   *)
(* whose request went away - it timed out, or the client left - goes on    *)
(* detached, and nothing it returns is read.                               *)
(*                                                                         *)
(* The semaphore is tokio's: a permit that is released goes to a waiter if *)
(* there is one.  Which waiter is left open.  A deadline too far for the   *)
(* clock to represent is refused before anything changes and is not        *)
(* modelled.                                                               *)
(***************************************************************************)
EXTENDS Integers, FiniteSets

CONSTANTS
  Requests,
  MaxCalls,     \* max_concurrent_calls
  CallTimeout,  \* call_timeout
  Backends,     \* the configured backends
  Names,        \* what a service may call a backend
  Reserved,     \* FIRST_WRITER_DECORATION_KEYS
  ReadOnly,     \* READ_ONLY_DECORATION_KEYS
  Keys,         \* every decoration key
  Values, Unset,
  Fields, Sent, \* the read-only fields of the context, and what was sent
  Returns,      \* the contexts Python may return
  NoBackend, NoCall, Running, Failed,
  MaxNow        \* bound: the clock

Contexts == [fields: Fields, target_backend: Names \cup {NoBackend},
             decorations: [Keys -> Values \cup {Unset}]]

ASSUME RuntimeAssumption ==
  /\ MaxCalls \in Nat \ {0} /\ CallTimeout \in Nat \ {0} /\ MaxNow \in Nat
  /\ Backends \subseteq Names /\ Reserved \cup ReadOnly \subseteq Keys
  /\ Sent \in Fields /\ Returns \subseteq Contexts
ASSUME NullAssumption ==
  /\ Unset \notin Values /\ NoBackend \notin Names
  /\ {NoCall, Running, Failed} \cap Contexts = {}
  /\ NoCall # Running /\ NoCall # Failed /\ Running # Failed

VARIABLES
  now,
  free,      \* permits of the semaphore nobody holds
  phase,     \* per request: where it is
  deadline,  \* per request: that of its execution, 0 outside one
  ctx,       \* per request: its context
  call,      \* per request: its blocking task, then what that returned
  origin     \* history: per request, the value each decoration should keep

vars == <<now, free, phase, deadline, ctx, call, origin>>

Phases == {"ready", "waiting", "granted", "running", "ended"}

TypeOK ==
  /\ now \in Nat
  /\ free \in Nat
  /\ phase \in [Requests -> Phases]
  /\ deadline \in [Requests -> Nat]
  /\ ctx \in [Requests -> Contexts]
  /\ call \in [Requests -> Contexts \cup {NoCall, Running, Failed}]
  /\ origin \in [Requests -> [Keys -> Values \cup {Unset}]]

Init ==
  /\ now = 0 /\ free = MaxCalls
  /\ phase = [r \in Requests |-> "ready"]
  /\ deadline = [r \in Requests |-> 0]
  /\ ctx = [r \in Requests |->
       [fields |-> Sent, target_backend |-> NoBackend,
        decorations |-> [k \in Keys |-> Unset]]]
  /\ call = [r \in Requests |-> NoCall]
  /\ origin = [r \in Requests |-> [k \in Keys |-> Unset]]

----------------------------------------------------------------------------
(* The semaphore                                                           *)

(* Requests at phases ph give a permit back: to a waiter, or to the pool.  *)
Release(ph) ==
  \/ /\ \A w \in Requests : ph[w] # "waiting"
     /\ phase' = ph
     /\ free' = free + 1
  \/ \E w \in Requests :
       /\ ph[w] = "waiting"
       /\ phase' = [ph EXCEPT ![w] = "granted"]
       /\ free' = free

Moved(r, p) == [phase EXCEPT ![r] = p]
NoDeadline(r) == deadline' = [deadline EXCEPT ![r] = 0]

----------------------------------------------------------------------------
(* One execution                                                           *)

(* A native component publishes a decoration nobody has set.               *)
Publish(r, k, v) ==
  /\ phase[r] = "ready" /\ ctx[r].decorations[k] = Unset
  /\ ctx' = [ctx EXCEPT ![r].decorations[k] = v]
  /\ origin' = [origin EXCEPT ![r][k] = v]
  /\ UNCHANGED <<now, free, phase, deadline, call>>

(* The deadline is set before the permit is asked for and covers both.     *)
Begin(r) ==
  /\ phase[r] = "ready" /\ now + CallTimeout <= MaxNow
  /\ deadline' = [deadline EXCEPT ![r] = now + CallTimeout]
  /\ \/ /\ free > 0
        /\ free' = free - 1
        /\ phase' = Moved(r, "running")
        /\ call' = [call EXCEPT ![r] = Running]
     \/ /\ free = 0
        /\ phase' = Moved(r, "waiting")
        /\ UNCHANGED <<free, call>>
  /\ UNCHANGED <<now, ctx, origin>>

(* The permit moves into the blocking task.                                *)
Spawn(r) ==
  /\ phase[r] = "granted"
  /\ phase' = Moved(r, "running")
  /\ call' = [call EXCEPT ![r] = Running]
  /\ UNCHANGED <<now, free, deadline, ctx, origin>>

(* Mutant: the permit is awaited without a limit.                          *)
AcquireForever(r) == FALSE /\ UNCHANGED vars
AcquireTimesOut(r) ==
  /\ phase[r] = "waiting" /\ now >= deadline[r]
  /\ phase' = Moved(r, "ended")
  /\ NoDeadline(r)
  /\ UNCHANGED <<now, free, ctx, call, origin>>

(* Mutant: the permit is forgotten when the call fails.                    *)
ExitsLeaking(r) ==
  /\ call[r] = Running
  /\ \E out \in Returns \cup {Failed} :
       /\ IF out = Failed THEN UNCHANGED <<free, phase>> ELSE Release(phase)
       /\ call' = [call EXCEPT ![r] = IF phase[r] = "running" THEN out ELSE NoCall]
  /\ UNCHANGED <<now, deadline, ctx, origin>>

(* Python returns or raises, and the blocking task drops its permit.  What *)
(* a detached call returns has no reader.                                  *)
Exits(r) ==
  /\ call[r] = Running
  /\ Release(phase)
  /\ \/ /\ phase[r] = "running"
        /\ \E out \in Returns \cup {Failed} : call' = [call EXCEPT ![r] = out]
     \/ /\ phase[r] = "ended"
        /\ call' = [call EXCEPT ![r] = NoCall]
  /\ UNCHANGED <<now, deadline, ctx, origin>>

(* Dropping the handle of a task detaches it, and drops what it returned.  *)
Detached(r) == [call EXCEPT ![r] = IF @ = Running THEN Running ELSE NoCall]

(* A task that has just returned may still miss its deadline.              *)
CallTimesOut(r) ==
  /\ phase[r] = "running" /\ now >= deadline[r]
  /\ phase' = Moved(r, "ended")
  /\ call' = Detached(r)
  /\ NoDeadline(r)
  /\ UNCHANGED <<now, free, ctx, origin>>

(* Mutant: the reserved decorations are not compared.                      *)
ValidButReserved(original, out) ==
  /\ out.fields = original.fields
  /\ \A k \in ReadOnly : out.decorations[k] = original.decorations[k]
  /\ out.target_backend \in Backends \cup {NoBackend}

(* validate_read_only, validate_reserved_decorations,                      *)
(* validate_read_only_decorations and the check of the backend.            *)
Valid(original, out) ==
  /\ out.fields = original.fields
  /\ \A k \in Reserved :
       original.decorations[k] # Unset => out.decorations[k] = original.decorations[k]
  /\ \A k \in ReadOnly : out.decorations[k] = original.decorations[k]
  /\ out.target_backend \in Backends \cup {NoBackend}

(* The result is committed as a whole if it is valid, however late it is.  *)
Commits(r) ==
  /\ phase[r] = "running" /\ call[r] \in Contexts /\ Valid(ctx[r], call[r])
  /\ phase' = Moved(r, "ready")
  /\ ctx' = [ctx EXCEPT ![r].target_backend = call[r].target_backend,
                        ![r].decorations = call[r].decorations]
  /\ call' = [call EXCEPT ![r] = NoCall]
  /\ origin' = [origin EXCEPT ![r] = [k \in Keys |->
       IF k \in Reserved \ ReadOnly /\ @[k] = Unset THEN call[r].decorations[k] ELSE @[k]]]
  /\ NoDeadline(r)
  /\ UNCHANGED <<now, free>>

Rejects(r) ==
  /\ phase[r] = "running"
  /\ call[r] = Failed \/ (call[r] \in Contexts /\ ~Valid(ctx[r], call[r]))
  /\ phase' = Moved(r, "ended")
  /\ call' = [call EXCEPT ![r] = NoCall]
  /\ NoDeadline(r)
  /\ UNCHANGED <<now, free, ctx, origin>>

(* The request ends, or the client leaves and the request is dropped where *)
(* it is: in the queue, with a permit it has not used, or during the call. *)
Drop(r) ==
  /\ phase[r] # "ended"
  /\ IF phase[r] = "granted" THEN Release(Moved(r, "ended"))
     ELSE phase' = Moved(r, "ended") /\ free' = free
  /\ call' = Detached(r)
  /\ NoDeadline(r)
  /\ UNCHANGED <<now, ctx, origin>>

Tick ==
  /\ now < MaxNow
  /\ now' = now + 1
  /\ UNCHANGED <<free, phase, deadline, ctx, call, origin>>

Awaits(r) == Spawn(r) \/ AcquireTimesOut(r) \/ CallTimesOut(r) \/ Commits(r) \/ Rejects(r)

Next ==
  \/ \E r \in Requests :
       \/ \E k \in Keys, v \in Values : Publish(r, k, v)
       \/ Begin(r) \/ Awaits(r) \/ Exits(r) \/ Drop(r)
  \/ Tick

Spec == Init /\ [][Next]_vars

(* The timer and the executor do not stop.  Python may never return.       *)
FairSpec == Spec /\ WF_vars(Tick) /\ \A r \in Requests : WF_vars(Awaits(r))

----------------------------------------------------------------------------
(* Properties                                                              *)

InPython == {r \in Requests : call[r] = Running}
Holders == InPython \cup {r \in Requests : phase[r] = "granted"}

(* No more than max_concurrent_calls threads are ever in Python, the calls *)
(* their requests gave up included (lib.rs:429-432).                       *)
AtMostMaxCalls == IsFiniteSet(InPython) /\ Cardinality(InPython) <= MaxCalls

(* A request times out in the queue only while every permit is accounted   *)
(* for: none leaks when calls fail, requests time out or clients leave.    *)
RefusedOnlyWhenFull ==
  [][\A r \in Requests : AcquireTimesOut(r) => Cardinality(Holders) = MaxCalls]_vars

(* However many Python services a request passes, a reserved decoration    *)
(* keeps its first value, a read-only one has the value native code gave   *)
(* it, and the backend chosen is a configured one.                         *)
ContextTrusted == \A r \in Requests :
  /\ \A k \in Reserved \cup ReadOnly : ctx[r].decorations[k] = origin[r][k]
  /\ ctx[r].target_backend \in Backends \cup {NoBackend}

(* Every execution ends, even if no Python call ever returns.              *)
EveryExecutionEnds == \A r \in Requests :
  phase[r] \in {"waiting", "granted", "running"} ~> phase[r] \in {"ready", "ended"}

----------------------------------------------------------------------------
(* The inductive invariant                                                 *)

(* Each permit is free or has a holder, and none is free while one waits.  *)
PermitInv ==
  /\ IsFiniteSet(Holders) /\ free + Cardinality(Holders) = MaxCalls
  /\ (\E r \in Requests : phase[r] = "waiting") => free = 0

(* Only a request that runs has a result to read; only a request that ran  *)
(* leaves a call behind.                                                   *)
CallInv == \A r \in Requests :
  /\ phase[r] = "running" => call[r] # NoCall
  /\ phase[r] = "ended" => call[r] \in {NoCall, Running}
  /\ phase[r] \in {"ready", "waiting", "granted"} => call[r] = NoCall

IInv == TypeOK /\ PermitInv /\ CallInv /\ ContextTrusted
=============================================================================
