------------------------- MODULE FederationBackend -------------------------
(***************************************************************************)
(* The OpenID Federation backend: the proxy as a relying party of the OPs  *)
(* that its trust anchors vouch for, and one browser that logs in at them. *)
(*                                                                         *)
(* Requests run concurrently.  They share the cache of resolved OPs, and   *)
(* through the browser's cookie the namespace each of them read when it    *)
(* began.  A request is cut wherever it awaits the network: between its    *)
(* look into the cache, the trust anchor's answer and the OP's, any other  *)
(* may run and time may pass.                                              *)
(***************************************************************************)
EXTENDS Federation

CONSTANTS
  Ops,         \* OPs of the federation
  Configured,  \* deployments: op_entity_id, or NoOp when a discovery service chooses
  OpCacheTtl,  \* op_cache_ttl
  MaxIds,      \* bound: random tokens
  NoOp, NoVerifier, NoLogin

ASSUME FederationAssumption ==
  /\ Configured \subseteq Ops \cup {NoOp} /\ NoOp \notin Ops
  /\ {OpCacheTtl, MaxIds} \subseteq Nat

VARIABLES
  fixedOp,    \* op_entity_id: the deployment
  resolved,   \* the cache of resolved OPs
  jar,        \* the backend's namespace in the browser's cookie
  nextId,     \* names the next random token
  offered,    \* verifiers of the discovery redirects the browser followed
  upstream    \* logins the browser was redirected to

vars == <<fixedOp, now, resolved, jar, handler, nextId, offered, upstream, used>>

(* What a trust anchor signed about an OP: its endpoints and keys, until   *)
(* when; `signed` is history.                                              *)
Decision == [op: Ops, signed: Nat, exp: Nat]
Entry == [expires: Nat, decision: Decision]

(* State, nonce and PKCE verifier, which are minted together, with the OP. *)
Login == [id: Nat, op: Ops]
Verifiers == Nat \cup {NoVerifier}
Logins == Login \cup {NoLogin}
Namespace == [verifier: Verifiers, login: Logins]
EmptyNamespace == [verifier |-> NoVerifier, login |-> NoLogin]

(* A request that awaits the network, to begin a login (code = NoLogin) or *)
(* to redeem one; and a response on its way, with where it redirects to.   *)
Work == [phase: {"resolving", "signed", "redeeming"}, op: Ops, code: Logins,
         state: Namespace, decision: Decision \cup {NoDecision}, since: Nat]
Response == [state: Namespace, verifier: Verifiers, login: Logins]

Use == [decision: Decision, op: Ops, code: Logins, time: Nat]

ASSUME NullAssumption ==
  /\ NoEntry \notin Entry /\ NoVerifier \notin Nat /\ NoLogin \notin Login
  /\ NoDecision \notin Decision /\ NoUse \notin Use /\ Idle \notin Work \cup Response

TypeOK ==
  /\ fixedOp \in Configured
  /\ now \in Nat
  /\ resolved \in [Ops -> Entry \cup {NoEntry}]
  /\ jar \in Namespace
  /\ handler \in [Handlers -> Work \cup Response \cup {Idle}]
  /\ nextId \in Nat
  /\ offered \subseteq Nat
  /\ upstream \subseteq Login
  /\ used \in Use \cup {NoUse}

Init ==
  /\ fixedOp \in Configured
  /\ now = 0
  /\ resolved = [op \in Ops |-> NoEntry]
  /\ jar = EmptyNamespace
  /\ handler = [h \in Handlers |-> Idle]
  /\ nextId = 0
  /\ offered = {} /\ upstream = {}
  /\ used = NoUse

----------------------------------------------------------------------------
(* Ends of a request                                                       *)

Responds(h, state, verifier, login) ==
  Goes(h, [state |-> state, verifier |-> verifier, login |-> login])

(* render_error reseals the namespace as it was.                           *)
Fails(h, state) == Responds(h, state, NoVerifier, NoLogin)

(* What follows resolve_op without another await.                          *)
Acts(w, d) ==
  used' = [decision |-> d, op |-> w.op, code |-> w.code, time |-> now]

(* start_auth_with_op, and handle_initiate's clearing of the verifier.     *)
BeginLogin(h, w) ==
  LET l == [id |-> nextId, op |-> w.op]
  IN /\ nextId < MaxIds
     /\ nextId' = nextId + 1
     /\ Responds(h, [verifier |-> NoVerifier, login |-> l], NoVerifier, l)

(* exchange_code.                                                          *)
SendCode(h, w, d) ==
  /\ Goes(h, [w EXCEPT !.phase = "redeeming", !.decision = d, !.since = now])
  /\ UNCHANGED nextId

Proceeds(h, w, d) ==
  /\ Acts(w, d)
  /\ IF w.code = NoLogin THEN BeginLogin(h, w) ELSE SendCode(h, w, d)

----------------------------------------------------------------------------
(* resolve_op                                                              *)

Cached(op) == resolved[op] # NoEntry /\ resolved[op].expires > now

(* Its look into the cache.                                                *)
Resolve(h, op, code) ==
  LET w == [phase |-> "resolving", op |-> op, code |-> code, state |-> jar,
            decision |-> NoDecision, since |-> now]
  IN \/ Cached(op) /\ Proceeds(h, w, resolved[op].decision)
     \/ /\ ~Cached(op)
        /\ Goes(h, w)
        /\ UNCHANGED <<nextId, used>>

At(h, phase) == handler[h] \in Work /\ handler[h].phase = phase
Rest == UNCHANGED <<fixedOp, now, jar, offered, upstream>>

(* A trust anchor signs a resolve response.                                *)
Sign(h) ==
  /\ At(h, "resolving")
  /\ \E life \in Lifetimes :
       Goes(h, [handler[h] EXCEPT !.phase = "signed",
         !.decision = [op |-> handler[h].op, signed |-> now, exp |-> now + life]])
  /\ Rest /\ UNCHANGED <<resolved, nextId, used>>

(* Mutants: the configured lifetime, and the anchor's, alone.              *)
ExpiresByConfig(d) == now + OpCacheTtl
ExpiresByTrust(d) == d.exp
(* Whichever lifetime ends first.                                          *)
Expires(d) == IF OpCacheTtl < d.exp - now THEN now + OpCacheTtl ELSE d.exp

(* The response arrives.  Whatever others stored meanwhile is overwritten. *)
Store(h) ==
  LET w == handler[h]
      d == w.decision
  IN /\ At(h, "signed")
     /\ \/ d.exp <= now /\ Fails(h, w.state)
           /\ UNCHANGED <<resolved, nextId, used>>
        \/ /\ d.exp > now
           /\ resolved' = [resolved EXCEPT ![w.op] = [expires |-> Expires(d), decision |-> d]]
           /\ Proceeds(h, w, d)
     /\ Rest

(* No trust anchor answers, or with metadata that is refused.              *)
ResolveFails(h) ==
  /\ At(h, "resolving") \/ At(h, "signed")
  /\ Fails(h, handler[h].state)
  /\ Rest /\ UNCHANGED <<resolved, nextId, used>>

----------------------------------------------------------------------------
(* The endpoints                                                           *)

(* The entity configuration, and every other page the browser asks for:    *)
(* the namespace is resealed.                                              *)
EntityConfiguration(h) ==
  /\ handler[h] = Idle
  /\ Responds(h, jar, NoVerifier, NoLogin)
  /\ Rest /\ UNCHANGED <<resolved, nextId, used>>

(* start_auth.  With discovery it awaits nothing, and leaves a login that  *)
(* was begun before in the namespace.                                      *)
StartAuth(h) ==
  /\ handler[h] = Idle
  /\ IF fixedOp # NoOp THEN Resolve(h, fixedOp, NoLogin)
     ELSE /\ nextId < MaxIds
          /\ nextId' = nextId + 1
          /\ Responds(h, [jar EXCEPT !.verifier = nextId], nextId, NoLogin)
          /\ UNCHANGED used
  /\ Rest /\ UNCHANGED resolved

(* handle_initiate: the discovery service returns the browser, with an OP  *)
(* or an issuer that is none.                                              *)
Initiate(h, v, op) ==
  /\ handler[h] = Idle /\ fixedOp = NoOp
  /\ \/ /\ Fails(h, jar)
        /\ UNCHANGED <<nextId, used>>
     \/ jar.verifier = v /\ Resolve(h, op, NoLogin)
  /\ Rest /\ UNCHANGED resolved

(* Mutant: any login of the namespace will do.                             *)
MatchesAny(l) == jar.login # NoLogin
Matches(l) == jar.login = l

(* handle_callback: an OP returns the browser, with a code or an error.    *)
Callback(h, l) ==
  /\ handler[h] = Idle
  /\ \/ /\ Fails(h, jar)
        /\ UNCHANGED <<nextId, used>>
     \/ Matches(l) /\ Resolve(h, jar.login.op, l)
  /\ Rest /\ UNCHANGED resolved

(* The token, key and userinfo requests succeed, or one does not: an OP    *)
(* refuses a code that was redeemed before.                                *)
Redeemed(h) ==
  /\ At(h, "redeeming")
  /\ Fails(h, handler[h].state) \/ Responds(h, EmptyNamespace, NoVerifier, NoLogin)
  /\ Rest /\ UNCHANGED <<resolved, nextId, used>>

----------------------------------------------------------------------------
(* The browser and the clock                                               *)

Deliver(h) ==
  /\ handler[h] \in Response
  /\ jar' = handler[h].state
  /\ offered' = offered \cup ({handler[h].verifier} \ {NoVerifier})
  /\ upstream' = upstream \cup ({handler[h].login} \ {NoLogin})
  /\ Goes(h, Idle)
  /\ UNCHANGED <<fixedOp, now, resolved, nextId, used>>

Lose(h) ==
  /\ handler[h] \in Response
  /\ Goes(h, Idle)
  /\ Rest /\ UNCHANGED <<resolved, nextId, used>>

Tick ==
  /\ now < MaxNow
  /\ \A h \in Handlers : handler[h] \in Work => now - handler[h].since < Wait
  /\ now' = now + 1
  /\ UNCHANGED <<fixedOp, resolved, jar, handler, nextId, offered, upstream, used>>

Next ==
  \/ \E h \in Handlers :
       \/ EntityConfiguration(h) \/ StartAuth(h)
       \/ \E v \in offered, op \in Ops : Initiate(h, v, op)
       \/ \E l \in upstream : Callback(h, l)
       \/ Sign(h) \/ Store(h) \/ ResolveFails(h) \/ Redeemed(h)
       \/ Deliver(h) \/ Lose(h)
  \/ Tick

Spec == Init /\ [][Next]_vars

----------------------------------------------------------------------------
(* Properties                                                              *)

(* The cache is never an extension of the trust anchor's signed decision:  *)
(* no browser is redirected and no code is sent on one that is over.       *)
TrustInForce == used # NoUse => used.time < used.decision.exp

(* Nor does it serve metadata older than op_cache_ttl and one resolution,  *)
(* although a slower request may put an older decision back.               *)
BoundedStaleness == used # NoUse =>
  \/ used.time - used.decision.signed <= Wait
  \/ used.time - used.decision.signed < OpCacheTtl + Wait

(* A code goes to the OP its login was begun at, whatever other logins the *)
(* browser began or finished since.                                        *)
CodesReachTheirOp == used # NoUse =>
  /\ used.decision.op = used.op
  /\ used.code # NoLogin => used.code.op = used.op

----------------------------------------------------------------------------
(* The inductive invariant                                                 *)

GoodDecision(d, op) == d.op = op /\ d.signed <= now

CacheInv == \A op \in Ops : resolved[op] # NoEntry =>
  LET e == resolved[op]
  IN /\ GoodDecision(e.decision, op)
     /\ e.expires <= e.decision.exp
     /\ e.expires <= e.decision.signed + Wait + OpCacheTtl

WorkInv == \A h \in Handlers : handler[h] \in Work =>
  LET w == handler[h]
  IN /\ w.since <= now /\ now - w.since <= Wait
     /\ w.code # NoLogin => w.code.op = w.op
     /\ w.phase = "signed" =>
          /\ w.decision # NoDecision
          /\ GoodDecision(w.decision, w.op)
          /\ w.since <= w.decision.signed

IInv ==
  /\ TypeOK /\ CacheInv /\ WorkInv
  /\ TrustInForce /\ BoundedStaleness /\ CodesReachTheirOp
=============================================================================
