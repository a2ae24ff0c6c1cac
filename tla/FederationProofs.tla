-------------------------- MODULE FederationProofs --------------------------
(***************************************************************************)
(* Both ends of the proxy in an OpenID Federation.  The backend's cache of *)
(* resolved OPs never outlives a trust anchor's decision; the frontend     *)
(* uses no registration beyond one and retries no failure early: for any   *)
(* number of entities and requests, any lifetimes and length of awaits.    *)
(***************************************************************************)
EXTENDS FederationBackend, FederationFrontend, TLAPS

----------------------------------------------------------------------------
(* The backend                                                             *)

LEMMA Constants ==
  /\ OpCacheTtl \in Nat /\ Wait \in Nat /\ Lifetimes \subseteq Nat
  /\ NoEntry \notin Entry /\ NoVerifier \notin Nat /\ NoLogin \notin Login
  /\ NoDecision \notin Decision /\ NoUse \notin Use
  /\ Idle \notin Work /\ Idle \notin Response
BY ClockAssumption, FederationAssumption, NullAssumption

(* A request under way is not a response.                                  *)
LEMMA Disjoint == Work \cap Response = {}
<1> SUFFICES ASSUME NEW w \in Work, w \in Response PROVE FALSE
  OBVIOUS
<1>1. DOMAIN w = {"phase", "op", "code", "state", "decision", "since"}
  BY DEF Work
<1>2. DOMAIN w = {"state", "verifier", "login"}
  BY DEF Response
<1> QED
  BY <1>1, <1>2

LEMMA ResponseType ==
  ASSUME NEW state \in Namespace, NEW v \in Verifiers, NEW l \in Logins
  PROVE  [state |-> state, verifier |-> v, login |-> l] \in Response
BY DEF Response

LEMMA EmptyType == NoVerifier \in Verifiers /\ NoLogin \in Logins /\ EmptyNamespace \in Namespace
BY DEF Verifiers, Logins, EmptyNamespace, Namespace

(* The invariant's part about one request.                                 *)
WorkGood(w) ==
  /\ w.since <= now /\ now - w.since <= Wait
  /\ w.code # NoLogin => w.code.op = w.op
  /\ w.phase = "signed" =>
       /\ w.decision # NoDecision
       /\ GoodDecision(w.decision, w.op)
       /\ w.since <= w.decision.signed

UseGood ==
  /\ used \in Use \cup {NoUse}
  /\ TrustInForce /\ BoundedStaleness /\ CodesReachTheirOp

----------------------------------------------------------------------------
(* One request changes what it is doing                                    *)

(* A request that goes on to good work, or ends in a response, keeps the   *)
(* invariant when the cache and the last use it leaves are good.           *)
LEMMA GoesKeeps ==
  ASSUME IInv, NEW h \in Handlers, NEW w,
         w \in Response \cup {Idle} \/ (w \in Work /\ WorkGood(w)),
         Goes(h, w), now' = now, fixedOp' = fixedOp,
         jar' \in Namespace, nextId' \in Nat, offered' \subseteq Nat, upstream' \subseteq Login,
         resolved' \in [Ops -> Entry \cup {NoEntry}], CacheInv', UseGood'
  PROVE  IInv'
<1>1. handler' = [handler EXCEPT ![h] = w] /\ handler \in [Handlers -> Work \cup Response \cup {Idle}]
  BY DEF Goes, IInv, TypeOK
<1>2. TypeOK'
  BY <1>1 DEF IInv, TypeOK, UseGood
<1>3. WorkInv'
  <2> SUFFICES ASSUME NEW g \in Handlers, handler'[g] \in Work
               PROVE  WorkGood(handler[g])'
    BY DEF WorkInv, WorkGood
  <2>1. CASE g = h
    <3>1. handler'[g] = w
      BY <1>1, <2>1
    <3>2. w \in Work /\ WorkGood(w)
      BY <3>1, Disjoint, Constants
    <3> QED
      BY <3>1, <3>2 DEF WorkGood, GoodDecision
  <2>2. CASE g # h
    <3>1. handler'[g] = handler[g]
      BY <1>1, <2>2
    <3> QED
      BY <3>1 DEF IInv, WorkInv, WorkGood, GoodDecision
  <2> QED
    BY <2>1, <2>2
<1> QED
  BY <1>2, <1>3 DEF IInv, UseGood

LEMMA CacheSame ==
  ASSUME IInv, resolved' = resolved, now' = now
  PROVE  resolved' \in [Ops -> Entry \cup {NoEntry}] /\ CacheInv'
BY DEF IInv, TypeOK, CacheInv, GoodDecision

LEMMA UseSame ==
  ASSUME IInv, used' = used
  PROVE  UseGood'
BY DEF IInv, TypeOK, UseGood, TrustInForce, BoundedStaleness, CodesReachTheirOp

LEMMA FailsKeeps ==
  ASSUME IInv, NEW h \in Handlers, NEW state \in Namespace, Fails(h, state), Rest,
         UNCHANGED <<resolved, nextId, used>>
  PROVE  IInv'
<1>1. [state |-> state, verifier |-> NoVerifier, login |-> NoLogin] \in Response
  BY ResponseType, EmptyType
<1> QED
  BY <1>1, GoesKeeps, CacheSame, UseSame DEF Fails, Responds, Rest, IInv, TypeOK

----------------------------------------------------------------------------
(* resolve_op                                                              *)

(* What a request does with a decision that is in force and recent.        *)
LEMMA ProceedsKeeps ==
  ASSUME IInv, NEW h \in Handlers, NEW w \in Work, NEW d \in Decision,
         Proceeds(h, w, d), Rest,
         w.code # NoLogin => w.code.op = w.op,
         GoodDecision(d, w.op), now < d.exp,
         now - d.signed <= Wait \/ now - d.signed < OpCacheTtl + Wait,
         resolved' \in [Ops -> Entry \cup {NoEntry}], CacheInv'
  PROVE  IInv'
<1>1. w.op \in Ops /\ w.code \in Logins /\ w.state \in Namespace /\ now \in Nat /\ nextId \in Nat
  BY DEF Work, IInv, TypeOK
<1>2. UseGood'
  <2> DEFINE u == [decision |-> d, op |-> w.op, code |-> w.code, time |-> now]
  <2>1. used' = u /\ u \in Use
    BY <1>1 DEF Proceeds, Acts, Use
  <2>2. TrustInForce'
    BY <2>1 DEF TrustInForce
  <2>3. BoundedStaleness'
    BY <2>1 DEF BoundedStaleness
  <2>4. CodesReachTheirOp'
    BY <2>1 DEF CodesReachTheirOp, GoodDecision
  <2> QED
    BY <2>1, <2>2, <2>3, <2>4 DEF UseGood
<1>3. CASE w.code = NoLogin
  <2> DEFINE l == [id |-> nextId, op |-> w.op]
             state == [verifier |-> NoVerifier, login |-> l]
             r == [state |-> state, verifier |-> NoVerifier, login |-> l]
  <2>1. BeginLogin(h, w)
    BY <1>3 DEF Proceeds
  <2>2. l \in Login /\ state \in Namespace
    BY <1>1 DEF Login, Namespace, Verifiers, Logins
  <2>3. r \in Response
    BY <2>2, ResponseType, EmptyType DEF Logins
  <2>4. Goes(h, r) /\ nextId' = nextId + 1
    BY <2>1 DEF BeginLogin, Responds
  <2> HIDE DEF r
  <2> QED
    BY <1>1, <1>2, <2>3, <2>4, GoesKeeps DEF Rest, IInv, TypeOK
<1>4. CASE w.code # NoLogin
  <2> DEFINE v == [w EXCEPT !.phase = "redeeming", !.decision = d, !.since = now]
  <2>1. Goes(h, v) /\ nextId' = nextId
    BY <1>4 DEF Proceeds, SendCode
  <2>2. v \in Work
    BY <1>1 DEF Work
  <2>3. WorkGood(v)
    <3>1. v.phase = "redeeming" /\ v.since = now /\ v.code = w.code /\ v.op = w.op
      BY DEF Work
    <3> QED
      BY <1>1, <3>1, Constants DEF WorkGood
  <2> HIDE DEF v
  <2> QED
    BY <1>1, <1>2, <2>1, <2>2, <2>3, GoesKeeps DEF Rest, IInv, TypeOK
<1> QED
  BY <1>3, <1>4

LEMMA ResolveKeeps ==
  ASSUME IInv, NEW h \in Handlers, NEW op \in Ops, NEW code \in Logins,
         Resolve(h, op, code), Rest, resolved' = resolved,
         code # NoLogin => code.op = op
  PROVE  IInv'
<1> DEFINE w == [phase |-> "resolving", op |-> op, code |-> code, state |-> jar,
                 decision |-> NoDecision, since |-> now]
<1>1. w \in Work /\ now \in Nat
  BY DEF Work, IInv, TypeOK
<1>2. CASE Cached(op) /\ Proceeds(h, w, resolved[op].decision)
  <2>1. resolved[op] \in Entry
    BY <1>2 DEF Cached, IInv, TypeOK
  <2>2. resolved[op].decision \in Decision /\ resolved[op].expires \in Nat
    BY <2>1 DEF Entry
  <2>3. resolved[op].decision.signed \in Nat /\ resolved[op].decision.exp \in Nat
    BY <2>2 DEF Decision
  <2>4. /\ GoodDecision(resolved[op].decision, op)
        /\ resolved[op].expires <= resolved[op].decision.exp
        /\ resolved[op].expires <= resolved[op].decision.signed + Wait + OpCacheTtl
        /\ resolved[op].expires > now
    BY <1>2 DEF Cached, IInv, CacheInv
  <2>5. now < resolved[op].decision.exp /\ now - resolved[op].decision.signed < OpCacheTtl + Wait
    BY <1>1, <2>2, <2>3, <2>4, Constants
  <2> QED
    BY <1>1, <1>2, <2>2, <2>4, <2>5, ProceedsKeeps, CacheSame DEF Rest
<1>3. CASE ~Cached(op) /\ Goes(h, w) /\ UNCHANGED <<nextId, used>>
  <2>1. WorkGood(w)
    BY <1>1, Constants DEF WorkGood
  <2> HIDE DEF w
  <2> QED
    BY <1>1, <1>3, <2>1, GoesKeeps, CacheSame, UseSame DEF Rest, IInv, TypeOK
<1> QED
  BY <1>2, <1>3 DEF Resolve

LEMMA SignKeeps == ASSUME IInv, NEW h \in Handlers, Sign(h) PROVE IInv'
<1> DEFINE w == handler[h]
<1>1. /\ w \in Work /\ w.phase = "resolving" /\ now \in Nat
      /\ w.op \in Ops /\ w.since \in Nat
  BY DEF Sign, At, Work, IInv, TypeOK
<1>2. PICK life \in Lifetimes :
        Goes(h, [w EXCEPT !.phase = "signed",
                          !.decision = [op |-> w.op, signed |-> now, exp |-> now + life]])
  BY DEF Sign
<1> DEFINE d == [op |-> w.op, signed |-> now, exp |-> now + life]
           v == [w EXCEPT !.phase = "signed", !.decision = d]
<1>3. d \in Decision
  BY <1>1, Constants DEF Decision
<1>4. v \in Work /\ v.since = w.since /\ v.code = w.code /\ v.op = w.op /\ v.decision = d
  BY <1>1, <1>3 DEF Work
<1>5. WorkGood(w)
  BY <1>1 DEF IInv, WorkInv, WorkGood
<1>6. WorkGood(v)
  BY <1>1, <1>3, <1>4, <1>5, Constants DEF WorkGood, GoodDecision
<1>7. Goes(h, v)
  BY <1>2
<1> HIDE DEF v
<1> QED
  BY <1>4, <1>6, <1>7, GoesKeeps, CacheSame, UseSame DEF Sign, Rest, IInv, TypeOK

LEMMA StoreKeeps == ASSUME IInv, NEW h \in Handlers, Store(h) PROVE IInv'
<1> DEFINE w == handler[h]
           d == w.decision
<1>1. /\ w \in Work /\ w.phase = "signed" /\ now \in Nat
      /\ w.op \in Ops /\ w.since \in Nat /\ w.state \in Namespace
  BY DEF Store, At, Work, IInv, TypeOK
<1>2. WorkGood(w)
  BY <1>1 DEF IInv, WorkInv, WorkGood
<1>3. d \in Decision /\ GoodDecision(d, w.op) /\ w.since <= d.signed
  BY <1>1, <1>2 DEF WorkGood, Work
<1>4. d.signed \in Nat /\ d.exp \in Nat
  BY <1>3 DEF Decision
<1>5. now - d.signed <= Wait
  BY <1>1, <1>2, <1>3, <1>4, Constants DEF WorkGood
<1>6. CASE d.exp <= now /\ Fails(h, w.state) /\ UNCHANGED <<resolved, nextId, used>>
  BY <1>1, <1>6, FailsKeeps DEF Store
<1>7. CASE /\ d.exp > now
           /\ resolved' = [resolved EXCEPT ![w.op] = [expires |-> Expires(d), decision |-> d]]
           /\ Proceeds(h, w, d)
  <2>1. /\ Expires(d) \in Nat /\ Expires(d) <= d.exp
        /\ Expires(d) <= d.signed + Wait + OpCacheTtl
    BY <1>1, <1>4, <1>5, <1>7, Constants DEF Expires
  <2>2. [expires |-> Expires(d), decision |-> d] \in Entry
    BY <1>3, <2>1 DEF Entry
  <2>3. resolved' \in [Ops -> Entry \cup {NoEntry}]
    BY <1>1, <1>7, <2>2 DEF IInv, TypeOK
  <2>4. now' = now /\ Rest
    BY DEF Store, Rest
  <2>5. CacheInv'
    <3> SUFFICES ASSUME NEW op \in Ops, resolved'[op] # NoEntry
                 PROVE  /\ GoodDecision(resolved[op].decision, op)'
                        /\ resolved'[op].expires <= resolved'[op].decision.exp
                        /\ resolved'[op].expires <= resolved'[op].decision.signed + Wait + OpCacheTtl
      BY DEF CacheInv
    <3>1. CASE op = w.op
      <4>1. resolved'[op] = [expires |-> Expires(d), decision |-> d]
        BY <1>7, <3>1 DEF IInv, TypeOK
      <4> QED
        BY <1>3, <2>1, <2>4, <3>1, <4>1 DEF GoodDecision
    <3>2. CASE op # w.op
      <4>1. resolved'[op] = resolved[op]
        BY <1>7, <3>2 DEF IInv, TypeOK
      <4> QED
        BY <2>4, <4>1 DEF IInv, CacheInv, GoodDecision
    <3> QED
      BY <3>1, <3>2
  <2>6. w.code # NoLogin => w.code.op = w.op
    BY <1>2 DEF WorkGood
  <2> QED
    BY <1>1, <1>3, <1>5, <1>7, <2>3, <2>4, <2>5, <2>6, ProceedsKeeps
<1> QED
  BY <1>6, <1>7 DEF Store

----------------------------------------------------------------------------
(* The endpoints, the browser and the clock                                *)

LEMMA StartAuthKeeps == ASSUME IInv, NEW h \in Handlers, StartAuth(h) PROVE IInv'
<1>1. CASE fixedOp # NoOp
  <2>1. fixedOp \in Ops
    BY <1>1, FederationAssumption DEF IInv, TypeOK
  <2> QED
    BY <1>1, <2>1, ResolveKeeps, EmptyType DEF StartAuth
<1>2. CASE fixedOp = NoOp
  <2> DEFINE r == [state |-> [jar EXCEPT !.verifier = nextId], verifier |-> nextId, login |-> NoLogin]
  <2>1. jar \in Namespace /\ nextId \in Nat
    BY DEF IInv, TypeOK
  <2>2. [jar EXCEPT !.verifier = nextId] \in Namespace /\ nextId \in Verifiers
    BY <2>1 DEF Namespace, Verifiers
  <2>3. r \in Response
    BY <2>2, ResponseType, EmptyType
  <2>4. Goes(h, r) /\ nextId' = nextId + 1
    BY <1>2 DEF StartAuth, Responds
  <2> HIDE DEF r
  <2> QED
    BY <1>2, <2>1, <2>3, <2>4, GoesKeeps, CacheSame, UseSame DEF StartAuth, Rest, IInv, TypeOK
<1> QED
  BY <1>1, <1>2

LEMMA InitiateKeeps ==
  ASSUME IInv, NEW h \in Handlers, NEW v \in offered, NEW op \in Ops, Initiate(h, v, op)
  PROVE  IInv'
<1>1. jar \in Namespace
  BY DEF IInv, TypeOK
<1> QED
  BY <1>1, FailsKeeps, ResolveKeeps, EmptyType DEF Initiate

LEMMA CallbackKeeps ==
  ASSUME IInv, NEW h \in Handlers, NEW l \in upstream, Callback(h, l)
  PROVE  IInv'
<1>1. jar \in Namespace /\ l \in Login
  BY DEF IInv, TypeOK
<1>2. CASE Fails(h, jar) /\ UNCHANGED <<nextId, used>>
  BY <1>1, <1>2, FailsKeeps DEF Callback
<1>3. CASE Matches(l) /\ Resolve(h, jar.login.op, l)
  <2>1. jar.login = l /\ l.op \in Ops /\ l \in Logins
    BY <1>1, <1>3 DEF Matches, Login, Logins
  <2> QED
    BY <1>3, <2>1, ResolveKeeps DEF Callback
<1> QED
  BY <1>2, <1>3 DEF Callback

LEMMA RedeemedKeeps == ASSUME IInv, NEW h \in Handlers, Redeemed(h) PROVE IInv'
<1>1. handler[h].state \in Namespace
  BY DEF Redeemed, At, Work
<1>2. CASE Fails(h, handler[h].state)
  BY <1>1, <1>2, FailsKeeps DEF Redeemed
<1>3. CASE Responds(h, EmptyNamespace, NoVerifier, NoLogin)
  BY <1>3, EmptyType, FailsKeeps DEF Redeemed, Fails
<1> QED
  BY <1>2, <1>3 DEF Redeemed

LEMMA DeliverKeeps == ASSUME IInv, NEW h \in Handlers, Deliver(h) PROVE IInv'
<1>1. handler[h] \in Response /\ offered \subseteq Nat /\ upstream \subseteq Login
  BY DEF Deliver, IInv, TypeOK
<1>2. /\ handler[h].state \in Namespace
      /\ handler[h].verifier \in Nat \cup {NoVerifier}
      /\ handler[h].login \in Login \cup {NoLogin}
  BY <1>1 DEF Response, Verifiers, Logins
<1>3. jar' \in Namespace /\ offered' \subseteq Nat /\ upstream' \subseteq Login
  BY <1>1, <1>2 DEF Deliver
<1> QED
  BY <1>3, GoesKeeps, CacheSame, UseSame DEF Deliver, IInv, TypeOK

LEMMA TickKeeps == ASSUME IInv, Tick PROVE IInv'
<1>1. now \in Nat /\ now' = now + 1
  BY DEF Tick, IInv, TypeOK
<1>2. TypeOK'
  BY <1>1 DEF Tick, IInv, TypeOK
<1>3. CacheInv'
  <2> SUFFICES ASSUME NEW op \in Ops, resolved[op] # NoEntry
               PROVE  GoodDecision(resolved[op].decision, op)'
    BY DEF Tick, IInv, CacheInv, GoodDecision
  <2>1. resolved[op] \in Entry
    BY DEF IInv, TypeOK
  <2>2. resolved[op].decision.signed \in Nat
    BY <2>1 DEF Entry, Decision
  <2> QED
    BY <1>1, <2>2 DEF Tick, IInv, CacheInv, GoodDecision
<1>4. WorkInv'
  <2> SUFFICES ASSUME NEW h \in Handlers, handler[h] \in Work
               PROVE  WorkGood(handler[h])'
    BY DEF Tick, WorkInv, WorkGood
  <2> DEFINE w == handler[h]
  <2>1. w.since \in Nat /\ WorkGood(w) /\ now - w.since < Wait
    BY DEF Tick, IInv, WorkInv, WorkGood, Work
  <2>2. w.phase = "signed" => w.decision.signed \in Nat
    BY <2>1 DEF WorkGood, Work, Decision
  <2> QED
    BY <1>1, <2>1, <2>2, Constants DEF Tick, WorkGood, GoodDecision
<1>5. UseGood'
  BY UseSame DEF Tick
<1> QED
  BY <1>2, <1>3, <1>4, <1>5 DEF IInv, UseGood

----------------------------------------------------------------------------

LEMMA InitIInv == Init => IInv
<1> SUFFICES ASSUME Init PROVE IInv
  OBVIOUS
<1>1. TypeOK
  BY EmptyType DEF Init, TypeOK
<1>2. CacheInv
  BY DEF Init, CacheInv
<1>3. WorkInv
  BY Constants DEF Init, WorkInv
<1>4. TrustInForce /\ BoundedStaleness /\ CodesReachTheirOp
  BY DEF Init, TrustInForce, BoundedStaleness, CodesReachTheirOp
<1> QED
  BY <1>1, <1>2, <1>3, <1>4 DEF IInv

LEMMA NextIInv == IInv /\ [Next]_vars => IInv'
<1> SUFFICES ASSUME IInv, [Next]_vars PROVE IInv'
  OBVIOUS
<1>1. ASSUME NEW h \in Handlers, EntityConfiguration(h) PROVE IInv'
  BY <1>1, FailsKeeps DEF EntityConfiguration, Fails, IInv, TypeOK
<1>2. ASSUME NEW h \in Handlers, StartAuth(h) PROVE IInv'
  BY <1>2, StartAuthKeeps
<1>3. ASSUME NEW h \in Handlers, NEW v \in offered, NEW op \in Ops, Initiate(h, v, op) PROVE IInv'
  BY <1>3, InitiateKeeps
<1>4. ASSUME NEW h \in Handlers, NEW l \in upstream, Callback(h, l) PROVE IInv'
  BY <1>4, CallbackKeeps
<1>5. ASSUME NEW h \in Handlers, Sign(h) PROVE IInv'
  BY <1>5, SignKeeps
<1>6. ASSUME NEW h \in Handlers, Store(h) PROVE IInv'
  BY <1>6, StoreKeeps
<1>7. ASSUME NEW h \in Handlers, ResolveFails(h) PROVE IInv'
  BY <1>7, FailsKeeps DEF ResolveFails, At, Work
<1>8. ASSUME NEW h \in Handlers, Redeemed(h) PROVE IInv'
  BY <1>8, RedeemedKeeps
<1>9. ASSUME NEW h \in Handlers, Deliver(h) PROVE IInv'
  BY <1>9, DeliverKeeps
<1>10. ASSUME NEW h \in Handlers, Lose(h) PROVE IInv'
  BY <1>10, GoesKeeps, CacheSame, UseSame DEF Lose, Rest, IInv, TypeOK
<1>11. CASE Tick
  BY <1>11, TickKeeps
<1>12. CASE UNCHANGED vars
  BY <1>12 DEF vars, IInv, TypeOK, CacheInv, WorkInv, GoodDecision,
               TrustInForce, BoundedStaleness, CodesReachTheirOp
<1> QED
  BY <1>1, <1>2, <1>3, <1>4, <1>5, <1>6, <1>7, <1>8, <1>9, <1>10, <1>11, <1>12 DEF Next

(* The inductive invariant of resolve_op's cache and the requests on it.   *)
THEOREM Invariance == Spec => []IInv
  BY InitIInv, NextIInv, PTL DEF Spec

(* resolve_op never extends a trust anchor's decision.                     *)
THEOREM NeverExtends == Spec => []TrustInForce
<1>1. IInv => TrustInForce
  BY DEF IInv
<1> QED
  BY <1>1, Invariance, PTL

(* resolve_op's metadata is at most op_cache_ttl and one resolution old.   *)
THEOREM Recent == Spec => []BoundedStaleness
<1>1. IInv => BoundedStaleness
  BY DEF IInv
<1> QED
  BY <1>1, Invariance, PTL

(* handle_callback sends a code only to the OP the login was begun at.     *)
THEOREM CodesStay == Spec => []CodesReachTheirOp
<1>1. IInv => CodesReachTheirOp
  BY DEF IInv
<1> QED
  BY <1>1, Invariance, PTL

----------------------------------------------------------------------------
(* The frontend                                                            *)

LEMMA FrontendConstants ==
  /\ RpCacheTtl \in Nat /\ FailureTtl \in Nat /\ Wait \in Nat /\ Lifetimes \subseteq Nat
  /\ Idle \notin Authorization /\ NoEntry \notin Retained /\ NoDecision \notin Registration
  /\ NoUse \notin Redirected /\ Never \notin Nat
BY ClockAssumption, FrontendAssumption, FrontendNulls

(* The invariant's part about one request.                                 *)
FrontendWorkGood(w) ==
  /\ w.since <= now
  /\ w.phase \in Awaiting => now - w.since <= Wait
  /\ w.phase \in {"signed", "storing"} => w.decision # NoDecision /\ w.decision.client = w.client
  /\ w.phase = "signed" => w.since <= w.decision.signed
  /\ w.phase = "storing" =>
       /\ w.since + w.ttl <= w.decision.exp
       /\ w.since + w.ttl <= w.decision.signed + RpCacheTtl + Wait

FrontendUseGood ==
  /\ used \in Redirected \cup {NoUse}
  /\ RegistrationInForce /\ RegistrationRecent /\ RedirectsRegistered

LEMMA FrontendInvParts ==
  FrontendInv <=> FrontendTypeOK /\ ClientInv /\ FailureInv /\ FrontendUseGood
             /\ \A h \in Handlers : handler[h] # Idle => FrontendWorkGood(handler[h])
BY DEF FrontendInv, FrontendTypeOK, FrontendUseGood, AuthorizationInv, FrontendWorkGood

(* A request under way is well typed and good.                             *)
LEMMA FrontendAtWork ==
  ASSUME FrontendInv, NEW h \in Handlers, handler[h] # Idle
  PROVE  handler[h] \in Authorization /\ FrontendWorkGood(handler[h])
BY DEF FrontendInv, FrontendTypeOK, AuthorizationInv, FrontendWorkGood

(* A request that goes on to good work, or ends, keeps the invariant when  *)
(* the caches it leaves are good.                                          *)
LEMMA FrontendGoesKeeps ==
  ASSUME FrontendInv, NEW h \in Handlers, NEW w, w = Idle \/ (w \in Authorization /\ FrontendWorkGood(w)),
         Goes(h, w), now' = now, used' = used, logins' \subseteq ClientLogin,
         clients' \in [Clients -> Retained \cup {NoEntry}], failures' \in [Clients -> Nat],
         noted' \in [Clients -> Nat \cup {Never}], ClientInv', FailureInv'
  PROVE  FrontendInv'
<1>1. handler' = [handler EXCEPT ![h] = w] /\ handler \in [Handlers -> Authorization \cup {Idle}]
  BY DEF Goes, FrontendInv, FrontendTypeOK
<1>2. FrontendTypeOK'
  BY <1>1 DEF FrontendInv, FrontendTypeOK
<1>3. AuthorizationInv'
  <2> SUFFICES ASSUME NEW g \in Handlers, handler'[g] # Idle
               PROVE  FrontendWorkGood(handler'[g])
    BY DEF AuthorizationInv, FrontendWorkGood
  <2>1. CASE g = h
    BY <1>1, <2>1
  <2>2. CASE g # h
    BY <1>1, <2>2, FrontendAtWork
  <2> QED
    BY <2>1, <2>2
<1>4. RegistrationInForce' /\ RegistrationRecent' /\ RedirectsRegistered'
  BY DEF FrontendInv, RegistrationInForce, RegistrationRecent, RedirectsRegistered
<1> QED
  BY <1>2, <1>3, <1>4 DEF FrontendInv

(* The same when the caches stay as they are.                              *)
LEMMA FrontendGoesAlone ==
  ASSUME FrontendInv, NEW h \in Handlers, NEW w, w = Idle \/ (w \in Authorization /\ FrontendWorkGood(w)),
         Goes(h, w), UNCHANGED <<now, clients, failures, used, noted>>, logins' \subseteq ClientLogin
  PROVE  FrontendInv'
<1>1. ClientInv' /\ FailureInv'
  BY DEF FrontendInv, ClientInv, FailureInv
<1>2. /\ clients' \in [Clients -> Retained \cup {NoEntry}] /\ failures' \in [Clients -> Nat]
      /\ noted' \in [Clients -> Nat \cup {Never}]
  BY DEF FrontendInv, FrontendTypeOK
<1> QED
  BY <1>1, <1>2, FrontendGoesKeeps

----------------------------------------------------------------------------
(* The authorization endpoint                                              *)

LEMMA FrontendAuthorizeKeeps ==
  ASSUME FrontendInv, NEW h \in Handlers, NEW c \in Clients, Authorize(h, c)
  PROVE  FrontendInv'
<1> DEFINE w == [phase |-> IF Known(c) THEN "known" ELSE "missed", client |-> c,
                 decision |-> NoDecision, ttl |-> 0, since |-> 0]
<1>1. w \in Authorization
  BY DEF Authorization, Phases
<1>2. FrontendWorkGood(w)
  BY DEF FrontendWorkGood, Awaiting, FrontendInv, FrontendTypeOK
<1>3. logins' \subseteq ClientLogin
  BY DEF Authorize, History, FrontendInv, FrontendTypeOK
<1> HIDE DEF w
<1>4. Goes(h, w) /\ UNCHANGED <<now, clients, failures, used, noted>>
  BY DEF Authorize, History, w
<1> QED
  BY <1>1, <1>2, <1>3, <1>4, FrontendGoesAlone

LEMMA FrontendConsultKeeps ==
  ASSUME FrontendInv, NEW h \in Handlers, Consult(h)
  PROVE  FrontendInv'
<1> DEFINE w == [handler[h] EXCEPT !.phase = "resolving", !.since = now]
<1>1. handler[h] \in Authorization
  BY FrontendAtWork DEF Consult, Stands
<1>2. w \in Authorization /\ FrontendWorkGood(w)
  <2>1. now \in Nat
    BY DEF FrontendInv, FrontendTypeOK
  <2>2. w \in Authorization
    BY <1>1, <2>1 DEF Authorization, Phases
  <2>3. w.phase = "resolving" /\ w.since = now
    BY <1>1 DEF Authorization
  <2> QED
    BY <2>1, <2>2, <2>3, FrontendConstants DEF FrontendWorkGood
<1>3. logins' \subseteq ClientLogin /\ Goes(h, w) /\ UNCHANGED <<now, clients, failures, used, noted>>
  BY DEF Consult, History, FrontendInv, FrontendTypeOK
<1> QED
  BY <1>2, <1>3, FrontendGoesAlone

LEMMA FrontendSignKeeps ==
  ASSUME FrontendInv, NEW h \in Handlers, SignClient(h)
  PROVE  FrontendInv'
<1>1. handler[h] \in Authorization /\ FrontendWorkGood(handler[h]) /\ handler[h].phase = "resolving"
  BY FrontendAtWork DEF SignClient, Stands
<1>2. PICK v \in Versions, life \in Lifetimes :
        Goes(h, [handler[h] EXCEPT !.phase = "signed",
          !.decision = [client |-> handler[h].client, version |-> v,
                        signed |-> now, exp |-> now + life]])
  BY DEF SignClient
<1> DEFINE d == [client |-> handler[h].client, version |-> v, signed |-> now, exp |-> now + life]
           w == [handler[h] EXCEPT !.phase = "signed", !.decision = d]
<1>3. now \in Nat /\ now + life \in Nat
  BY FrontendConstants DEF FrontendInv, FrontendTypeOK
<1>4. d \in Registration
  BY <1>1, <1>3 DEF Registration, Authorization
<1>5. w \in Authorization
  BY <1>1, <1>4 DEF Authorization, Phases
<1>6. FrontendWorkGood(w)
  <2>1. w.phase = "signed" /\ w.since = handler[h].since /\ w.client = handler[h].client /\ w.decision = d
    BY <1>1 DEF Authorization
  <2>2. d # NoDecision /\ d.client = handler[h].client /\ d.signed = now
    BY <1>4, FrontendConstants
  <2> QED
    BY <1>1, <2>1, <2>2 DEF FrontendWorkGood, Awaiting
<1>7. logins' \subseteq ClientLogin /\ UNCHANGED <<now, clients, failures, used, noted>>
  BY DEF SignClient, History, FrontendInv, FrontendTypeOK
<1> QED
  BY <1>2, <1>5, <1>6, <1>7, FrontendGoesAlone

(* What is left of a decision, and of the configured lifetime.             *)
LEMMA FrontendTtlBound ==
  ASSUME NEW d \in Registration, now \in Nat, d.exp > now
  PROVE  Ttl(d) \in Nat /\ Ttl(d) <= RpCacheTtl /\ now + Ttl(d) <= d.exp
BY FrontendConstants DEF Ttl, Registration

LEMMA FrontendArriveKeeps ==
  ASSUME FrontendInv, NEW h \in Handlers, Arrive(h)
  PROVE  FrontendInv'
<1> DEFINE d == handler[h].decision
           w == [handler[h] EXCEPT !.phase = "storing", !.ttl = Ttl(d), !.since = now]
<1>1. handler[h] \in Authorization /\ FrontendWorkGood(handler[h]) /\ handler[h].phase = "signed" /\ now \in Nat
  BY FrontendAtWork DEF Arrive, Stands, FrontendInv, FrontendTypeOK
<1>2. d \in Registration /\ d.client = handler[h].client
  BY <1>1 DEF Authorization, FrontendWorkGood
<1>3. Ttl(d) \in Nat /\ Ttl(d) <= RpCacheTtl /\ now + Ttl(d) <= d.exp
  BY <1>1, <1>2, FrontendTtlBound DEF Arrive
<1>4. w \in Authorization
  BY <1>1, <1>3 DEF Authorization, Phases
<1>5. FrontendWorkGood(w)
  <2>1. /\ w.phase = "storing" /\ w.since = now /\ w.ttl = Ttl(d)
        /\ w.client = handler[h].client /\ w.decision = d
    BY <1>1 DEF Authorization
  <2>2. now - handler[h].since <= Wait /\ handler[h].since <= d.signed
    BY <1>1 DEF FrontendWorkGood, Awaiting
  <2>3. handler[h].since \in Nat /\ d.signed \in Nat /\ d.exp \in Nat
    BY <1>1, <1>2 DEF Authorization, Registration
  <2>4. now + Ttl(d) <= d.signed + RpCacheTtl + Wait
    BY <1>1, <1>3, <2>2, <2>3, FrontendConstants
  <2> QED
    BY <1>1, <1>2, <1>3, <2>1, <2>4, FrontendConstants DEF FrontendWorkGood, Awaiting
<1>6. logins' \subseteq ClientLogin /\ Goes(h, w) /\ UNCHANGED <<now, clients, failures, used, noted>>
  BY DEF Arrive, History, FrontendInv, FrontendTypeOK
<1> QED
  BY <1>4, <1>5, <1>6, FrontendGoesAlone

LEMMA FrontendPutKeeps ==
  ASSUME FrontendInv, NEW h \in Handlers, Put(h)
  PROVE  FrontendInv'
<1> DEFINE w == handler[h]
           e == [decision |-> w.decision, expires |-> now + w.ttl]
           v == [w EXCEPT !.phase = "known", !.decision = NoDecision, !.ttl = 0, !.since = 0]
<1>1. w \in Authorization /\ FrontendWorkGood(w) /\ w.phase = "storing" /\ now \in Nat
  BY FrontendAtWork DEF Put, Stands, FrontendInv, FrontendTypeOK
<1>2. w.decision \in Registration /\ w.client \in Clients /\ w.ttl \in Nat /\ w.since \in Nat
  BY <1>1 DEF Authorization, FrontendWorkGood
<1>3. e \in Retained
  BY <1>1, <1>2 DEF Retained
<1>4. v \in Authorization /\ FrontendWorkGood(v)
  <2>1. v \in Authorization
    BY <1>1 DEF Authorization, Phases
  <2>2. v.phase = "known" /\ v.since = 0
    BY <1>1 DEF Authorization
  <2> QED
    BY <1>1, <2>1, <2>2 DEF FrontendWorkGood, Awaiting
<1>5. clients' = [clients EXCEPT ![w.client] = e]
  BY DEF Put
<1>6. /\ w.decision.client = w.client
      /\ e.expires <= w.decision.exp + Wait
      /\ e.expires <= w.decision.signed + RpCacheTtl + 2 * Wait
  BY <1>1, <1>2, FrontendConstants DEF FrontendWorkGood, Awaiting, Registration
<1>7. ClientInv'
  BY <1>2, <1>5, <1>6 DEF ClientInv, FrontendInv, FrontendTypeOK
<1>8. /\ clients' \in [Clients -> Retained \cup {NoEntry}] /\ failures' \in [Clients -> Nat]
      /\ noted' \in [Clients -> Nat \cup {Never}] /\ FailureInv' /\ logins' \subseteq ClientLogin
  BY <1>3, <1>5 DEF Put, History, FrontendInv, FrontendTypeOK, FailureInv
<1>9. Goes(h, v) /\ now' = now /\ used' = used
  BY DEF Put, History
<1> QED
  BY <1>4, <1>7, <1>8, <1>9, FrontendGoesKeeps

LEMMA FrontendFailKeeps ==
  ASSUME FrontendInv, NEW h \in Handlers, Fail(h)
  PROVE  FrontendInv'
<1> DEFINE c == handler[h].client
<1>1. c \in Clients /\ now \in Nat /\ now + FailureTtl \in Nat
  BY FrontendAtWork, FrontendConstants DEF Fail, Stands, Authorization, FrontendInv, FrontendTypeOK
<1>2. CASE Notes(c)
  <2>1. failures' = [failures EXCEPT ![c] = now + FailureTtl] /\ noted' = [noted EXCEPT ![c] = now]
    BY <1>2 DEF Fail
  <2>2. failures' \in [Clients -> Nat] /\ noted' \in [Clients -> Nat \cup {Never}]
    BY <1>1, <2>1 DEF FrontendInv, FrontendTypeOK
  <2>3. FailureInv'
    BY <1>1, <2>1, FrontendConstants DEF FailureInv, FrontendInv, FrontendTypeOK
  <2>4. /\ Goes(h, Idle) /\ now' = now /\ used' = used /\ clients' = clients
        /\ logins' \subseteq ClientLogin
    BY DEF Fail, History, FrontendInv, FrontendTypeOK
  <2>5. ClientInv' /\ clients' \in [Clients -> Retained \cup {NoEntry}]
    BY <2>4 DEF ClientInv, FrontendInv, FrontendTypeOK
  <2> QED
    BY <2>2, <2>3, <2>4, <2>5, FrontendGoesKeeps
<1>3. CASE ~Notes(c)
  <2>1. /\ UNCHANGED <<now, clients, failures, used, noted>> /\ Goes(h, Idle)
        /\ logins' \subseteq ClientLogin
    BY <1>3 DEF Fail, History, FrontendInv, FrontendTypeOK
  <2> QED
    BY <2>1, FrontendGoesAlone
<1> QED
  BY <1>2, <1>3

LEMMA FrontendValidateKeeps ==
  ASSUME FrontendInv, NEW h \in Handlers, NEW fits \in SUBSET Versions, Validate(h, fits)
  PROVE  FrontendInv'
<1> DEFINE c == handler[h].client
           l == [client |-> c, fits |-> fits, bound |-> clients[c].decision.version]
<1>1. c \in Clients
  BY FrontendAtWork DEF Validate, Stands, Authorization
<1>2. clients[c] \in Retained
  BY <1>1 DEF Validate, Known, FrontendInv, FrontendTypeOK
<1>3. l \in ClientLogin
  BY <1>1, <1>2 DEF ClientLogin, Retained, Registration
<1>4. logins' \subseteq ClientLogin
  BY <1>3 DEF Validate, FrontendInv, FrontendTypeOK
<1>5. Goes(h, Idle) /\ UNCHANGED <<now, clients, failures, used, noted>>
  BY DEF Validate
<1> QED
  BY <1>4, <1>5, FrontendGoesAlone

(* Those that end without a trace.                                         *)
LEMMA FrontendEndsKeeps ==
  ASSUME FrontendInv, NEW h \in Handlers, Refuse(h) \/ Reject(h)
  PROVE  FrontendInv'
<1>1. /\ Goes(h, Idle) /\ UNCHANGED <<now, clients, failures, used, noted>>
      /\ logins' \subseteq ClientLogin
  BY DEF Refuse, Reject, History, FrontendInv, FrontendTypeOK
<1> QED
  BY <1>1, FrontendGoesAlone

----------------------------------------------------------------------------
(* The answer to a login                                                   *)

LEMMA FrontendRedirectKeeps ==
  ASSUME FrontendInv, NEW l \in logins, NEW code \in BOOLEAN,
         Valid(l), code => SameClient(l), Redirect(l, code)
  PROVE  FrontendInv'
<1> DEFINE e == clients[l.client]
<1>1. l \in ClientLogin /\ l.client \in Clients /\ now \in Nat
  BY DEF FrontendInv, FrontendTypeOK, ClientLogin
<1>2. e \in Retained /\ e.expires > now
  BY <1>1 DEF Valid, Known, FrontendInv, FrontendTypeOK
<1>3. /\ e.decision.client = l.client
      /\ e.expires <= e.decision.exp + Wait
      /\ e.expires <= e.decision.signed + RpCacheTtl + 2 * Wait
  BY <1>1, <1>2, FrontendConstants DEF FrontendInv, ClientInv
<1>4. used' = [decision |-> e.decision, login |-> l, code |-> code, time |-> now]
  BY DEF Redirect
<1>5. e.decision \in Registration /\ e.expires \in Nat
  BY <1>2 DEF Retained
<1>6. used' \in Redirected /\ used' # NoUse
  BY <1>1, <1>4, <1>5, FrontendConstants DEF Redirected
<1>7. RegistrationInForce' /\ RegistrationRecent'
  <2>1. /\ now < e.decision.exp + Wait
        /\ now - e.decision.signed < RpCacheTtl + 2 * Wait
    BY <1>1, <1>2, <1>3, <1>5, FrontendConstants DEF Registration
  <2> QED
    BY <1>4, <2>1 DEF RegistrationInForce, RegistrationRecent
<1>8. RedirectsRegistered'
  BY <1>3, <1>4 DEF RedirectsRegistered, Valid, SameClient
<1>9. UNCHANGED <<now, clients, failures, handler, logins, noted>>
  BY DEF Redirect
<1> QED
  BY <1>6, <1>7, <1>8, <1>9 DEF FrontendInv, FrontendTypeOK, ClientInv, AuthorizationInv, FailureInv

LEMMA FrontendTickKeeps ==
  ASSUME FrontendInv, FrontendTick
  PROVE  FrontendInv'
<1>1. now \in Nat /\ now' = now + 1
  BY DEF FrontendTick, FrontendInv, FrontendTypeOK
<1>2. UNCHANGED <<clients, failures, handler, noted, logins, used>>
  BY DEF FrontendTick, History
<1>3. AuthorizationInv'
  <2> SUFFICES ASSUME NEW h \in Handlers, handler[h] # Idle
               PROVE  FrontendWorkGood(handler[h])'
    BY <1>2 DEF AuthorizationInv, FrontendWorkGood
  <2>1. handler[h] \in Authorization /\ FrontendWorkGood(handler[h])
    BY FrontendAtWork
  <2>2. handler[h].phase \in Awaiting => now - handler[h].since < Wait
    BY DEF FrontendTick
  <2>3. handler[h].since \in Nat
    BY <2>1 DEF Authorization
  <2> QED
    BY <1>1, <1>2, <2>1, <2>2, <2>3, FrontendConstants DEF FrontendWorkGood
<1>4. FrontendTypeOK' /\ ClientInv' /\ FailureInv'
  BY <1>1, <1>2 DEF FrontendInv, FrontendTypeOK, ClientInv, FailureInv
<1>5. RegistrationInForce' /\ RegistrationRecent' /\ RedirectsRegistered'
  BY <1>2 DEF FrontendInv, RegistrationInForce, RegistrationRecent, RedirectsRegistered
<1> QED
  BY <1>3, <1>4, <1>5 DEF FrontendInv

----------------------------------------------------------------------------
(* The theorems                                                            *)

LEMMA FrontendInitInv ==
  ASSUME FrontendInit
  PROVE  FrontendInv
BY FrontendConstants DEF FrontendInit, FrontendInv, FrontendTypeOK, ClientInv, AuthorizationInv, FailureInv, RegistrationInForce,
   RegistrationRecent, RedirectsRegistered

LEMMA FrontendStepInv ==
  ASSUME FrontendInv, [FrontendNext]_(frontendVars)
  PROVE  FrontendInv'
<1>1. CASE \E h \in Handlers : Registers(h) \/ \E c \in Clients : Authorize(h, c)
  BY <1>1, FrontendAuthorizeKeeps, FrontendEndsKeeps, FrontendConsultKeeps, FrontendSignKeeps, FrontendArriveKeeps, FrontendPutKeeps,
     FrontendFailKeeps, FrontendValidateKeeps DEF Registers
<1>2. CASE \E l \in logins : Issue(l) \/ RedirectError(l)
  <2>1. PICK l \in logins : Issue(l) \/ RedirectError(l)
    BY <1>2
  <2>2. CASE Issue(l)
    BY <2>1, <2>2, FrontendRedirectKeeps DEF Issue
  <2>3. CASE RedirectError(l)
    BY <2>1, <2>3, FrontendRedirectKeeps DEF RedirectError, Redirects
  <2> QED
    BY <2>1, <2>2, <2>3
<1>3. CASE FrontendTick
  BY <1>3, FrontendTickKeeps
<1>4. CASE UNCHANGED frontendVars
  BY <1>4 DEF frontendVars, FrontendInv, FrontendTypeOK, ClientInv, AuthorizationInv, FailureInv, RegistrationInForce,
     RegistrationRecent, RedirectsRegistered
<1> QED
  BY <1>1, <1>2, <1>3, <1>4 DEF FrontendNext

(* The inductive invariant holds in every behaviour of the frontend.       *)
THEOREM FrontendInvariance == FrontendSpec => []FrontendInv
<1>1. FrontendInit => FrontendInv
  BY FrontendInitInv
<1>2. FrontendInv /\ [FrontendNext]_(frontendVars) => FrontendInv'
  BY FrontendStepInv
<1> QED
  BY <1>1, <1>2, PTL DEF FrontendSpec

(* No client is redirected to beyond its trust anchor's decision.          *)
THEOREM FrontendNeverExtends == FrontendSpec => []RegistrationInForce
<1>1. FrontendInv => RegistrationInForce
  BY DEF FrontendInv
<1> QED
  BY <1>1, FrontendInvariance, PTL

(* No registration is used long after it was signed.                       *)
THEOREM FrontendRecent == FrontendSpec => []RegistrationRecent
<1>1. FrontendInv => RegistrationRecent
  BY DEF FrontendInv
<1> QED
  BY <1>1, FrontendInvariance, PTL

(* Codes and errors reach only the registrations they are meant for.       *)
THEOREM RedirectsStay == FrontendSpec => []RedirectsRegistered
<1>1. FrontendInv => RedirectsRegistered
  BY DEF FrontendInv
<1> QED
  BY <1>1, FrontendInvariance, PTL

(* No resolution begins within the window of a failure.                    *)
THEOREM FailuresKept == FrontendSpec => NoRetryInWindow
<1>1. FrontendInv /\ [FrontendNext]_(frontendVars) =>
        [\A h \in Handlers :
           LET c == handler[h].client
           IN Consult(h) /\ noted[c] # Never => now - noted[c] >= FailureTtl]_(frontendVars)
  <2> SUFFICES ASSUME FrontendInv, NEW h \in Handlers, Consult(h), noted[handler[h].client] # Never
               PROVE  now - noted[handler[h].client] >= FailureTtl
    OBVIOUS
  <2> DEFINE c == handler[h].client
  <2>1. c \in Clients
    BY FrontendAtWork DEF Consult, Stands, Authorization
  <2>2. failures[c] = noted[c] + FailureTtl /\ failures[c] <= now
    BY <2>1 DEF FrontendInv, FailureInv, Consult, MayConsult
  <2>3. noted[c] \in Nat /\ now \in Nat
    BY <2>1 DEF FrontendInv, FrontendTypeOK
  <2> QED
    BY <2>2, <2>3, FrontendConstants
<1> QED
  BY <1>1, FrontendInvariance, PTL DEF FrontendSpec, NoRetryInWindow
=============================================================================
