----------------------------- MODULE ProxyFlow -----------------------------
(***************************************************************************)
(* The login flow of the proxy, as one browser drives it.                  *)
(*                                                                         *)
(* The proxy keeps no session store: everything it remembers about a login *)
(* is in one sealed cookie.  Each request is handled by Proxy::run:        *)
(* unseal the cookie, dispatch to one module endpoint, render an error if  *)
(* that failed, seal the state the handler left into Set-Cookie.  A        *)
(* handler shares no flow state with any other, so a request is one atomic *)
(* action here; what interleaves is the browser.  It may open several      *)
(* logins, answers reach its cookie jar in any order or never, it may      *)
(* repeat a callback, and the clock runs while it does.                    *)
(*                                                                         *)
(* The micro-services are the positions 1..N of the configured chain.      *)
(* Three have behaviour of their own: the one that suspends the request    *)
(* path at a discovery page (disco_to_target_issuer), the one that picks a *)
(* backend (custom_routing) and the one that suspends the response path    *)
(* for a second login (stepup).  Any other may only pass or fail.          *)
(***************************************************************************)
EXTENDS Integers, Sequences, FiniteSets

CONSTANTS
  Flows,            \* downstream login requests, each sent once
  Frontends, Backends, Requesters, Issuers,
  FrontendOf,       \* the frontend a request arrives at
  RequesterOf,      \* the RP or SP that sent it
  Pin,              \* per frontend: the configured backend, or NoBackend
  Default,          \* the first configured backend
  N,                \* length of the micro-service chain
  DiscoAt, RouteAt, StepUpAt,  \* positions of the three services, 0 when absent
  Route,            \* custom_routing: requester, issuer -> backend name or NoBackend
  Allowed,          \* disco: the (requester, issuer) pairs of allowed_issuers
  Discovering,      \* backends that send the browser to discovery first
  MfaFlows,         \* requests for which step-up may be needed
  Refused,          \* (backend, request) pairs start_auth rejects: ForceAuthn/IsPassive
  FailingServices,  \* chain positions that may return an error
  FailingBackends,  \* backends whose network lookups and validation may fail
  SealMayFail,      \* whether the sealed state may exceed the cookie limit
  TTL,              \* state_cookie_max_age
  MaxNow, MaxLogins, MaxWire,  \* bounds: clock, upstream logins, answers in flight
  NoFlow, NoFrontend, NoBackend, NoRequester, NoIssuer,
  NoCookie, NoLogin, NoRequest, NoSnapshot, NoSuspension, StepUp

Services == 1 .. N

ASSUME ChainAssumption ==
  /\ N \in Nat
  /\ {DiscoAt, RouteAt, StepUpAt} \subseteq 0 .. N
  /\ FailingServices \subseteq Services
ASSUME ModuleAssumption ==
  /\ FrontendOf \in [Flows -> Frontends]
  /\ RequesterOf \in [Flows -> Requesters]
  /\ Discovering \subseteq Backends
  /\ FailingBackends \subseteq Backends
ASSUME BoundAssumption ==
  /\ TTL \in Nat \ {0}
  /\ {MaxNow, MaxLogins, MaxWire} \subseteq Nat
  /\ SealMayFail \in BOOLEAN
VARIABLES
  now,       \* the clock, in the unit of the cookie's iat
  jar,       \* the browser's state cookie
  wire,      \* answers on their way to the browser
  started,   \* history: the downstream requests sent so far, and when
  upstream,  \* the upstream logins the browser was redirected to
  spent,     \* upstream logins whose code or assertion was redeemed
  nextId,    \* names the next upstream login (its random state, nonce or ID)
  answers    \* history: the responses rendered to requesters, in order

vars == <<now, jar, wire, started, upstream, spent, nextId, answers>>

----------------------------------------------------------------------------
(* Data.  `runs` counts, per chain position, how often the service ran on  *)
(* a request or response: history, carried wherever the code carries the   *)
(* InternalData it belongs to.                                             *)

Runs == [Services -> Nat]
NoRuns == [i \in Services |-> 0]
Request == [flow: Flows, runs: Runs]

(* An upstream login: at a backend, or at the step-up provider; `request`  *)
(* is the request whose constraints it carries, `time` when it was sent.   *)
Login == [id: Nat, at: Backends \cup {StepUp},
          request: Request \cup {NoRequest}, time: Nat]

(* What a backend's namespace keeps: the constraints start_auth stored and *)
(* the login it expects an answer to.                                      *)
Slot == [asks: Request \cup {NoRequest}, sent: Login \cup {NoLogin}]
NoSlot == [asks |-> NoRequest, sent |-> NoLogin]

Started == [flow: Flows, time: Nat]
Snapshot == [front: Frontends, request: Request]
Suspension == [front: Frontends, login: Login,
               requester: Requesters \cup {NoRequester}, runs: Runs]

(* The state map, one field per namespace key the flow depends on.         *)
Data == [front: Frontends \cup {NoFrontend},
         requester: Requesters \cup {NoRequester},
         pending: [Frontends -> Flows \cup {NoFlow}],
         slot: [Backends -> Slot],
         snapshot: Snapshot \cup {NoSnapshot},
         policy: Flows \cup {NoFlow},
         suspended: Suspension \cup {NoSuspension},
         stepup: Login \cup {NoLogin}]
EmptyData == [front |-> NoFrontend, requester |-> NoRequester,
              pending |-> [fe \in Frontends |-> NoFlow],
              slot |-> [b \in Backends |-> NoSlot],
              snapshot |-> NoSnapshot, policy |-> NoFlow,
              suspended |-> NoSuspension, stepup |-> NoLogin]

Envelope == [iat: Nat, data: Data]
Kinds == {"page", "error", "discovery", "login", "answer"}
Body == [kind: Kinds, login: Login \cup {NoLogin}]
Message == [cookie: Envelope \cup {NoCookie}, body: Body]
Answer == [flow: Flows, requester: Requesters \cup {NoRequester},
           login: Login, runs: Runs, time: Nat]

ASSUME NullAssumption ==
  /\ NoFlow \notin Flows
  /\ NoFrontend \notin Frontends
  /\ NoBackend \notin Backends
  /\ NoRequester \notin Requesters
  /\ NoIssuer \notin Issuers
  /\ NoLogin \notin Login
  /\ NoSnapshot \notin Snapshot
  /\ NoSuspension \notin Suspension
  /\ NoCookie \notin Envelope
  /\ StepUp \notin Backends

Plain(kind) == [kind |-> kind, login |-> NoLogin]
Redirect(l) == [kind |-> "login", login |-> l]

TypeOK ==
  /\ now \in Nat
  /\ jar \in Envelope \cup {NoCookie}
  /\ wire \subseteq Message
  /\ started \subseteq Started
  /\ upstream \subseteq Login
  /\ spent \subseteq Login
  /\ nextId \in Nat
  /\ answers \in Seq(Answer)

----------------------------------------------------------------------------
(* Proxy::run around every handler: unseal, and seal into the answer.      *)

(* A missing or expired cookie is a fresh, empty state; a state without an *)
(* issue time gets the time of the seal, which is the same instant.        *)
(* Before it a mutant that never asks for the age.                         *)
UnsealedAtAnyAge == IF jar # NoCookie THEN jar ELSE [iat |-> now, data |-> EmptyData]
Unsealed ==
  IF jar # NoCookie /\ now - jar.iat < TTL
  THEN jar ELSE [iat |-> now, data |-> EmptyData]

(* Mutant: the answer goes out although its state could not be sealed.     *)
SendUnsealed(st, body) ==
  /\ Cardinality(wire) < MaxWire
  /\ \/ wire' = wire \cup {[cookie |-> st, body |-> body]}
     \/ /\ SealMayFail
        /\ wire' = wire \cup {[cookie |-> NoCookie, body |-> body]}

(* The answer and the state it is sealed with.  A state that cannot be     *)
(* sealed turns the answer into an error that clears the cookie.           *)
Send(st, body) ==
  /\ Cardinality(wire) < MaxWire
  /\ \/ wire' = wire \cup {[cookie |-> st, body |-> body]}
     \/ /\ SealMayFail
        /\ wire' = wire \cup {[cookie |-> NoCookie, body |-> Plain("error")]}

SendAndClear(body) ==
  /\ Cardinality(wire) < MaxWire
  /\ wire' = wire \cup {[cookie |-> NoCookie, body |-> body]}

(* render_error leaves the state as the failing step left it.              *)
Fail(st) == Send(st, Plain("error")) /\ UNCHANGED <<nextId, answers>>

----------------------------------------------------------------------------
(* The two micro-service chains                                            *)

(* Where a chain entered at `from` may stop: a failing service, or N + 1.  *)
Stops(from) == {s \in FailingServices : s >= from} \cup {N + 1}
Ran(k, from, stop) == from <= k /\ k < stop

After(runs, from, stop) ==
  [i \in Services |-> runs[i] + (IF Ran(i, from, stop) THEN 1 ELSE 0)]

(* The chain position a suspended flow resumes at, after mutants that run  *)
(* the suspending service again and that skip its successor.               *)
ResumeAtService(k) == k
ResumeSkippingOne(k) == k + 2
ResumeAfter(k) == k + 1

(* What process_request of the services from..stop-1 leaves in the state:  *)
(* the discovery snapshot and the saved step-up policy.                    *)
RequestState(st, front, req, from, stop) ==
  LET snap == [front |-> front,
               request |-> [req EXCEPT !.runs = After(@, from, DiscoAt + 1)]]
  IN [st EXCEPT !.data.snapshot = IF Ran(DiscoAt, from, stop) THEN snap ELSE @,
                !.data.policy = IF Ran(StepUpAt, from, stop) THEN req.flow ELSE @]

(* The backend custom_routing writes into the context, if it ran.          *)
Routed(req, from, stop, issuer) ==
  IF Ran(RouteAt, from, stop) THEN Route[RequesterOf[req.flow], issuer] ELSE NoBackend

(* Mutant: the service's choice wins over the frontend's pin.              *)
SelectedByService(req, from, stop, pin, issuer) ==
  LET routed == Routed(req, from, stop, issuer)
  IN IF routed # NoBackend THEN routed ELSE IF pin # NoBackend THEN pin ELSE Default
(* Frontend pin, then the backend a service chose, then the default.       *)
Selected(req, from, stop, pin, issuer) ==
  LET routed == Routed(req, from, stop, issuer)
  IN IF pin # NoBackend THEN pin ELSE IF routed # NoBackend THEN routed ELSE Default

NewLogin(at, req) == [id |-> nextId, at |-> at, request |-> req, time |-> now]

(* Redirect to an upstream login whose identity the state remembers.       *)
Redirected(st, l) ==
  /\ nextId < MaxLogins
  /\ nextId' = nextId + 1
  /\ Send(st, Redirect(l))
  /\ UNCHANGED answers

(* Whether the backend refuses the request's ForceAuthn or IsPassive; one  *)
(* with a discovery page refuses only a passive request it would send there.*)
Rejects(b, flow, issuer) ==
  <<b, flow>> \in Refused /\ (b \in Discovering => issuer = NoIssuer)

(* Backend::start_auth.  A SAML backend stores the request's constraints   *)
(* before anything can fail; without a chosen IdP it redirects to the      *)
(* discovery service and keeps the login it was waiting for.               *)
StartAuth(st, b, req, issuer) ==
  LET asked == [st EXCEPT !.data.slot[b].asks = req]
      l == NewLogin(b, req)
  IN \/ /\ Rejects(b, req.flow, issuer) \/ b \in FailingBackends
        /\ Fail(IF b \in Discovering THEN asked ELSE st)
     \/ /\ ~Rejects(b, req.flow, issuer)
        /\ b \in Discovering /\ issuer = NoIssuer
        /\ Send(asked, Plain("discovery"))
        /\ UNCHANGED <<nextId, answers>>
     \/ /\ ~Rejects(b, req.flow, issuer)
        /\ b \notin Discovering \/ issuer # NoIssuer
        /\ Redirected([asked EXCEPT !.data.slot[b].sent = l], l)

(* Proxy::finish_request from chain position `from`.                       *)
FinishRequest(st, front, req, from, pin, issuer) ==
  \E stop \in Stops(from) :
    LET left == RequestState(st, front, req, from, stop)
        done == [req EXCEPT !.runs = After(@, from, stop)]
        b == Selected(req, from, stop, pin, issuer)
    IN \/ (stop <= N \/ b \notin Backends) /\ Fail(left)
       \/ stop = N + 1 /\ b \in Backends /\ StartAuth(left, b, done, issuer)

(* The frontend answers the request its namespace holds, and the session   *)
(* ends.  Without a pending request it fails, as it may for a requester it *)
(* no longer knows; it may also end the session by answering with a        *)
(* protocol error.                                                         *)
Render(st, front, login, requester, runs) ==
  LET flow == st.data.pending[front]
  IN \/ Fail(st)
     \/ /\ flow # NoFlow
        /\ answers' = Append(answers, [flow |-> flow, requester |-> requester,
                                       login |-> login, runs |-> runs, time |-> now])
        /\ SendAndClear(Plain("answer"))
        /\ UNCHANGED nextId
     \/ flow # NoFlow /\ SendAndClear(Plain("error")) /\ UNCHANGED <<nextId, answers>>

Forgotten(st) == [st EXCEPT !.data.policy = NoFlow, !.data.suspended = NoSuspension]

(* stepup may ask for a second login: when the saved policy wants MFA, or  *)
(* when none was saved and it is derived anew.                             *)
StepUpMayAsk(st) == st.data.policy = NoFlow \/ st.data.policy \in MfaFlows

(* Proxy::finish_response from chain position `from`: a service fails, the *)
(* step-up service suspends, or the frontend renders.                      *)
FinishResponse(st, front, login, requester, runs, from) ==
  \/ \E stop \in Stops(from) \ {N + 1} :
       \/ ~Ran(StepUpAt, from, stop) /\ Fail(st)
       \/ Ran(StepUpAt, from, stop + 1) /\ Fail(Forgotten(st))
  \/ /\ Ran(StepUpAt, from, N + 1)
     /\ StepUpMayAsk(st)
     /\ LET l == NewLogin(StepUp, NoRequest)
            susp == [front |-> front, login |-> login, requester |-> requester,
                     runs |-> After(runs, from, StepUpAt + 1)]
            suspended == [st EXCEPT !.data.suspended = susp]
        IN \/ StepUpAt \in FailingServices /\ Fail(suspended)
           \/ Redirected([suspended EXCEPT !.data.stepup = l], l)
  \/ LET left == IF Ran(StepUpAt, from, N + 1) THEN Forgotten(st) ELSE st
     IN Render(left, front, login, requester, After(runs, from, N + 1))

----------------------------------------------------------------------------
(* Requests of the browser                                                 *)

(* Mutant: the requester of an earlier login stays.                        *)
RecordedWithoutRequester(st, f, front) ==
  [st EXCEPT !.data.pending[front] = f, !.data.front = front]

(* An authorization endpoint or SSO endpoint: the frontend stores the      *)
(* request in its namespace, the proxy records frontend and requester.     *)
Recorded(st, f, front) ==
  [st EXCEPT !.data.pending[front] = f, !.data.front = front,
             !.data.requester = RequesterOf[f]]

Authorize(f) ==
  LET front == FrontendOf[f]
  IN /\ \A r \in started : r.flow # f
     /\ started' = started \cup {[flow |-> f, time |-> now]}
     /\ FinishRequest(Recorded(Unsealed, f, front), front,
                      [flow |-> f, runs |-> NoRuns], 1, Pin[front], NoIssuer)
     /\ UNCHANGED <<now, jar, upstream, spent>>

(* Any endpoint that only responds (metadata, JWKS, an unknown path): the  *)
(* state is resealed unchanged.                                            *)
Page ==
  /\ Send(Unsealed, Plain("page"))
  /\ UNCHANGED <<now, jar, started, upstream, spent, nextId, answers>>

(* Whether a callback is of the login the state waits for, and redeeming   *)
(* it once: the provider's single-use code, or the replay cache of SAML    *)
(* assertions.  Each after a mutant that omits the check.                  *)
MatchesAnything(expected, l) == expected # NoLogin
Matches(expected, l) == expected = l
RedeemWithoutRecord(l) == spent' = spent
Redeem(l) == spent' = spent \cup {l}

(* Proxy::dispatch_backend: frontend and requester come from the state.    *)
AuthResponse(st, l) ==
  LET front == st.data.front
  IN \/ front = NoFrontend /\ Fail(st)
     \/ /\ front # NoFrontend
        /\ FinishResponse(st, front, l, st.data.requester, NoRuns, 1)

(* A backend's callback or ACS.  An upstream error, a state mismatch or a  *)
(* redeemed code fails and keeps the state; so does a failure after the    *)
(* code was redeemed.  Success clears the backend's namespace.             *)
Callback(l) ==
  LET st == Unsealed
      b == l.at
      cleared == [st EXCEPT !.data.slot[b] = NoSlot]
  IN /\ l \in upstream /\ b \in Backends
     /\ \/ Fail(st) /\ UNCHANGED spent
        \/ /\ Matches(st.data.slot[b].sent, l) /\ l \notin spent
           /\ Redeem(l)
           /\ (b \in FailingBackends /\ Fail(st)) \/ AuthResponse(cleared, l)
     /\ UNCHANGED <<now, jar, started, upstream>>

(* The discovery return of disco_to_target_issuer: it consumes the         *)
(* snapshot and resumes the request chain behind itself, without a pin.    *)
DiscoReturn(issuer) ==
  LET st == Unsealed
      snap == st.data.snapshot
      resumed == [st EXCEPT !.data.snapshot = NoSnapshot, !.data.front = snap.front,
                            !.data.requester = RequesterOf[snap.request.flow]]
  IN /\ DiscoAt > 0
     /\ \/ snap = NoSnapshot /\ Fail(st)
        \/ /\ snap # NoSnapshot
           /\ <<RequesterOf[snap.request.flow], issuer>> \notin Allowed
           /\ Fail(st)
        \/ /\ snap # NoSnapshot
           /\ <<RequesterOf[snap.request.flow], issuer>> \in Allowed
           /\ FinishRequest(resumed, snap.front, snap.request, ResumeAfter(DiscoAt),
                            NoBackend, issuer)
     /\ UNCHANGED <<now, jar, started, upstream, spent>>

(* A backend's own discovery return, which the micro-service shadows when  *)
(* it is configured: it sends the stored constraints to the chosen IdP.    *)
BackendDisco(b) ==
  LET st == Unsealed
      l == NewLogin(b, st.data.slot[b].asks)
  IN /\ b \in Discovering /\ DiscoAt = 0
     /\ \/ b \in FailingBackends /\ Fail(st)
        \/ Redirected([st EXCEPT !.data.slot[b].sent = l], l)
     /\ UNCHANGED <<now, jar, started, upstream, spent>>

(* The step-up ACS.  A response validated but unusable keeps the state; a  *)
(* usable one consumes the suspension even when the subject or LoA checks  *)
(* then fail, and otherwise the response chain resumes behind the step-up  *)
(* service at the suspended frontend.                                      *)
StepUpAcs(l) ==
  LET st == Unsealed
      susp == st.data.suspended
      resumed == [Forgotten(st) EXCEPT !.data.stepup = NoLogin]
  IN /\ l \in upstream /\ l.at = StepUp
     /\ \/ Fail(st) /\ UNCHANGED spent
        \/ /\ susp # NoSuspension
           /\ Matches(st.data.stepup, l) /\ l \notin spent
           /\ Redeem(l)
           /\ \/ StepUpAt \in FailingServices /\ Fail(st)
              \/ Fail(resumed)
              \/ FinishResponse(resumed, susp.front, susp.login, susp.requester,
                                susp.runs, ResumeAfter(StepUpAt))
     /\ UNCHANGED <<now, jar, started, upstream>>

(* An answer reaches the browser: its cookie replaces the jar's, whichever *)
(* request it belongs to, and a redirect to an upstream login is followed. *)
Deliver(m) ==
  /\ wire' = wire \ {m}
  /\ jar' = m.cookie
  /\ upstream' = IF m.body.kind = "login" THEN upstream \cup {m.body.login} ELSE upstream
  /\ UNCHANGED <<now, started, spent, nextId, answers>>

(* A closed tab or a broken connection: the answer reaches nobody.         *)
Lose(m) ==
  /\ wire' = wire \ {m}
  /\ UNCHANGED <<now, jar, started, upstream, spent, nextId, answers>>

Tick ==
  /\ now < MaxNow
  /\ now' = now + 1
  /\ UNCHANGED <<jar, wire, started, upstream, spent, nextId, answers>>

Init ==
  /\ now = 0 /\ jar = NoCookie /\ wire = {}
  /\ started = {} /\ upstream = {} /\ spent = {}
  /\ nextId = 0 /\ answers = <<>>

Next ==
  \/ \E f \in Flows : Authorize(f)
  \/ Page
  \/ \E l \in upstream : Callback(l)
  \/ \E issuer \in Issuers : DiscoReturn(issuer)
  \/ \E b \in Backends : BackendDisco(b)
  \/ \E l \in upstream : StepUpAcs(l)
  \/ \E m \in wire : Deliver(m)
  \/ \E m \in wire : Lose(m)
  \/ Tick

Spec == Init /\ [][Next]_vars

----------------------------------------------------------------------------
(* Properties                                                              *)

(* Suspending the request path at a discovery page and resuming it never   *)
(* skips a service and never runs one twice: every request that reached a  *)
(* backend ran through the whole chain exactly once.                       *)
RequestChainComplete ==
  \A l \in upstream : l.request # NoRequest =>
    \A i \in Services : l.request.runs[i] = 1

(* The same for the response path and the step-up suspension: what reaches *)
(* the requester ran through every response micro-service exactly once.    *)
ResponseChainComplete ==
  \A i \in DOMAIN answers : \A k \in Services : answers[i].runs[k] = 1

(* Resealing keeps the first issue time, so the cookie's lifetime bounds   *)
(* the whole flow: no answer completes a downstream request, or uses an    *)
(* upstream login, that is TTL old or older, whatever was resealed since.  *)
LifetimeBound ==
  \A i \in DOMAIN answers :
    /\ answers[i].time - answers[i].login.time < TTL
    /\ \A r \in started : r.flow = answers[i].flow => answers[i].time - r.time < TTL

(* What the browser carries of the state the return of redirect m needs.   *)
Carried(m) ==
  /\ m.body.kind \in {"login", "discovery"} => m.cookie # NoCookie
  /\ m.body.kind = "login" =>
       IF m.body.login.at = StepUp
       THEN m.cookie.data.stepup = m.body.login /\ m.cookie.data.suspended # NoSuspension
       ELSE m.cookie.data.slot[m.body.login.at].sent = m.body.login
  /\ m.body.kind = "discovery" /\ DiscoAt > 0 => m.cookie.data.snapshot # NoSnapshot

(* A redirect never goes out without the state its return needs: the login *)
(* the callback is matched against, the step-up suspension with it, the    *)
(* snapshot the discovery return resumes.  A state that cannot be sealed   *)
(* fails the request instead.                                              *)
RedirectCarriesState == \A m \in wire : Carried(m)

(* One upstream authentication answers at most one downstream request,     *)
(* however the browser repeats callbacks, loses answers or receives them   *)
(* out of order, and although no server-side session exists.               *)
OneAnswerPerLogin ==
  \A i, j \in DOMAIN answers : answers[i].login = answers[j].login => i = j

(* Two logins in one browser share one cookie.  The answer a frontend      *)
(* renders is computed for the requester that gets it, provided nothing    *)
(* suspended the flow on its way.                                          *)
RequesterCoherent ==
  \A i \in DOMAIN answers : answers[i].requester = RequesterOf[answers[i].flow]

(* A request that was itself sent to a backend is never answered from the  *)
(* login of another request there: the newer login replaces the older, and *)
(* a callback of the older is refused.  A backend that goes through its    *)
(* own discovery page is excepted: start_auth keeps the login it waited    *)
(* for until the discovery return replaces it.                             *)
AnswerMatchesLogin ==
  \A i \in DOMAIN answers :
    LET a == answers[i]
        own == {l \in upstream : l.at = a.login.at /\ l.request # NoRequest
                                 /\ l.request.flow = a.flow}
    IN a.login.at \notin Discovering /\ own # {} => a.login \in own

(* Where every frontend has the same configured backend, it is the one     *)
(* whose login for a request answers, whatever a routing service chose and *)
(* another tab began.  Excepted are a request that a discovery page        *)
(* suspended, which resumes without the pin, and a login that a discovery  *)
(* return began at another backend on no request's behalf.                 *)
PinHonoured ==
  \A i \in DOMAIN answers :
    LET pin == Pin[FrontendOf[answers[i].flow]]
    IN pin # NoBackend /\ answers[i].login.request # NoRequest => answers[i].login.at = pin

(* Cookies, tabs, suspensions and lost messages aside, the proxy is one    *)
(* service with the state of all logins: it answers a request that was     *)
(* sent, from a login the browser followed, once, both younger than TTL,   *)
(* and no request or response misses a service of the chain.               *)
Service == INSTANCE LoginService
           WITH Asking <- Requesters \cup {NoRequester},
                requests <- started, logins <- upstream
ServiceKept == Service!Spec

----------------------------------------------------------------------------
(* The inductive invariant behind the chain and lifetime properties        *)

RanUpTo(k) == [i \in Services |-> IF i <= k THEN 1 ELSE 0]
Complete(req) == req # NoRequest => req.runs = RanUpTo(N)

(* A sealed state is no younger than anything it refers to, and its        *)
(* suspended halves have run exactly the services before their resumption; *)
(* t is the clock and begun the downstream requests sent.                  *)
GoodEnvelope(e, t, begun) ==
  /\ e.iat <= t
  /\ e.data.snapshot # NoSnapshot => e.data.snapshot.request.runs = RanUpTo(DiscoAt)
  /\ e.data.suspended # NoSuspension =>
       /\ e.data.suspended.runs = RanUpTo(StepUpAt)
       /\ e.data.suspended.login.time >= e.iat
  /\ \A b \in Backends :
       /\ Complete(e.data.slot[b].asks)
       /\ e.data.slot[b].sent # NoLogin => e.data.slot[b].sent.time >= e.iat
  /\ \A fe \in Frontends : \A r \in begun :
       e.data.pending[fe] = r.flow => r.time >= e.iat

GoodMessage(m, t, begun) ==
  /\ m.cookie # NoCookie => GoodEnvelope(m.cookie, t, begun)
  /\ m.body.kind = "login" => m.body.login # NoLogin
  /\ m.body.login # NoLogin => Complete(m.body.login.request)

GoodAnswer(a, t, begun) ==
  /\ a.runs = RanUpTo(N)
  /\ a.time <= t
  /\ a.time - a.login.time < TTL
  /\ \A r \in begun : r.flow = a.flow => a.time - r.time < TTL

IInv ==
  /\ TypeOK
  /\ jar # NoCookie => GoodEnvelope(jar, now, started)
  /\ \A m \in wire : GoodMessage(m, now, started)
  /\ \A l \in upstream : Complete(l.request)
  /\ \A i \in DOMAIN answers : GoodAnswer(answers[i], now, started)

(* The invariant behind OneAnswerPerLogin.  Copies of one suspension lie   *)
(* in the browser's cookie and in answers on their way; all wait for the   *)
(* same second login, which is spent once the suspended one was answered.  *)
Envelopes == ({jar} \cup {m.cookie : m \in wire}) \ {NoCookie}

SingleUse ==
  /\ \A e \in Envelopes : e.data.suspended # NoSuspension =>
       /\ e.data.suspended.login \in spent
       /\ \A d \in Envelopes :
            /\ d.data.suspended # NoSuspension
            /\ d.data.suspended.login = e.data.suspended.login
            => d.data.stepup = e.data.stepup
       /\ \A i \in DOMAIN answers :
            answers[i].login = e.data.suspended.login => e.data.stepup \in spent \cup {NoLogin}
  /\ \A i \in DOMAIN answers : answers[i].login \in spent
  /\ OneAnswerPerLogin

(* Upstream logins the browser follows or is about to follow.              *)
Begun == upstream \cup {m.body.login : m \in {n \in wire : n.body.kind = "login"}}

(* The invariant behind RequesterCoherent and AnswerMatchesLogin where no  *)
(* service suspends a flow.  A cookie answers the request it recorded      *)
(* last; what waits at a backend that request was sent to is its own login *)
(* there, or nothing.                                                      *)
IsStarted(f) == \E r \in started : r.flow = f
SentFor(l, f) ==
  l.at \in Backends \ Discovering /\ l.request # NoRequest /\ l.request.flow = f

OwnTab(e) ==
  /\ e.data.suspended = NoSuspension
  /\ \A f \in Flows : e.data.front # NoFrontend /\ e.data.pending[e.data.front] = f =>
       /\ IsStarted(f) /\ e.data.requester = RequesterOf[f]
       /\ \A l \in Begun : SentFor(l, f) => e.data.slot[l.at].sent \in {l, NoLogin}
OwnAnswer(a) ==
  /\ IsStarted(a.flow) /\ a.requester = RequesterOf[a.flow] /\ a.login.at \in Backends
  /\ \A l \in Begun : SentFor(l, a.flow) /\ l.at = a.login.at => l = a.login

TabsApart ==
  /\ \A e \in Envelopes : OwnTab(e)
  /\ \A i \in DOMAIN answers : OwnAnswer(answers[i])
  /\ \A l \in Begun : \A f \in Flows : SentFor(l, f) => IsStarted(f)

(* The invariant behind PinHonoured where all frontends are pinned alike   *)
(* and no discovery page suspends a request: constraints are stored at,    *)
(* and logins begun for a request, wait at the pinned backend only.        *)
AtPin(b) == \A fe \in Frontends : Pin[fe] # NoBackend => b = Pin[fe]
Pinned(l) == l.request # NoRequest => AtPin(l.at)
OwnPin(e) ==
  /\ \A b \in Backends : e.data.slot[b].asks # NoRequest => AtPin(b)
  /\ e.data.suspended # NoSuspension => Pinned(e.data.suspended.login)

PinKept ==
  /\ \A e \in Envelopes : OwnPin(e)
  /\ \A l \in Begun : Pinned(l)
  /\ \A i \in DOMAIN answers : Pinned(answers[i].login)

(* The invariant behind ServiceKept: whatever a cookie or a login refers   *)
(* to exists, the request sent and the suspended login followed; `begun`   *)
(* are the requests sent, `followed` the logins the browser was sent to.   *)
Founded(e, begun, followed) ==
  LET flows == {r.flow : r \in begun}
  IN /\ \A fe \in Frontends : e.data.pending[fe] \in flows \cup {NoFlow}
     /\ \A b \in Backends : e.data.slot[b].asks # NoRequest => e.data.slot[b].asks.flow \in flows
     /\ e.data.snapshot # NoSnapshot => e.data.snapshot.request.flow \in flows
     /\ e.data.suspended # NoSuspension => e.data.suspended.login \in followed
BegunFor(l, t, begun) ==
  /\ l.time <= t
  /\ l.request # NoRequest => \E r \in begun : r.flow = l.request.flow /\ r.time <= l.time

Grounded ==
  /\ \A r \in started : r.time <= now
  /\ \A e \in Envelopes : Founded(e, started, upstream)
  /\ \A l \in Begun : BegunFor(l, now, started)
=============================================================================
