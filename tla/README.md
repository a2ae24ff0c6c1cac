# TLA+ verification of tunnelbana

tunnelbana is an identity proxy: relying parties log in at one of its
*frontends* (OIDC or SAML), the proxy runs a chain of *micro-services* over the
request, sends the browser to an upstream identity provider through one of its
*backends*, and takes the answer back through the chain to the frontend. It
keeps no session store: what it remembers of a login travels in one sealed
cookie.

This directory holds TLA+ models of that system, the TLC runs that check them
on small instances, and TLAPS proofs for every instance. All line numbers and
paths below are relative to `src/`.

## The system

| Component | Source | State it keeps | Operations | What makes it hard |
|---|---|---|---|---|
| Proxy orchestration | `crates/tunnelbana-core/src/proxy.rs`, `plugin.rs`, `context.rs`, `internal.rs` | none beyond a request | `run`, `dispatch`, `finish_request`, `finish_response`, `render_error`, seal | request and response chains that are suspended in one HTTP request and resumed in another |
| Sealed state | `crates/tunnelbana-core/src/state.rs` | the state map in the browser's cookie; the key ring | seal, unseal, clear | several tabs share one cookie; old cookies come back; lifetime, rotation, clock skew, size limit |
| OIDC / SAML frontends | `crates/tunnelbana-plugins/src/oidc_frontend.rs`, `saml2_frontend.rs`, `oidc_common.rs`, `dpop.rs`, `client_loader.rs` | the pending request, in the cookie | authorize / SSO, render the answer or the error, token endpoints | which of several pending requests an answer belongs to |
| OIDC / SAML backends | `oidc_backend.rs`, `saml2_backend.rs` | the expected login (state, nonce, request ID) and constraints, in the cookie; the replay cache | `start_auth`, callback, ACS, discovery return | answers lost, repeated, reordered; single use of a login |
| SAML metadata client | `saml2_backend.rs:185-331` | MDQ entity cache, scope cache, per-entity locks | `get`, `lookup_lock` | threads, two caches that must agree, dropped futures |
| Federation frontend and backend | `federation_frontend.rs`, `federation_backend.rs` | resolve cache, failure cache, discovery verifier | resolve a trust chain, third-party initiated login | a decision that expires while it is being cached |
| Discovery and routing services | `microservices/disco.rs`, `routing.rs` | a snapshot of the suspended request, in the cookie | suspend, return, choose a backend | resumption skips the services that already ran, and must skip no other |
| Step-up service | `microservices/stepup.rs`, `stepup_policy.rs` | policy, suspended response, embedded backend's login, in the cookie | save the policy, ask for a second login, its ACS | a second login inside the response path of the first |
| Attribute services and translation | `microservices/*` (the rest), `attributes.rs`, the response parts of the backends and frontends | the NameID format, in the cookie | one response from the provider's names to the requester's | a chain an operator composes freely; values of several parties joined into one identifier |
| TTL cache, DPoP store | `crates/tunnelbana-core/src/cache.rs`, `dpop.rs` | keyed entries with an expiry | get, put, put-if-absent, prune, persist, load | check-and-set, clock read outside the lock |
| TLS reload | `crates/tunnelbana/src/tls.rs` | the current certified key | load at the start, reload on SIGHUP | two files replaced one after the other; coalesced signals |
| Python runtime | `crates/tunnelbana-python/src/lib.rs` | a semaphore, threads that outlive their deadline | run a service with a deadline | a late result, permits held by detached calls |
| Router, configuration, start | `router.rs`, `config.rs`, `lib.rs`, `main.rs` | fixed at start | load, validate, assemble, bind, match a path | the order of the start; precedence of routes |

The components meet in one place: `Proxy::run` unseals the cookie, dispatches
to one endpoint, which calls the next component synchronously (frontend →
request chain → backend, or backend → response chain → frontend), and seals what
is left. Two HTTP requests share nothing but the browser's cookie, except
through the four caches (MDQ, resolve, TTL, replay), the TLS key and the Python
semaphore.

### What makes each component correct

- **Proxy orchestration.** Every service of the chain runs exactly once per
  request and per response, however often the flow is suspended; a redirect
  leaves only with the state its return needs; the answer a requester gets was
  computed for it, from a login of its own, at a backend that honours its
  constraints and its frontend's configuration.
- **Sealed state.** The lifetime of a flow is absolute; rotation, skew and
  restarts lose no flow; what was sealed can be opened again.
- **Frontends and backends.** One upstream login answers at most one request;
  a callback is matched against the login it belongs to.
- **SAML metadata client.** An entity is served with the scopes of the same
  document, both caches are bounded, lookups of one entity are serialised and
  none waits for ever.
- **Federation.** A cached trust decision is never used after it ended nor long
  after it was made; codes go to the OP they came from; failures are not
  retried inside their window.
- **TTL cache.** Check and insertion are one step; expired entries neither hit
  nor accumulate.
- **Step-up and accr.** The policy and the levels a response is judged by are those
  of the request it answers; no level is stronger than what stands behind it; the
  second login is of the same user.
- **Python.** Capacity is conserved and bounded, executions end, a result is
  applied as a whole and only if it keeps the rules.
- **TLS reload.** The served certificate and key belong together, and the last
  renewal is loaded in the end.
- **Attributes.** Two users never share an identifier and two requesters cannot
  join theirs; a provider cannot supply what is not his to say, whatever he calls it;
  an authorization rule holds for what was asserted, not for what is absent.
- **Start and routing.** A process that can be reached survives a HUP; a path reaches
  the first plugin that registered it.

## Modules

| Module | Models | State and actions against the code |
|---|---|---|
| `LoginService` | the promise of the proxy: one service that knows all requests and logins, without cookies, chains or messages | abstract: `Ask`, `Follow`, `Reply`, `Tick` |
| `ProxyFlow` | one browser's logins through the whole proxy | below |
| `Assurance` | the SAML login from the levels asked for to the level asserted: SAML frontend and backend, `stepup`, `accr` | below |
| `MdqLookup` | the promise of the metadata client: one atomic read of one published document | abstract; no code |
| `ScopeAwareMdq` | `ScopeAwareMdqClient::get` and `lookup_lock` | one action per stretch of code between two points of interference: an `await`, the mutex of `trusted_scopes`, an access to the MDQ client's cache |
| `SealedState` | `StateSealer::seal` / `unseal` at several replicas | a request is `unseal` then `seal`, each with its own reading of the clock; `Deploy` gives one replica the next key ring |
| `TtlMap` | the map inside a `TtlCache`, as values | `Live`, `ExpiresAt`, `Swept`, `Rearmed` |
| `TtlCache` | `get`, `put`, `put_if_absent`, `prune_expired` under concurrent callers; the DPoP replay store | each operation reads the clock, then takes the lock: two actions |
| `Federation` | what both ends of the proxy in a federation are built from: clock, requests under way, a decision's use | `Goes`, the next stretch of a request between two awaits |
| `FederationBackend` | the federation relying party: OP cache, discovery, third-party initiated login, callback | a request is cut at each await: cache look-up, the trust anchor's answer, the OP's |
| `FederationFrontend` | the federation OP: automatic registration, the cache of failed resolutions, the binding of a login to a registration | a request is cut at each await, and between its look-ups in the two caches |
| `AttributeServices` | the services of the response chain | an operator per service, from one response to the next, and one for the configurations its `build` refuses |
| `Translation` | `AttributeMap`, the response a SAML or OIDC backend makes, what a frontend releases | operators |
| `Release` | requests of several requesters in one browser and the responses that answer them, through the two modules above | one action per HTTP request; see below |
| `Server` | `main`, `Config`, `build_proxy`, `Router::add`, `tls.rs` | one action per step of the start and per file read; see below |
| `PythonRuntime` | `PythonMicroService::execute` and the runtime's semaphore | permit, blocking task, deadline, validation and commit are separate actions |
| `MC...` | small instances for TLC | values only |
| `...Proofs` | theorems and their TLAPS proofs | |

`ScopeAwareMdq` instantiates `MdqLookup` and `ProxyFlow` instantiates `LoginService` (refinements, `INSTANCE ... WITH`);
`TtlCache` extends `TtlMap`; `FederationBackend` and `FederationFrontend` extend `Federation`; `Release` extends `Translation`, which extends `AttributeServices`. The components `SealedState`, `TtlCache`, `ScopeAwareMdq`,
`FederationBackend`, `FederationFrontend` and `PythonRuntime` detail the parts of `ProxyFlow` that it
treats as one step. `Assurance` decides what `ProxyFlow` leaves to choice in a SAML
login: which policy, level and user a response is judged by. `Release` decides what
both leave out: whom an answer names and what it says of him. `Server` is the process
around them all.

**ProxyFlow.** `jar` is the browser's cookie: the issue time and the state
map, with one field per namespace (the frontends' pending request, each
backend's slot of expected login and constraints, the discovery snapshot, the
suspended step-up response). `wire` holds the answers on their way to the
browser, `upstream` the logins begun at identity providers, `started` and
`answers` the history. Each action is one HTTP request: `Proxy::run` unseals,
one handler runs with everything it calls (the rest of a chain included), an
error is rendered, the state is sealed. One atomic action is exact here: what a
handler does depends on the cookie it was sent, the clock, and the
replay cache's single check-and-set, and on nothing another handler writes; so
two overlapping requests have the effect of the two in either order, and the
overlap that matters, a request sent before an earlier answer reached the
cookie jar, is what `wire` models.

**Assurance.** The same browser, `jar` and `wire`, without clock, sealing and
routing, and with the namespaces field by field: the frontend's `pending` and
`relay`, step-up's `policy` and `snapshot`, accr's `wanted`, the backend's `handoff`,
`target` and `sent`, the embedded backend's login. `Sso` is `handle_sso` with the
request path behind it, `Disco` the discovery return, `Acs` and `StepUpAcs` the two
ACS endpoints with the response path behind them; `AccrResponse` and `Render` are
its last two stations. The tables of `mfa` are data: `Resolve` is `resolve_policy` in
both modes, `Normalized`, `Rejected` and `Completed` are `initial_loa_decision` and
`completed_loa`, `Negotiated` is accr's rewriting and fallback. The order in
which class refs are put into an AuthnRequest is left out, since no code reads it back.
`again` is history: it marks a pending request for which an accepted response
failed later.

**Release.** `session` is the cookie again, this time with what identifies the user:
the frontends' pending request with its NameID format, the format as published
for the services of the response chain, the login each backend waits for, the
response suspended for a second login. `Respond` takes any response a provider may
give through the backend's translation, the chain up to a second login or its end, and
the frontend; `ResumeResponse` continues behind the second login, with its assurances
merged. A value is the sequence of texts between its `@` signs, which is where the code
cuts it, and a hash is the text of what was hashed: two hashes are equal when their
inputs are. A regular expression is the set of the members of the small value set
it matches. `shaped_by` and `publisher` are history: whose format shaped a subject.

**Server.** `file` is what lies on disk, written by a renewal tool in either order with a
moment when a file is torn; `toWrite`, `renewal` and `notified` are the tool's.
`done` counts the steps of `StartOrder`: the process loads its configuration,
installs the HUP handler, reads certificate and key, assembles the proxy and binds; any
failure ends it and another start may follow. `reload` is the one task that reads the two
files again, `pending` the flag that coalesced HUPs share, `live` the resolver's
identity, `conn` what each connection was shown. The configuration is a record of
what validation and assembly ask of it; the route table is made of its plugins.

## Runs

| Run | Instance | Shows |
|---|---|---|
| `tabs` | two requests, two frontends with the same configured backend, a routing service that chooses the other, two backends (one goes through its discovery page), two answers in flight | no answer is rendered to another requester (`RequesterCoherent`), nor from another's login (`AnswerMatchesLogin`); the configured backend is used (`PinHonoured`) |
| `chain` | four services, suspended at discovery and at step-up; failing services, failing backend, states too large to seal; lost answers and repeated callbacks; the clock up to the TTL | every service runs exactly once (`RequestChainComplete`, `ResponseChainComplete`); a redirect carries what its return needs (`RedirectCarriesState`); one login answers once (`OneAnswerPerLogin`); implements `LoginService` (`ServiceKept`) |
| `assurance` | three requests (for MFA, for a weak level, for an unsupported one), two users, an IdP trusted for MFA and one that is not, replicas in both modes, a category that turns a request into one for MFA, a native word to rewrite | `MfaHonoured`, `NeverInflated`, `LoaWasAsked`, `StepUpOfSameUser`, `RelayReturned` |
| `raw_mfa` | the same with hardened replicas | see Findings |
| `release` | seven kinds of request by three requesters, users of two IdPs and an OP whose names and values run into each other, three chains that hold every service that changes attributes or the subject, a second login in the middle of one | no joining of records or confusion of users (`Unlinkable`, `IdentifiersDistinct`), a NameID of the shape asked for (`NameIdShaped`), nothing supplied under a false name (`NothingForged`, `AuthorityTrue`), rules enforced (`AuthorizationHolds`) |
| `server` | three renewals of which one keeps its key, two starts, five configurations of which three are refused, HUPs at any moment, a connection | the certificate shown belongs to the key (`IdentityWhole`) and is never an older one (`NoStepBack`); the last renewal comes to be served (`RenewalServed`); no HUP ends a reachable server (`HupHarmless`); precedence of routes (`RouteOwner`) |
| `mdq` | three lookups of two entities, two versions, caches of capacity one | the two caches agree (`RetainedHasScopes`); implements `MdqLookup` (`ServesOneDocument`); `EveryLookupEnds` |
| `rotation` | two replicas, clocks apart by the whole skew, two tabs, the new secret rolled out for decryption first | `FlowContinues`, `AbsoluteLifetime` |
| `replay` | two callers, three keys, sweeps from the first insertion, expiries at the top of the integers | no key is accepted twice in its window (`ReplayWindow`) |
| `federation` | two requests, two OPs, decisions that last 0, 2 or 4, a cache of 2 | `TrustInForce`, `BoundedStaleness`, `CodesReachTheirOp` |
| `registration` | two requests of a client with two registrations, decisions that last 0, 1 or 5, a cache of 2, a failure window of 2 | no registration outlives its decision (`RegistrationInForce`) or its age (`RegistrationRecent`); `RedirectsRegistered` |
| `python` | two requests with chains of services, one permit | `ContextTrusted`, `RefusedOnlyWhenFull`, `EveryExecutionEnds` |

**Bounds and why they are enough.** Two requests suffice for the browser's
interleavings because a namespace holds one value: a third request can only
replace what the second did. `MaxLogins` lets each request begin a second login
(or a step-up) and one be retried; `MaxWire = 2` reorders two answers. In `chain`
four positions are the three services with behaviour plus one after them.
In `assurance` three logins are a first
one, its step-up and one more, and one answer is in flight; what reordering adds is in
`tabs` and in the theorems. Its third request is refused by accr, after the frontend and
step-up stored their part: the only way the namespaces of two requests
meet without a redirect between them.
`MaxNow` reaches the TTL and passes it where the clock matters and is 0 where it
does not. In `mdq` capacity 1 makes every second entity trigger the reset, and a
third lookup arrives while one resets and one waits. In `rotation` the plan is
run to its end while a cookie of each stage is alive, with `Wait` equal to the TTL. In `replay` the floor of
the watermark is 1, so that a sweep happens at the first insertions, and
`MaxTime` 9 makes one lifetime saturate. In `federation` one lifetime is over at
once, one ends before, one after the configured one. In `registration` there is
one client, since clients share nothing but the caches' keys; IDs too long to be
cached are in the module and the theorems only. In `python` one
permit is the tightest capacity: every second execution waits. In `server` two
renewals after the first certificate let a reload be overtaken by a renewal it is
in the middle of, one of them with the key it already has, which is when a
mixed pair would match; the second start meets files that are torn or half renewed;
the second reload task is only there for the case that the loop spawned one. In
`release` `MaxAnswers = 2` gives the two answers that a property about pairs relates,
of any two of the seven logins; the session each answer ends makes a third one a
repetition. One change of a registration lies between two answers or
before both. Only the hardened way to merge assurances occurs in its chains. All of
these limits are `CONSTANTS`, and the theorems hold for every value of them.

**Fairness.** `mdq`, `python` and `server` alone state it. In `mdq` each lookup's own step is
weakly fair: the runtime polls a future that is ready, the fetch has a timeout,
and a mutex holder does not block; disconnects, purges and publications are not
fair. In `python` the clock and what the executor polls are weakly fair: the
grant, the two timeouts, the commit. *No* fairness is assumed of Python, which
may hang. In `server` the steps of a start and those of the reload loop are weakly
fair; nobody is obliged to renew, to write, to signal, to connect, to start or to stop.
These three runs and `release` disable the deadlock check, because lookups, requests,
starts and answers are bounded and the instance ends; every other run checks
deadlock, since a browser can always act.

**State machines that are kept honest.** Every property of a passing run has a
mutation of the modelled code (the definitions commented `Mutant`, listed in
`PROJECT.json`) under which TLC finds it violated in the same instance.

## Findings

One run shows a statement of the repository that does not hold of the code:

- `raw_mfa`: step-up's policy is used up with the first accepted response
  (`stepup.rs:345`, `stepup.rs:460`), the frontend's request only with its answer. When
  something fails in between, a further login for the request is judged by a policy
  derived without what the request asked for (`stepup.rs:324`), and an assertion
  of MFA by an IdP that no policy trusts is passed on, against `docs/src/stepup.md:163`.
  `MfaHonoured` and `LoaWasAsked` are proved for requests without such a failure
  (`~ again`); the other properties have no proviso.

Four smaller ones were met while modelling and have no run of their own:

- A request refused because its ForceAuthn and IsPassive cannot be honoured together
  stays pending, and the callback of an earlier login answers it
  (`oidc_backend.rs:186`), against `docs/adr/0049-force-authn-is-passive-propagation.md:40`.
- With several replicas, the rotation of `docs/src/security-state-cookie.md:66` makes
  cookies sealed by the replica that switched first unreadable at the others
  (`state.rs:423`). Run `rotation` shows the order of deployments that loses nothing,
  and `Staged` is the assumption that `Continuity` needs.
- The NameID format is one value per cookie (`nameid.rs:52`): after a SAML login
  that was left behind, the service shapes an OIDC login's subject, or that of
  another tab, where `docs/adr/0030-eduid-scimapi-microservices.md:93` has it a no-op by design. `NameIdShaped`
  and `Unlinkable` except answers whose subject another login's format shaped.
- `attributes.rs:5` says that of several external names "the first non-empty source
  wins"; `to_internal` collects the values of all.

The properties that hold are stated with conditions that the code needs:

- `RequesterCoherent` is checked without step-up: a resumed response is
  rendered for the request pending then (`proxy.rs:166`), which another tab may have
  replaced.
- `PinHonoured` is of logins begun by the frontend's own request: after a
  service's discovery page `custom_routing` or the default wins (`proxy.rs:163`).
  ADR 0053 describes it so; `docs/src/micro-services.md:722` does not.
- `AnswerMatchesLogin` excepts a backend that goes through its own discovery page,
  which keeps the login it waited for until the discovery returns.
- `Unlinkable` assumes that providers do not assert subject-ids in each other's
  scopes, since `pairwiseid` does not look at the issuer.
- `AuthorizationHolds` is checked with a requester's own allow rule that demands presence;
  without `force_attributes_presence_on_allow` an absent attribute is let through by design.
- `RelayReturned` is of requests that have a RelayState: one without may be given
  that of the request before (`saml2_frontend.rs:658`).

## Proofs

Each `...Proofs` module proves `Spec => []IInv` for an inductive invariant `IInv`
(`CacheInv` and `FrontendInv` for the second part of a module that has two, `AgeInv` for
the part of the sealed cookie that needs no assumption),
one lemma per action, and derives the properties from it. `IInv` was found with TLC on
the instances above and is no longer part of a run, nor are the bounds that follow from
it alone (`LifetimeBound`, `OneLookupPerEntity`, `ScopesBounded`, `NoStaleHit`, `Bounded`,
`NoRetryInWindow`, `AtMostMaxCalls`, the server's `TypeOK`), or parts of liveness properties
(`WaitsEnd`, `NothingMissed`), or the part of one that needs no assumption (`OnlyKeysMatter`). All hold for
every value of the constants under the named assumptions of the module.

- **ProxyFlowProofs** (`TypeCorrect`, `Invariance`, `RequestChain`,
  `ResponseChain`, `Lifetime`, `LoginAnswersOnce`, `RedirectsReturn`, `RequestersApart`,
  `OwnLoginAnswers`, `PinWins`, `Implements`). A property of finished answers is not inductive:
  what makes it true is sealed in cookies. `IInv` says of every envelope, in the jar
  and on the wire, that its suspended halves ran exactly the services before their
  resumption (`RanUpTo`) and that nothing in it is older than its issue time.
  That one login answers once needs more, for the replay cache knows the first login and a
  suspended response is answered by the second: `SingleUse` says that all
  copies of one suspension, in the jar and in answers that may still arrive, wait for
  the same second login, and that this one is spent once the first was answered. Every
  handler is then shown to be `Quiet`, which records nothing and sends a known suspension
  or none, or to be one of the two that answer. `Carried` is the
  part of it that a redirect needs.
  `RequestersApart` and `OwnLoginAnswers` assume `NeverSuspended`, no discovery or step-up
  service in the chain: both are about the request a cookie answers, and a resumed flow
  brings its own. Their invariant `TabsApart` says of every cookie that it answers the
  request it recorded last, and that its slot at a backend to which this request was sent
  holds the request's own login or nothing; each handler is a `TabStep`, which begins no
  login for a request, or records a new one. `PinWins` assumes `PinnedAlike`, one configured backend
  for all frontends and no discovery service, the condition under which the comment at
  `PinHonoured` states it; step-up is allowed. `PinKept` follows the pin through stored
  constraints, suspended logins and logins under way.
  `Implements` is the refinement of `LoginService`: with all that its state in cookies, tabs and
  lost or reordered answers can lead to, the proxy is one service that knows every request and every
  login. A handler that answers is a `Reply`, one whose answer sends the browser to a provider is a
  `Follow` once that answer arrives, and all else but the clock and a new request is a
  stutter. It needs no assumption on chain or deployment. That an answer is young, complete and the
  first of its login is read off `IInv` after the step; that its request was sent and its login
  followed needs `Grounded`: whatever a cookie, in the jar or on the wire, refers to exists (`Founded`),
  and a login on its way was begun after its request (`BegunFor`).
- **AssuranceProofs** (`MfaIsHonoured`, `LevelIsNotInflated`, `LevelIsAskedFor`,
  `SecondLoginIsOwn`, `RelayIsReturned`, `Invariance`). `GoodData` says of every cookie,
  the browser's or one on its way, that step-up's policy, accr's list and the RelayState
  belong to the pending request as far as it has not failed, and that a waiting response
  names the linked account of its own user. A response on its way through the path is
  `Judged`: strong enough for the pending request. `NegotiatedGood` is the lemma that accr
  never strengthens a level; it rests on `Supported` ranking a level once.
- **SealedStateProofs** (`Lifetime`, `LostWithKeysOnly`, `AgeInvariance`, `Continuity`,
  `Invariance`), in two layers. `AgeInv` is about cookies, clocks and deadlines and needs no
  assumption on keys: `Lifetime` holds for every `Plan` and every `Wait` before a secret is
  removed, the documented rotation and an emergency one (`Wait` 0) included, and
  `LostWithKeysOnly` says what no such plan can cost: where a replica does not recover a young
  flow, its ring lacks the secret (`OnlyKeysMatter`). `Continuity` alone assumes a `Staged`
  plan: no ring seals with a secret that a neighbouring ring lacks, and `Wait` is at
  least `TTL`. Its `IInv` adds `KeyInv`, which ties the age of every cookie in existence (`Cookies`) to
  the last stage that could have sealed it. Throughout, clock offsets are at most `Skew` and
  one rollout ends before the next begins.
- **CacheProofs**, in two parts. The metadata client (`ScopesFollowEntities`, `ScopesStayBounded`,
  `Serialised`, `NoDeadlock`, `Refinement`, `Invariance`): the pairing of the two caches is broken between
  the MDQ client's insertion and the promotion of the scopes; `Promoting` names
  the lookup that will repair it, `LockInv` makes it the only one of its entity,
  and `ResetInv` says that during a reset there is nothing else to repair. The
  refinement maps every step to a read, a publication or a stutter. `NoDeadlock` is `WaitsEnd`, the
  safety part of `EveryLookupEnds`: a lookup waits for the owner of its entity's lock, that
  one at most for a lookup inside the reset, and this one for nobody. `OwnerInv` makes each
  owner one that still runs and holds the lock of its own entity. The TTL cache
  (`ReplaysRefused`, `HitsAreFresh`, `MemoryBounded`, `CacheInvariance`): `EntryInv`
  keeps an entry's expiry within `Stall` of what its last insertion promised;
  `Stall` bounds the time from the reading of the clock to the lock.
- **FederationProofs**, of both ends. The backend (`NeverExtends`, `Recent`, `CodesStay`,
  `Invariance`): `CacheInv` and `WorkInv` carry the signing time along; `Wait` bounds one
  await. The frontend (`FrontendNeverExtends`, `FrontendRecent`, `RedirectsStay`,
  `FailuresKept`, `FrontendInvariance`): the lifetime left is computed before the wait for
  the client store and applied after it, so the bounds carry one more `Wait`;
  `FailureInv` ties an entry to the failure that made it.
- **ServerProofs** (`ShownWhole`, `CertificatesAdvance`, `HupSurvived`,
  `NoHupLost`, `FirstRegistrantAnswers`, `TypeCorrect`, `Invariance`). That the pair is whole and that it never
  goes back rest on different things: the first on the check of each pair that is read,
  the second on `OneReload` and `OrderInv`, by which what any task or the resolver has
  read is no newer than what the file holds, or will hold once it is whole again.
  `StartInv` says what a process holds at each step of its start; `HupHarmless` follows
  from the place of the handler in `StartOrder`. `NoHupLost` is `NothingMissed`, the safety part of
  `RenewalServed`: when the tool has sent its HUP and none waits, its certificate is served, or a
  start or reload under way has read it or has yet to read. It needs `FilesInv` (whole files, once
  announced, are the last renewal's) and both of the above: an older reading cannot come
  last, since there is one reload and it read nothing older than what is served.
  `FirstRegistrantAnswers` is about the
  route table as a sequence: each path leads to the least index at which it is registered,
  which is looked up again by kind and name, and finds the same plugin because names
  are unique within a section and a section holds one kind (`SectionAssumption`).
- **ReleaseProofs** (`Unforged`, `Authorized`, `AuthorityReleased`,
  `PersistentIsPairwise`, `RequestersUnlinked`, `UsersIdentified`, `TypeCorrect`, `Invariance`), for every attribute map, every chain an
  operator may compose and every response of a provider. `DataGood` is what holds of a
  response behind the first `k` services. `Accounted`: of an attribute that none of the `k`
  writes there are only values that the provider asserted under that attribute's own
  names and no filter so far withholds. `AuthorizedBy`: each allow rule passed was
  met by such a value. `Shaped`: a subject that `nameid` made is the pairwise identifier. `Paired`: a
  pairwise identifier was made of the response's own requester and of a subject-id its
  provider asserted. `Identified`: a primary identifier frames the components of a candidate, and
  these were made of attributes and, where the service says so, of the issuer of the response's own
  source (`Originates`: values that no service writes are still the asserted ones).
  `SuspensionGood` keeps this for a response in the cookie, at the position it will go on
  from, `AnswerGood` gives it for the whole chain, and `SessionGood` ties the published
  format to the request that published it. `DataStep` carries `DataGood` over one service;
  under it lies one lemma per kind of service that an attribute it does not write
  (`Writes`, read off its configuration) is left as it was, filtered or removed. The sequences of
  renames and processors and the chain itself are recursive functions; instead of an
  induction principle the proofs take the least position at which the claim would fail (`Positions`).
  `SamlAsserted` and `OidcAsserted` are the same statement of the translation: neither the
  passthrough of unknown attributes nor the folding of case forges a mapped one.
  The hypotheses of four theorems are about configurations and users, and are evaluated by
  TLC for the instance (`ChainsMeant`). For `Authorized`, `RulesOfAsserted`: allow rules are
  about attributes of the map that no earlier service writes, and demand their presence. For
  `PersistentIsPairwise`, `NameIdLast`: nothing behind `nameid` touches the identifier. For
  `RequestersUnlinked` also `PairwiseAlone` (the subject-id is the asserted one, and only `pairwiseid`
  writes its result), `SubjectsPersonal` (a user has one subject-id, of his own) and
  `DigestsApart`, which is what the v1 framing is for: digests for different
  requesters or subjects differ. The prover cannot derive the last from `PairwiseInput`,
  since to it a string is no sequence; TLC computes it for texts that run into each
  other. `NoValueApart` (a text is not the model's mark for an absent value) is the only hypothesis that
  is not evaluated.
- **PythonRuntimeProofs** (`CallsBounded`, `NoPermitLost`, `ContextsTrusted`).
  `PermitInv` is the conservation law: free permits and holders sum to
  `max_concurrent_calls`, and no permit is free while a request waits.

**Only model-checked:** the liveness properties `EveryLookupEnds`, `EveryExecutionEnds`
and `RenewalServed`; that no lookup waits in a circle and that no HUP is lost, on which they
rest, is proved. Out of reach are liveness under fairness and `ENABLED`, induction over
data, and `RECURSIVE` operators, of which the modules have none.

## What is not modelled

- *Cryptography, XML, JSON, tokens.* A message is what the code reads of it; a
  sealed cookie is opaque, a signature is valid or the message is refused.
  `grindvakt`, `gamlastan` and tokio are external and modelled from their use here.
- *Sealed state:* the check of the lifetime switched off (no TTL) and cookies of
  the legacy uncompressed format.
- *TTL cache:* `persist`, `load` and `expiring_within`, which no other source calls.
- *SAML:* unsolicited responses; a second service that also chooses the target
  levels; the metadata a frontend or a backend publishes. `Assurance` leaves the failure to
  seal a cookie to `ProxyFlow`, `Release` leaves lost, repeated and reordered messages
  and the choice of the backend to it, and the levels to `Assurance`.
- *Federation backend:* dishonest OPs. The discovery verifier is in the
  browser's cookie and so is not strictly single-use: a return repeated before the
  answer of the first reaches the browser begins another login.
- *Federation frontend:* preconfigured clients, which do not expire; its token and
  userinfo endpoints.
- *Python:* the start of the interpreter, conversions of values, and which of the
  waiters gets a permit. A deadline beyond what the clock represents is refused at
  once and left out, as is a service without the method, which changes nothing.
- *Attribute services:* the text of log lines, hash functions as such (two
  inputs never collide), and what a regular expression matches beyond the value set.
- *Configuration and start:* generated keys, the check of URLs, the loading of
  metadata sources at the start (calls of external crates without state), logging and
  the HTTP client's plumbing. A PEM file reads or it does not.
- *Routing:* patterns. No plugin registers one; routes are exact paths.
- *Discovery services:* `idp_hinting` and static pages, which only write a decoration.

## Plan

What is left, in order of what it would add:

1. `Assurance` as a refinement of `ProxyFlow`'s response path, with step-up's
   choices mapped to its `StepUpMayAsk`.
2. Token endpoints of the OIDC frontend over `TtlCache`: proof replays. `TtlCache` as an
   implementation of an abstract replay register.
