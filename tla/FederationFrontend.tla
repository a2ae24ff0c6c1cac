------------------------- MODULE FederationFrontend -------------------------
(***************************************************************************)
(* The OpenID Federation frontend: the proxy as an OP whose relying        *)
(* parties register themselves, by a trust anchor's word, when they first  *)
(* ask for an authorization.                                               *)
(*                                                                         *)
(* Requests run concurrently and share the client store and the cache of   *)
(* failed resolutions.  A request is cut wherever it awaits: between its   *)
(* look at the clients and at the failures, the anchor's signature, the    *)
(* arrival of its answer, the store, and the validation of the request.    *)
(* A login that was begun comes back any number of times, since what is    *)
(* known of it is in a cookie.  Expired entries are swept by the caches    *)
(* themselves, which nobody can observe here.                              *)
(***************************************************************************)
EXTENDS Federation

CONSTANTS
  Clients,
  LongIds,     \* client IDs longer than MAX_CACHED_CLIENT_ID_LEN
  Versions,    \* the registrations a client may have in the federation
  RpCacheTtl,  \* rp_cache_ttl
  FailureTtl,  \* RESOLUTION_FAILURE_TTL
  MaxLogins,   \* bound: logins begun
  Never

ASSUME FrontendAssumption ==
  /\ LongIds \subseteq Clients
  /\ {RpCacheTtl, FailureTtl, MaxLogins} \subseteq Nat

VARIABLES
  clients,   \* the client store
  failures,  \* resolution_failures: per client, when the entry ends
  logins,    \* logins sealed into cookies
  noted      \* history: per client, the last failure put into the cache

frontendVars == <<now, clients, failures, handler, logins, used, noted>>

(* What a trust anchor signed about a client; `signed` is history.         *)
Registration == [client: Clients, version: Versions, signed: Nat, exp: Nat]
Retained == [decision: Registration, expires: Nat]

Phases == {"missed", "resolving", "signed", "storing", "known"}
Authorization == [phase: Phases, client: Clients, decision: Registration \cup {NoDecision},
                  ttl: Nat, since: Nat]

(* The stored request, told by the registrations under which it is valid,  *)
(* and the fingerprint bound to it.                                        *)
ClientLogin == [client: Clients, fits: SUBSET Versions, bound: Versions]
Redirected == [decision: Registration, login: ClientLogin, code: BOOLEAN, time: Nat]

ASSUME FrontendNulls ==
  /\ Idle \notin Authorization /\ NoEntry \notin Retained /\ NoDecision \notin Registration
  /\ NoUse \notin Redirected /\ Never \notin Nat

FrontendTypeOK ==
  /\ now \in Nat
  /\ clients \in [Clients -> Retained \cup {NoEntry}]
  /\ failures \in [Clients -> Nat]
  /\ handler \in [Handlers -> Authorization \cup {Idle}]
  /\ logins \subseteq ClientLogin
  /\ used \in Redirected \cup {NoUse}
  /\ noted \in [Clients -> Nat \cup {Never}]

FrontendInit ==
  /\ now = 0
  /\ clients = [c \in Clients |-> NoEntry]
  /\ failures = [c \in Clients |-> 0]
  /\ handler = [h \in Handlers |-> Idle]
  /\ logins = {} /\ used = NoUse
  /\ noted = [c \in Clients |-> Never]

Known(c) == clients[c] # NoEntry /\ clients[c].expires > now

----------------------------------------------------------------------------
(* The authorization endpoint                                              *)

Stands(h, phase) == handler[h] # Idle /\ handler[h].phase = phase
History == UNCHANGED <<logins, used>>

Authorize(h, c) ==
  /\ handler[h] = Idle
  /\ Goes(h, [phase |-> IF Known(c) THEN "known" ELSE "missed", client |-> c,
              decision |-> NoDecision, ttl |-> 0, since |-> 0])
  /\ UNCHANGED <<now, clients, failures, noted>> /\ History

(* A resolution that failed recently is not tried again.                   *)
Refuse(h) ==
  /\ Stands(h, "missed") /\ failures[handler[h].client] > now
  /\ Goes(h, Idle)
  /\ UNCHANGED <<now, clients, failures, noted>> /\ History

MayConsult(c) == failures[c] <= now
Consult(h) ==
  /\ Stands(h, "missed") /\ MayConsult(handler[h].client)
  /\ Goes(h, [handler[h] EXCEPT !.phase = "resolving", !.since = now])
  /\ UNCHANGED <<now, clients, failures, noted>> /\ History

(* A trust anchor signs a resolve response about the client.               *)
SignClient(h) ==
  /\ Stands(h, "resolving")
  /\ \E v \in Versions, life \in Lifetimes :
       Goes(h, [handler[h] EXCEPT !.phase = "signed",
         !.decision = [client |-> handler[h].client, version |-> v,
                       signed |-> now, exp |-> now + life]])
  /\ UNCHANGED <<now, clients, failures, noted>> /\ History

(* Mutants: the lifetime of the decision, and the configured one, alone.   *)
TtlByTrust(d) == d.exp - now
TtlByConfig(d) == RpCacheTtl
(* cache_ttl_bounded_by_trust.                                             *)
Ttl(d) == IF RpCacheTtl < d.exp - now THEN RpCacheTtl ELSE d.exp - now

(* The response arrives; what is left of the decision is computed before   *)
(* the client store is waited for.                                         *)
Arrive(h) ==
  /\ Stands(h, "signed") /\ handler[h].decision.exp > now
  /\ Goes(h, [handler[h] EXCEPT !.phase = "storing", !.ttl = Ttl(handler[h].decision),
                                !.since = now])
  /\ UNCHANGED <<now, clients, failures, noted>> /\ History

Put(h) ==
  LET w == handler[h]
  IN /\ Stands(h, "storing")
     /\ clients' = [clients EXCEPT ![w.client] =
          [decision |-> w.decision, expires |-> now + w.ttl]]
     /\ Goes(h, [w EXCEPT !.phase = "known", !.decision = NoDecision, !.ttl = 0, !.since = 0])
     /\ UNCHANGED <<now, failures, noted>> /\ History

(* note_resolution_failure: put_if_absent.                                 *)
Notes(c) == c \notin LongIds /\ failures[c] <= now

(* No anchor answers, or with metadata that is refused or already expired. *)
Fail(h) ==
  LET c == handler[h].client
  IN /\ Stands(h, "resolving") \/ Stands(h, "signed")
     /\ failures' = IF Notes(c) THEN [failures EXCEPT ![c] = now + FailureTtl] ELSE failures
     /\ noted' = IF Notes(c) THEN [noted EXCEPT ![c] = now] ELSE noted
     /\ Goes(h, Idle)
     /\ UNCHANGED <<now, clients>> /\ History

(* The request is valid for the registration stored at this moment, which  *)
(* is bound to it.                                                         *)
Validate(h, fits) ==
  LET w == handler[h]
      d == clients[w.client].decision
      l == [client |-> w.client, fits |-> fits, bound |-> d.version]
  IN /\ Stands(h, "known") /\ Known(w.client) /\ d.version \in fits
     /\ Cardinality(logins) < MaxLogins
     /\ logins' = logins \cup {l}
     /\ Goes(h, Idle)
     /\ UNCHANGED <<now, clients, failures, used, noted>>

(* The request object, or the request, is not valid, or the client ended.  *)
Reject(h) ==
  /\ Stands(h, "known")
  /\ Goes(h, Idle)
  /\ UNCHANGED <<now, clients, failures, noted>> /\ History

----------------------------------------------------------------------------
(* The answer to a login                                                   *)

Redirect(l, code) ==
  /\ used' = [decision |-> clients[l.client].decision, login |-> l, code |-> code, time |-> now]
  /\ UNCHANGED <<now, clients, failures, handler, logins, noted>>

Valid(l) == Known(l.client) /\ clients[l.client].decision.version \in l.fits

(* Mutant: the registration is not compared.                               *)
SameClientAny(l) == TRUE
(* resolve_authorization_subject: the fingerprint is the one bound.        *)
SameClient(l) == clients[l.client].decision.version = l.bound

Issue(l) == l \in logins /\ Valid(l) /\ SameClient(l) /\ Redirect(l, TRUE)

Redirects(l) == Valid(l)
(* authorization_error_response: without a valid registration, the error   *)
(* is shown locally and no client hears of it.                             *)
RedirectError(l) == l \in logins /\ Redirects(l) /\ Redirect(l, FALSE)

Awaiting == {"resolving", "signed", "storing"}
FrontendTick ==
  /\ now < MaxNow
  /\ \A h \in Handlers :
       handler[h] # Idle /\ handler[h].phase \in Awaiting => now - handler[h].since < Wait
  /\ now' = now + 1
  /\ UNCHANGED <<clients, failures, handler, noted>> /\ History

Registers(h) ==
  \/ Refuse(h) \/ Consult(h) \/ SignClient(h) \/ Arrive(h) \/ Put(h) \/ Fail(h)
  \/ Reject(h) \/ \E fits \in SUBSET Versions : Validate(h, fits)

FrontendNext ==
  \/ \E h \in Handlers : Registers(h) \/ \E c \in Clients : Authorize(h, c)
  \/ \E l \in logins : Issue(l) \/ RedirectError(l)
  \/ FrontendTick

FrontendSpec == FrontendInit /\ [][FrontendNext]_frontendVars

----------------------------------------------------------------------------
(* Properties                                                              *)

(* "Never retain metadata after the trust anchor stops vouching for it": a *)
(* client is not redirected to after its decision ended, up to the time    *)
(* between the computation of the remaining lifetime and the store.        *)
RegistrationInForce == used # NoUse => used.time < used.decision.exp + Wait

(* Nor on a registration older than rp_cache_ttl and its resolution,       *)
(* although a slower request may put an older one back.                    *)
RegistrationRecent == used # NoUse =>
  used.time - used.decision.signed < RpCacheTtl + 2 * Wait

(* Registrations change while users log in.  A code goes only to the one   *)
(* the login was begun with, an error only to one for which the request is *)
(* valid.                                                                  *)
RedirectsRegistered == used # NoUse =>
  /\ used.decision.client = used.login.client
  /\ used.decision.version \in used.login.fits
  /\ used.code => used.decision.version = used.login.bound

(* "Within that window the request is rejected without consulting the      *)
(* trust anchors": however many requests fail at once, none begins a       *)
(* resolution within the window of the last failure noted.                 *)
NoRetryInWindow ==
  [][\A h \in Handlers :
       LET c == handler[h].client
       IN Consult(h) /\ noted[c] # Never => now - noted[c] >= FailureTtl]_frontendVars

----------------------------------------------------------------------------
(* The inductive invariant                                                 *)

(* A stored client lasts no longer than its decision and the cache allow.  *)
ClientInv == \A c \in Clients : clients[c] # NoEntry =>
  LET e == clients[c]
  IN /\ e.decision.client = c
     /\ e.expires <= e.decision.exp + Wait
     /\ e.expires <= e.decision.signed + RpCacheTtl + 2 * Wait

AuthorizationInv == \A h \in Handlers : handler[h] # Idle =>
  LET w == handler[h]
      d == w.decision
  IN /\ w.since <= now
     /\ w.phase \in Awaiting => now - w.since <= Wait
     /\ w.phase \in {"signed", "storing"} => d # NoDecision /\ d.client = w.client
     /\ w.phase = "signed" => w.since <= d.signed
     /\ w.phase = "storing" =>
          /\ w.since + w.ttl <= d.exp
          /\ w.since + w.ttl <= d.signed + RpCacheTtl + Wait

FailureInv == \A c \in Clients :
  failures[c] = IF noted[c] = Never THEN 0 ELSE noted[c] + FailureTtl

FrontendInv ==
  /\ FrontendTypeOK /\ ClientInv /\ AuthorizationInv /\ FailureInv
  /\ RegistrationInForce /\ RegistrationRecent /\ RedirectsRegistered
=============================================================================
