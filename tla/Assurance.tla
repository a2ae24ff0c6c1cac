----------------------------- MODULE Assurance -----------------------------
(***************************************************************************)
(* The level of assurance (LoA) of a SAML login: from the levels a service *)
(* provider asks for to the level the proxy asserts to it.  The proxy is   *)
(* the documented deployment for it: a SAML frontend, a SAML backend with  *)
(* discovery, and the micro-services ScimAttributes, stepup and accr.      *)
(*                                                                         *)
(*   request:  frontend -> stepup -> accr -> backend -> discovery or IdP   *)
(*   response: backend -> ScimAttributes -> stepup [-> second IdP ->       *)
(*             stepup] -> accr -> frontend                                 *)
(*                                                                         *)
(* Each of them keeps its part of the flow in a namespace of its own of    *)
(* the one sealed cookie, stores and clears it on its own account, and     *)
(* reads it when the browser comes back.  Another request of the same      *)
(* browser, or an error half-way, may leave the namespaces of different    *)
(* moments together.  ProxyFlow has the proxy around them, with the clock, *)
(* the sealing and the order of the services; the modules that it leaves   *)
(* a choice are decided here.                                              *)
(***************************************************************************)
EXTENDS Integers, Sequences, FiniteSetsExt, Functions

CONSTANTS
  Flows,            \* AuthnRequests of service providers, each accepted once
  Idps,             \* identity providers, for a first or a second login
  Users, Identifiers,
  Loas,             \* AuthnContextClassRefs
  MFA,              \* REFEDS_MFA
  Relays,
  LoasOf,           \* per request: the class refs it asks for, in its order
  RelayOf,          \* per request: its RelayState, or NoRelay
  Passive,          \* the requests with IsPassive
  Hinted,           \* per request: the IdP a service or the default chose, or NoIdp
  Behaviors,        \* the modes of the replicas' stepup: "hardened", "eduid"
  ByEntity,         \* mfa.by_entity_id: settings of SPs and IdPs, or NoSettings
  ByCategory, ByCertification,  \* the other two tables of mfa, in their order
  Categories, Certifications,   \* per SP and IdP: the values of its metadata
  AccountOf,        \* per user: the linked account SCIM has, or NoAccount
  Supported,        \* accr: supported_accr_sorted_by_prio
  Rewrite,          \* accr: internal_accr_rewrite_map, on a subset of Loas
  Lowest,           \* accr: this frontend's minimum, or NoLoa
  AllowStronger,    \* accr: allow_stronger_accr_fallback
  DefaultAcr,       \* frontend: the level asserted when the IdP gave none
  Asserts,          \* per IdP: the levels it may assert
  MaxLogins, MaxWire,           \* bounds: upstream logins, answers in flight
  NoFlow, NoIdp, NoLoa, NoRelay, NoSettings, NoAccount, NoIdentifier, NoBehavior,
  NoPolicy, NoSnapshot, NoLogin, NoSecond, NoCookie, NoAnswer

(***************************************************************************)
(* Data                                                                    *)
(***************************************************************************)
Settings == [requested: Seq(Loas), extra: SUBSET Loas, returned: Loas \cup {NoLoa}]
(* What the configuration is refused without.                              *)
ValidSettings(settings) == settings.requested # <<>>
Row == [value: STRING, settings: Settings]
Rows(table) == {table[k] : k \in DOMAIN table}
Account == [idp: Idps, identifier: Identifiers]

(* What stepup saves of a request.  The mode is saved with it, since the   *)
(* replica that reads it may have another.                                 *)
Policy == [behavior: Behaviors, original: Seq(Loas), loas: Seq(Loas),
           settings: Settings, passive: BOOLEAN]

(* An AuthnRequest for an IdP.  Its order of preference is left out.       *)
Login == [id: Nat, at: Idps, second: BOOLEAN, loas: SUBSET Loas,
          subject: Identifiers \cup {NoIdentifier}]
Second == [at: Idps, identifier: Identifiers, loa: Loas]

(* The response on its way: what the first IdP asserted of whom, the level *)
(* it stands for now, and the second exchange behind it.                   *)
Response == [user: Users, idp: Idps, asserted: Loas \cup {NoLoa},
             loa: Loas \cup {NoLoa}, second: Second \cup {NoSecond}]
Snapshot == [response: Response, account: Account, policy: Policy]

(* The sealed state: the frontend's namespace, stepup's, accr's, the       *)
(* backend's and the embedded backend's.  `again` is history: a login for  *)
(* the pending request was used up, and the request stayed pending.        *)
Data == [pending: Flows \cup {NoFlow}, relay: Relays \cup {NoRelay},
         policy: Policy \cup {NoPolicy}, snapshot: Snapshot \cup {NoSnapshot},
         wanted: SUBSET Loas,
         handoff: Behaviors \cup {NoBehavior}, target: SUBSET Loas,
         sent: Login \cup {NoLogin},
         embedded: Login \cup {NoLogin},
         again: BOOLEAN]
EmptyData == [pending |-> NoFlow, relay |-> NoRelay, policy |-> NoPolicy,
              snapshot |-> NoSnapshot, wanted |-> {}, handoff |-> NoBehavior,
              target |-> {}, sent |-> NoLogin, embedded |-> NoLogin, again |-> FALSE]
Answer == [flow: Flows, relay: Relays \cup {NoRelay}, loa: Loas,
           response: Response, again: BOOLEAN]
(* An answer to the browser: the cookie it sets, and the AuthnRequest for  *)
(* an IdP or the Response for a service provider that it posts.            *)
Message == [cookie: Data \cup {NoCookie}, login: Login \cup {NoLogin},
            answer: Answer \cup {NoAnswer}]

ASSUME RequestAssumption ==
  /\ LoasOf \in [Flows -> Seq(Loas)]
  /\ RelayOf \in [Flows -> Relays \cup {NoRelay}]
  /\ Hinted \in [Flows -> Idps \cup {NoIdp}]
  /\ AccountOf \in [Users -> Account \cup {NoAccount}]
(* The tables are checked when the configuration is read.                  *)
ASSUME ConfigAssumption ==
  /\ Behaviors \subseteq {"hardened", "eduid"}
  /\ ByEntity \in [Flows \cup Idps -> Settings \cup {NoSettings}]
  /\ ByCategory \in Seq(Row) /\ ByCertification \in Seq(Row)
  /\ \A settings \in (Range(ByEntity) \ {NoSettings})
         \cup {row.settings : row \in Rows(ByCategory) \cup Rows(ByCertification)} :
       ValidSettings(settings)
  /\ \A table \in {ByCategory, ByCertification} : \A j, k \in DOMAIN table :
       table[j].value = table[k].value => j = k
  /\ {Categories, Certifications} \subseteq [Flows \cup Idps -> Seq(STRING)]
  (* An order ranks a level once: the one thing here that nothing checks.  *)
  /\ Supported \in Seq(Loas) /\ IsInjective(Supported)
  /\ Lowest \in Range(Supported) \cup {NoLoa}
  /\ DOMAIN Rewrite \subseteq Loas /\ Range(Rewrite) \subseteq Loas /\ IsInjective(Rewrite)
  /\ {MFA, DefaultAcr} \subseteq Loas
  /\ AllowStronger \in BOOLEAN
  /\ Asserts \in [Idps -> SUBSET (Loas \cup {NoLoa})]
  /\ {MaxLogins, MaxWire} \subseteq Nat
ASSUME NullAssumption ==
  /\ NoFlow \notin Flows /\ NoIdp \notin Idps /\ NoLoa \notin Loas
  /\ NoRelay \notin Relays /\ NoBehavior \notin Behaviors
  /\ NoSettings \notin Settings /\ NoAccount \notin Account
  /\ NoPolicy \notin Policy /\ NoSnapshot \notin Snapshot /\ NoLogin \notin Login
  /\ NoSecond \notin Second /\ NoCookie \notin Data /\ NoAnswer \notin Answer

VARIABLES
  jar,       \* the browser's state cookie
  wire,      \* answers on their way to the browser
  started,   \* the requests accepted so far
  upstream,  \* the AuthnRequests that reached an IdP
  nextId     \* names the next AuthnRequest

vars == <<jar, wire, started, upstream, nextId>>

TypeOK ==
  /\ jar \in Data \cup {NoCookie}
  /\ wire \subseteq Message
  /\ started \subseteq Flows
  /\ upstream \subseteq Login
  /\ nextId \in Nat

----------------------------------------------------------------------------
(* The policy of step-up                                                   *)

(* The first row of a table whose value is presented, and the row of the  *)
(* first presented value that has one.                                     *)
InTableOrder(table, values) ==
  LET hits == {k \in DOMAIN table : table[k].value \in Range(values)}
  IN IF hits = {} THEN NoSettings ELSE table[Min(hits)].settings
InSourceOrder(table, values) ==
  LET hits == {k \in DOMAIN values : \E row \in Rows(table) : row.value = values[k]}
  IN IF hits = {} THEN NoSettings
     ELSE (CHOOSE row \in Rows(table) : row.value = values[Min(hits)]).settings

(* The values an entity's metadata presents, where the request knows it.   *)
Presented(values, entity, known) == IF known THEN values[entity] ELSE <<>>

(* The settings of an SP or IdP, from its entity ID and those values.      *)
Resolve(entity, known, behavior, subject) ==
  LET categories == Presented(Categories, entity, known)
      certifications == Presented(Certifications, entity, known)
      generic == InSourceOrder(ByCategory, categories)
  IN IF ByEntity[entity] # NoSettings THEN ByEntity[entity]
     ELSE IF behavior = "eduid"
     THEN IF generic # NoSettings THEN generic
          ELSE InSourceOrder(ByCertification, certifications)
     ELSE IF subject = "requester" THEN InTableOrder(ByCategory, categories)
     ELSE InTableOrder(ByCertification, certifications)

(* StepUp::request_policy.  On the response path the decorations of the    *)
(* request are gone, and with them what it asked for.                      *)
RequestPolicy(f, onRequest, behavior) ==
  LET original == IF onRequest THEN LoasOf[f] ELSE <<>>
      configured == Resolve(f, onRequest, behavior, "requester")
      loas == IF configured # NoSettings /\ behavior = "eduid"
              THEN configured.requested ELSE original
      mfaOnly == [requested |-> IF MFA \in Range(loas) THEN <<MFA>> ELSE <<>>,
                  extra |-> {}, returned |-> IF MFA \in Range(loas) THEN MFA ELSE NoLoa]
  IN [behavior |-> behavior, original |-> original, loas |-> loas,
      settings |-> IF configured # NoSettings THEN configured ELSE mfaOnly,
      passive |-> onRequest /\ f \in Passive]
(* initial_provider_policy: its decorations come with the response.        *)
ProviderPolicy(idp, p) == Resolve(idp, TRUE, p.behavior, "provider")
WantsMfa(p) == MFA \in Range(p.loas)

Accepts(settings, loa) == loa \in Range(settings.requested) \cup settings.extra

(* The level a trusted first login stands for; NoLoa when it is not enough.*)
Normalized(settings, p, asserted) ==
  IF settings = NoSettings \/ asserted = NoLoa \/ ~ Accepts(settings, asserted)
  THEN NoLoa
  ELSE IF p.behavior = "eduid" \/ settings.returned # NoLoa THEN settings.returned
  ELSE IF p.loas # <<>> THEN p.loas[1] ELSE asserted
Rejected(settings, p, asserted) ==
  /\ p.behavior = "eduid"
  /\ settings # NoSettings /\ settings.returned # NoLoa
  /\ asserted = NoLoa \/ ~ Accepts(settings, asserted)

(* The level a completed second login stands for.                          *)
Completed(p, loa) ==
  LET asked == IF p.original # <<>> THEN p.original ELSE p.loas
  IN IF p.behavior = "eduid" THEN (IF p.loas # <<>> THEN p.loas[1] ELSE loa)
     ELSE IF p.settings.returned # NoLoa THEN p.settings.returned
     ELSE IF asked # <<>> THEN asked[1] ELSE loa

----------------------------------------------------------------------------
(* accr                                                                    *)

(* What the proxy supports of the request: nothing for a request that asks *)
(* for nothing, an error for one that asks only for the rest.              *)
Filtered(f) == Range(LoasOf[f]) \cap Range(Supported)
Unsupported(f) == LoasOf[f] # <<>> /\ Filtered(f) = {}

(* The place of a level in the order from strongest to weakest.            *)
Place(l) == CHOOSE k \in DOMAIN Supported : Supported[k] = l

(* What is forwarded to the IdP: the request, rewritten, or the range down *)
(* to the frontend's minimum.                                              *)
Forwarded(f) ==
  IF Lowest # NoLoa THEN {Supported[k] : k \in 1 .. Place(Lowest)}
  ELSE {IF l \in DOMAIN Rewrite THEN Rewrite[l] ELSE l : l \in Filtered(f)}

(* The level in the words of the service provider.                         *)
Origin(l) == IF l \in Range(Rewrite) THEN CHOOSE o \in DOMAIN Rewrite : Rewrite[o] = l
             ELSE l

(* Mutant: the strongest level asked for, whatever was received.           *)
StrongestFallback(wanted, l) ==
  {Supported[k] : k \in {k \in DOMAIN Supported :
     Supported[k] \in wanted /\ \A j \in 1 .. k - 1 : Supported[j] \notin wanted}}
(* The strongest level asked for that is not stronger than the received.   *)
Fallback(wanted, l) ==
  {Supported[k] : k \in {k \in DOMAIN Supported :
     /\ l \in Range(Supported) /\ k >= Place(l)
     /\ Supported[k] \in wanted
     /\ \A j \in Place(l) .. k - 1 : Supported[j] \notin wanted}}

(* The level the response continues with; none is an error.                *)
Negotiated(wanted, loa) ==
  IF wanted = {} THEN {loa}
  ELSE IF Origin(loa) \in wanted THEN {Origin(loa)}
  ELSE IF AllowStronger THEN Fallback(wanted, Origin(loa)) ELSE {}

----------------------------------------------------------------------------
(* Answers to the browser                                                  *)

Unsealed == IF jar = NoCookie THEN EmptyData ELSE jar

Send(cookie, login, answer) ==
  /\ Cardinality(wire) < MaxWire
  /\ wire' = wire \cup {[cookie |-> cookie, login |-> login, answer |-> answer]}

(* An error page leaves the state as the failing step left it.             *)
Fail(st) == Send(st, NoLogin, NoAnswer) /\ UNCHANGED nextId

(* History: an error after a response of the IdP was accepted.             *)
Dropped(st) == [st EXCEPT !.again = TRUE]

Redirect(st, l) ==
  /\ nextId < MaxLogins
  /\ nextId' = nextId + 1
  /\ Send(st, l, NoAnswer)

----------------------------------------------------------------------------
(* The request path                                                        *)

(* Mutant: a RelayState is kept as long as the namespace has one.          *)
StoredOnce(st, f) ==
  [st EXCEPT !.pending = f, !.again = FALSE,
             !.relay = IF @ = NoRelay THEN RelayOf[f] ELSE @]
(* handle_sso: a request without RelayState leaves the one that is there.  *)
Stored(st, f) ==
  [st EXCEPT !.pending = f, !.again = FALSE,
             !.relay = IF RelayOf[f] = NoRelay THEN @ ELSE RelayOf[f]]

(* The levels trusted for the IdP override accr's for a request that wants *)
(* MFA.                                                                    *)
Demanded(st, idp) ==
  LET trusted == Resolve(idp, TRUE, st.handoff, "provider")
  IN IF st.handoff # NoBehavior /\ trusted # NoSettings
     THEN Range(trusted.requested) ELSE st.target

(* build_authn_redirect: what start_auth stored is consumed.               *)
Build(st, idp) ==
  LET l == [id |-> nextId, at |-> idp, second |-> FALSE, subject |-> NoIdentifier,
            loas |-> Demanded(st, idp)]
  IN \/ Fail(st)
     \/ Redirect([st EXCEPT !.handoff = NoBehavior, !.target = {}, !.sent = l], l)

(* start_auth: without an IdP the browser goes to the discovery service,   *)
(* or gets an error when the request is passive; the state is the same.    *)
StartAuth(st, f, handoff, target) ==
  LET asked == [st EXCEPT !.handoff = handoff, !.target = target]
  IN \/ Hinted[f] # NoIdp /\ Build(asked, Hinted[f])
     \/ Hinted[f] = NoIdp /\ Fail(asked)

(* Mutant: accr keeps the list that an earlier request left.               *)
SaveWantedAlways(st, f) == [st EXCEPT !.wanted = IF @ = {} THEN Filtered(f) ELSE @]
(* accr saves what it will judge the response by.                          *)
SaveWanted(st, f) == [st EXCEPT !.wanted = Filtered(f)]

(* An AuthnRequest the frontend accepts.  accr may refuse it after the     *)
(* frontend and stepup stored their part.                                  *)
Sso(f, mode) ==
  LET p == RequestPolicy(f, TRUE, mode)
      st == [Stored(Unsealed, f) EXCEPT !.policy = p]
  IN /\ f \notin started
     /\ started' = started \cup {f}
     /\ \/ Unsupported(f) /\ Fail(st)
        \/ /\ ~ Unsupported(f)
           /\ StartAuth(SaveWanted(st, f), f,
                        IF WantsMfa(p) THEN mode ELSE NoBehavior, Forwarded(f))
     /\ UNCHANGED <<jar, upstream>>

(* The discovery service sends the browser back with the user's choice,    *)
(* the browser's history may do so again.                                  *)
Disco(idp) ==
  /\ Build(Unsealed, idp)
  /\ UNCHANGED <<jar, started, upstream>>

(* Metadata, and every request refused before it changes the state: an     *)
(* unknown SP, a NameID format, a response that is invalid or unsuccessful.*)
Page ==
  /\ Fail(Unsealed)
  /\ UNCHANGED <<jar, started, upstream>>

----------------------------------------------------------------------------
(* The response path                                                       *)

(* handle_authn_response: the request answered is the pending one.  The    *)
(* frontend may fail to render it.                                         *)
Render(st, r) ==
  \/ Fail(Dropped(st))
  \/ /\ st.pending # NoFlow
     /\ Send(NoCookie, NoLogin,
             [flow |-> st.pending, relay |-> st.relay, response |-> r, again |-> st.again,
              loa |-> IF r.loa = NoLoa THEN DefaultAcr ELSE r.loa])
     /\ UNCHANGED nextId

AccrResponse(st, r) ==
  LET outcomes == Negotiated(st.wanted, r.loa)
  IN \/ outcomes = {} /\ Fail(Dropped(st))
     \/ \E loa \in outcomes : Render([st EXCEPT !.wanted = {}], [r EXCEPT !.loa = loa])

(* Clears stepup's namespace.                                              *)
Forgotten(st) == [st EXCEPT !.policy = NoPolicy, !.snapshot = NoSnapshot]

(* The response waits in the state while the linked account logs in.  The  *)
(* step-up provider may be unknown, after the response was stored.         *)
Suspend(st, r, p) ==
  LET account == AccountOf[r.user]
      suspended == [st EXCEPT !.snapshot =
                      [response |-> r, account |-> account, policy |-> p]]
      l == [id |-> nextId, at |-> account.idp, second |-> TRUE,
            subject |-> account.identifier, loas |-> Range(p.settings.requested)]
  IN \/ Fail(Dropped(suspended))
     \/ Redirect([suspended EXCEPT !.embedded = l], l)

(* Mutant: the IdP's word is enough for MFA.                               *)
EnoughWhenAsserted(settings, p, asserted) ==
  IF asserted \in Range(p.loas) THEN asserted ELSE Normalized(settings, p, asserted)
Enough(settings, p, asserted) == Normalized(settings, p, asserted)

(* StepUp::process_response_action: the saved policy judges the response,  *)
(* or, when none was saved, one derived from the configuration alone.  A   *)
(* second login fails when there is no account for it, when the request is *)
(* passive, and when the response is too large for the state.              *)
StepUpResponse(st, r, mode) ==
  LET p == IF st.policy = NoPolicy THEN RequestPolicy(st.pending, FALSE, mode)
           ELSE st.policy
      settings == ProviderPolicy(r.idp, p)
      level == Enough(settings, p, r.asserted)
  IN \/ ~ WantsMfa(p) /\ AccrResponse(Forgotten(st), r)
     \/ WantsMfa(p) /\ level # NoLoa /\ AccrResponse(Forgotten(st), [r EXCEPT !.loa = level])
     \/ /\ WantsMfa(p) /\ level = NoLoa /\ Rejected(settings, p, r.asserted)
        /\ Fail(Dropped(Forgotten(st)))
     \/ /\ WantsMfa(p) /\ level = NoLoa /\ ~ Rejected(settings, p, r.asserted)
        /\ \/ Fail(Dropped(st))
           \/ ~ p.passive /\ AccountOf[r.user] # NoAccount /\ Suspend(st, r, p)

(* A successful response that passes validation answers the AuthnRequest   *)
(* the namespace remembers.                                                *)
Validated(expected, l) == expected = l

(* The ACS of the backend: the login the state waits for was answered by   *)
(* its IdP, which logged in user u and asserts loa.  Success uses up the   *)
(* backend's namespace; ScimAttributes may fail then.                      *)
Acs(l, u, loa, mode) ==
  LET st == [Unsealed EXCEPT !.sent = NoLogin, !.handoff = NoBehavior, !.target = {}]
      r == [user |-> u, idp |-> l.at, asserted |-> loa, loa |-> loa, second |-> NoSecond]
  IN /\ Validated(Unsealed.sent, l)
     /\ \/ Fail(Dropped(st))
        \/ st.pending # NoFlow /\ StepUpResponse(st, r, mode)
     /\ UNCHANGED <<jar, started, upstream>>

(* Mutant: only provider and level are checked.                            *)
SatisfiesLevel(snap, s) ==
  s.at = snap.account.idp /\ s.loa \in Range(snap.policy.settings.requested)
(* finish_stepup: the provider, level and identifier of the linked account.*)
Satisfies(snap, s) ==
  /\ s.at = snap.account.idp
  /\ s.loa \in Range(snap.policy.settings.requested)
  /\ s.identifier = snap.account.identifier

(* The suspended response, with the level the second login stands for.     *)
Finished(snap, s) ==
  [snap.response EXCEPT !.loa = Completed(snap.policy, s.loa), !.second = s]

(* The ACS of stepup.  A verified response uses up its namespace and the   *)
(* embedded backend's, whatever becomes of it; then the suspended response *)
(* goes on behind stepup.                                                  *)
StepUpAcs(l, i, loa) ==
  LET snap == Unsealed.snapshot
      st == [Forgotten(Unsealed) EXCEPT !.embedded = NoLogin]
      s == [at |-> l.at, identifier |-> i, loa |-> loa]
  IN /\ Validated(Unsealed.embedded, l)
     /\ snap # NoSnapshot
     /\ \/ ~ Satisfies(snap, s) /\ Fail(Dropped(st))
        \/ Satisfies(snap, s) /\ AccrResponse(st, Finished(snap, s))
     /\ UNCHANGED <<jar, started, upstream>>

----------------------------------------------------------------------------
(* The browser                                                             *)

Deliver(m) ==
  /\ wire' = wire \ {m}
  /\ jar' = m.cookie
  /\ upstream' = IF m.login = NoLogin THEN upstream ELSE upstream \cup {m.login}
  /\ UNCHANGED <<started, nextId>>
Lose(m) ==
  /\ wire' = wire \ {m}
  /\ UNCHANGED <<jar, started, upstream, nextId>>

Init ==
  /\ jar = NoCookie /\ wire = {} /\ started = {} /\ upstream = {}
  /\ nextId = 0

Next ==
  \/ \E f \in Flows, mode \in Behaviors : Sso(f, mode)
  \/ \E idp \in Idps : Disco(idp)
  \/ Page
  \/ \E l \in upstream, u \in Users, mode \in Behaviors :
       ~ l.second /\ \E loa \in Asserts[l.at] : Acs(l, u, loa, mode)
  \/ \E l \in upstream, i \in Identifiers :
       l.second /\ \E loa \in Asserts[l.at] \ {NoLoa} : StepUpAcs(l, i, loa)
  \/ \E m \in wire : Deliver(m)
  \/ \E m \in wire : Lose(m)

Spec == Init /\ [][Next]_vars

----------------------------------------------------------------------------
(* Properties                                                              *)

(* The Responses being posted to service providers.                        *)
answers == {m.answer : m \in wire} \ {NoAnswer}

(* A first login whose IdP the configuration trusts for the level it       *)
(* asserted, or a second one, in whatever mode it was judged.              *)
Strong(r) ==
  \/ r.second # NoSecond
  \/ \E mode \in Behaviors :
       LET settings == Resolve(r.idp, TRUE, mode, "provider")
       IN settings # NoSettings /\ r.asserted # NoLoa /\ Accepts(settings, r.asserted)

DemandsMfa(f) == \A mode \in Behaviors : WantsMfa(RequestPolicy(f, TRUE, mode))

AtLeast(x, y) ==
  x = y \/ ({x, y} \subseteq Range(Supported) /\ Place(x) <= Place(y))

MfaHolds(a) == ~ a.again /\ DemandsMfa(a.flow) => Strong(a.response)
LevelHolds(a) ==
  \/ Strong(a.response)
  \/ AtLeast(a.response.asserted, a.loa) \/ AtLeast(Origin(a.response.asserted), a.loa)
  \/ a.response.asserted = NoLoa /\ a.loa = DefaultAcr
AskedHolds(a) == ~ a.again /\ Filtered(a.flow) # {} => a.loa \in Filtered(a.flow)
SameUser(r) ==
  r.second # NoSecond =>
    AccountOf[r.user] = [idp |-> r.second.at, identifier |-> r.second.identifier]
RelayHolds(f, relay) == RelayOf[f] # NoRelay => relay = RelayOf[f]

(* A request for MFA is answered only from a login trusted for it or       *)
(* completed by a second one, although another request of the browser may  *)
(* have overwritten the policy, an older login may answer a request that   *)
(* is still at the discovery service, and replicas may differ in mode:     *)
(* provided no login for the request failed half-way before.               *)
MfaHonoured == \A a \in answers : MfaHolds(a)

(* What stepup.md promises without that proviso: an IdP that asserts MFA   *)
(* and is not trusted for it does not do for a request that demands MFA.   *)
RawMfaNotSufficient ==
  \A a \in answers : DemandsMfa(a.flow) /\ a.loa = MFA => Strong(a.response)

(* The level asserted to the service provider is never stronger than what  *)
(* the IdP asserted, in its words or the provider's, unless step-up vouches*)
(* for it; a request judged by the list of another is no exception.        *)
NeverInflated == \A a \in answers : LevelHolds(a)

(* A provider that asked for levels the proxy supports is answered with    *)
(* one it asked for, not with one that another tab's request asked for,    *)
(* under the same proviso.                                                 *)
LoaWasAsked == \A a \in answers : AskedHolds(a)

(* The second login behind an answer is one of the linked account of the   *)
(* user who logged in first, although the waiting response, the policy and *)
(* the login that is expected may come from different tabs and users.      *)
StepUpOfSameUser == \A a \in answers : SameUser(a.response)

(* A request gets its own RelayState back.  (One without may be given that *)
(* of an earlier request of the browser: handle_sso does not remove it.)   *)
RelayReturned == \A a \in answers : RelayHolds(a.flow, a.relay)

----------------------------------------------------------------------------
(* The inductive invariant                                                 *)

(* The policy that the pending request was given, and a waiting response   *)
(* of the linked account's user.                                           *)
OwnPolicy(d) ==
  d.pending # NoFlow /\ ~ d.again =>
    \E mode \in Behaviors : d.policy = RequestPolicy(d.pending, TRUE, mode)
OwnAccount(d) ==
  d.snapshot # NoSnapshot =>
    /\ d.snapshot.account = AccountOf[d.snapshot.response.user]
    /\ d.snapshot.response.second = NoSecond
(* The frontend's and accr's parts belong to the pending request as well,  *)
(* also where a response has already used up step-up's.                    *)
OwnRest(d) ==
  d.pending # NoFlow =>
    /\ RelayHolds(d.pending, d.relay)
    /\ ~ d.again /\ Filtered(d.pending) # {} => d.wanted = Filtered(d.pending)
GoodData(d) == OwnPolicy(d) /\ OwnAccount(d) /\ OwnRest(d)

GoodAnswer(a) ==
  MfaHolds(a) /\ LevelHolds(a) /\ AskedHolds(a) /\ SameUser(a.response)
  /\ RelayHolds(a.flow, a.relay)
GoodMessage(m) ==
  /\ m.cookie # NoCookie => GoodData(m.cookie)
  /\ m.answer # NoAnswer => GoodAnswer(m.answer)

(* In every cookie, the browser's or one on its way, the namespaces agree  *)
(* as far as the pending request has not failed; from it each answer is    *)
(* made.                                                                   *)
IInv ==
  /\ TypeOK
  /\ jar # NoCookie => GoodData(jar)
  /\ \A m \in wire : GoodMessage(m)
=============================================================================
