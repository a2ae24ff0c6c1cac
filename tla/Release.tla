------------------------------ MODULE Release ------------------------------
(***************************************************************************)
(* What the proxy releases to whom: requests of several requesters in one  *)
(* browser, the responses of their providers, the response chain with a    *)
(* second login in its middle, and the answers the frontends render.       *)
(*                                                                         *)
(* One HTTP request is one action.  Callbacks lost, repeated or reordered, *)
(* and the choice of the backend, are the subject of ProxyFlow.            *)
(***************************************************************************)
EXTENDS Translation, FiniteSets

CONSTANTS
  Logins,           \* downstream requests
  RequestOf,        \* what each asks: frontend, requester, format, backend
  Responses,        \* per backend, what its providers may assert of which user
  Chains,           \* the response chains an operator may configure
  Authoritative,    \* attributes of the map no configured service writes
  Assurances,       \* assurances a second login may assert, <<>> for none
  Clients,          \* registered OIDC clients
  MaxRegistrations, \* bound: changes of a client's registration
  MaxAnswers,       \* bound: answers rendered
  NoLogin, NoFrontend, NoSuspension

ASSUME ReleaseAssumption ==
  /\ MaxRegistrations \in Nat /\ MaxAnswers \in Nat \ {0}
  /\ {NoLogin, NoValue} \cap Logins = {} /\ NoFrontend \notin DOMAIN Frontends
  /\ \A f \in DOMAIN Frontends :
       \/ Frontends[f].protocol = "oidc"
       \/ /\ Frontends[f].protocol = "saml"
          /\ Frontends[f].name_id_formats # <<>> /\ IsSequence(Frontends[f].name_id_formats)
  /\ \A l \in Logins : RequestOf[l].frontend \in DOMAIN Frontends
  /\ \A c \in Chains : IsSequence(c) /\ \A i \in DOMAIN c : Configured(c[i])

(* A response as its parser hands it over.                                 *)
WellFormed(b, response) ==
  IF Backends[b].protocol = "saml"
  THEN /\ IsSequence(response)
       /\ \A i \in DOMAIN response :
            /\ IsSequence(response[i].attributes)
            /\ \A j \in DOMAIN response[i].attributes :
                 IsSequence(response[i].attributes[j].values)
  ELSE \A claim \in DOMAIN response.extra : IsSequence(response.extra[claim])
ASSUME ResponseAssumption ==
  \A b \in DOMAIN Backends : \A r \in Responses[b] : WellFormed(b, r.response)

ASSUME AuthoritativeAssumption ==
  /\ Authoritative \subseteq DOMAIN Map
  /\ \A c \in Chains : \A i \in DOMAIN c : \A n \in Authoritative : ~Writes(c[i], n)

VARIABLES
  chain,         \* the configured response chain
  session,       \* the browser's cookie
  registration,  \* the version of each client's registration
  minted,        \* fresh transient identifiers so far
  answers        \* history: the answers rendered

vars == <<chain, session, registration, minted, answers>>

(* stash: the pending request of each frontend; pending: the login each    *)
(* backend waits for; publisher is history: whose format `format` is.      *)
EmptySession == [
  frontend |-> NoFrontend, requester |-> "", format |-> NoValue, publisher |-> NoLogin,
  stash |-> [f \in DOMAIN Frontends |-> NoLogin],
  pending |-> [b \in DOMAIN Backends |-> NoLogin],
  suspended |-> NoSuspension]

TypeOK ==
  /\ chain \in Chains
  /\ DOMAIN session = DOMAIN EmptySession
  /\ session.frontend \in DOMAIN Frontends \cup {NoFrontend}
  /\ {session.publisher} \cup Range(session.pending) \subseteq Logins \cup {NoLogin}
  /\ \A f \in DOMAIN Frontends : session.stash[f] # NoLogin =>
       /\ session.stash[f].login \in Logins
       /\ Frontends[f].protocol = "saml" =>
            session.stash[f].format \in Range(Frontends[f].name_id_formats)
  /\ registration \in [Clients -> 0 .. MaxRegistrations]
  /\ minted \in Nat
  /\ Cardinality(answers) <= MaxAnswers

----------------------------------------------------------------------------
(* Requests                                                                *)

(* No or an unspecified format is the frontend's first; one it does not    *)
(* offer is none, except for a mutant.                                     *)
AnyFormat(frontend, requested) ==
  IF requested \in {NoValue, "unspecified"} THEN Head(frontend.name_id_formats) ELSE requested
OfferedFormat(frontend, requested) ==
  CASE requested \in {NoValue, "unspecified"} -> Head(frontend.name_id_formats)
    [] requested \in Range(frontend.name_id_formats) -> requested
    [] OTHER -> NoValue

(* Proxy::dispatch_frontend, and the login the backend then waits for.     *)
Started(st, l) ==
  LET q == RequestOf[l]
  IN [st EXCEPT !.frontend = q.frontend, !.requester = q.requester,
                !.pending[q.backend] = l]

(* The pending request of a SAML frontend; the format is also published    *)
(* for the services of the response chain.                                 *)
SamlStashed(st, l, format) ==
  [st EXCEPT !.stash[RequestOf[l].frontend] = [login |-> l, format |-> format],
             !.format = format, !.publisher = l]
OidcStashed(st, l) ==
  [st EXCEPT !.stash[RequestOf[l].frontend] =
     [login |-> l, client |-> registration[RequestOf[l].requester]]]

(* A format the frontend does not offer is answered with a SAML error;     *)
(* nothing is stored.  Before it, a mutant that publishes what was asked.  *)
RejectAfterPublishing(l) ==
  session' = [session EXCEPT !.format = RequestOf[l].format]
Reject(l) == UNCHANGED session

SamlRequest(l) ==
  LET q == RequestOf[l]
      format == OfferedFormat(Frontends[q.frontend], q.format)
  IN /\ Frontends[q.frontend].protocol = "saml"
     /\ \/ format = NoValue /\ Reject(l)
        \/ format # NoValue /\ session' = Started(SamlStashed(session, l, format), l)
     /\ UNCHANGED <<chain, registration, minted, answers>>

OidcRequest(l) ==
  /\ Frontends[RequestOf[l].frontend].protocol = "oidc"
  /\ session' = Started(OidcStashed(session, l), l)
  /\ UNCHANGED <<chain, registration, minted, answers>>

(* External: the federation or an operator changes a registration.         *)
Reregister(client) ==
  /\ registration[client] < MaxRegistrations
  /\ registration' = [registration EXCEPT ![client] = @ + 1]
  /\ UNCHANGED <<chain, session, minted, answers>>

----------------------------------------------------------------------------
(* Responses                                                               *)

Fresh == <<"_" \o ToString(minted + 1)>>
Answer(f, stash, who, d, format, name_id, released) ==
  [login |-> stash.login, frontend |-> f, who |-> who, data |-> d,
   format |-> format, name_id |-> name_id, released |-> released]

(* The SAML frontend's answer to its pending request, which ends the       *)
(* session; without a subject it fails and the session stays.              *)
RenderSaml(st, f, who, d) ==
  LET stash == st.stash[f]
      sp == RequestOf[stash.login].requester
      kept == [d EXCEPT !.attributes = Restricted(Frontends[f], sp, @)]
      name_id == NameIdValue(kept, stash.format, Fresh)
  IN IF name_id = NoValue
     THEN session' = st /\ UNCHANGED <<minted, answers>>
     ELSE /\ session' = EmptySession
          /\ minted' = IF stash.format = "transient" THEN minted + 1 ELSE minted
          /\ answers' = answers \cup
               {Answer(f, stash, who, d, stash.format, name_id,
                       SamlRelease(Frontends[f], sp, kept.attributes))}

(* The OIDC frontend's: a code, or the error redirect of a client whose    *)
(* registration changed; both end the session.                             *)
RenderOidc(st, f, who, d) ==
  LET stash == st.stash[f]
      granted == /\ stash.client = registration[RequestOf[stash.login].requester]
                 /\ DownstreamSubject(d) # NoValue
  IN /\ session' = EmptySession
     /\ answers' = IF ~granted THEN answers
                   ELSE answers \cup {Answer(f, stash, who, d, "sub", DownstreamSubject(d),
                                             OidcRelease(d))}
     /\ UNCHANGED minted

Render(st, f, who, d) ==
  CASE st.stash[f] = NoLogin -> session' = st /\ UNCHANGED <<minted, answers>>
    [] st.stash[f] # NoLogin /\ Frontends[f].protocol = "saml" -> RenderSaml(st, f, who, d)
    [] st.stash[f] # NoLogin /\ Frontends[f].protocol = "oidc" -> RenderOidc(st, f, who, d)

(* Where a chain entered at `from` may stop for a second login.            *)
Stops(from) ==
  {i \in from .. Len(chain) : chain[i].kind = "stepup"} \cup {Len(chain) + 1}

(* Proxy::finish_response: the services from..stop-1, then the suspension  *)
(* for a second login or the frontend.  An error leaves the state.         *)
FinishResponse(st, f, who, d, from) ==
  \E stop \in Stops(from) :
    LET ctx == [frontend |-> f, format |-> st.format, publisher |-> st.publisher]
        out == ProcessedBy(chain, from, stop - 1, d, ctx)
        suspension == [frontend |-> f, who |-> who, data |-> out, next |-> stop + 1]
    IN CASE Ended(out) -> session' = st /\ UNCHANGED <<minted, answers>>
         [] ~Ended(out) /\ stop <= Len(chain) ->
              /\ session' = [st EXCEPT !.suspended = suspension]
              /\ UNCHANGED <<minted, answers>>
         [] OTHER -> Render(st, f, who, out)

(* History: who answered, and what.                                        *)
Who(b, r) == [user |-> r.user, response |-> r.response, backend |-> b]

(* A provider's response to the login its backend waits for.               *)
Respond(b, r) ==
  LET d == Response(b, r.response, session.requester)
  IN /\ session.pending[b] # NoLogin
     /\ Cardinality(answers) < MaxAnswers
     /\ IF d = Failed THEN UNCHANGED <<session, minted, answers>>
        ELSE FinishResponse([session EXCEPT !.pending[b] = NoLogin], session.frontend,
                            Who(b, r), d, 1)
     /\ UNCHANGED <<chain, registration>>

(* merge_assurances: eduID's step-up repeats what is there, the other not. *)
MergedAssurances(s, target, source) ==
  IF s.behavior = "eduid" THEN target \o source
  ELSE target \o Distinct(SelectSeq(source, LAMBDA v : v \notin Range(target)))
Assured(s, d, source) ==
  IF source = <<>> THEN d
  ELSE [d EXCEPT !.attributes =
          Set(@, s.assurance, MergedAssurances(s, Values(@, s.assurance), source))]

(* The second login succeeds: the suspended response goes on, with what    *)
(* its provider assures added, at the frontend it was suspended for.       *)
ResumeResponse ==
  LET s == session.suspended
  IN /\ s # NoSuspension
     /\ Cardinality(answers) < MaxAnswers
     /\ \E source \in Assurances :
          FinishResponse([session EXCEPT !.suspended = NoSuspension], s.frontend, s.who,
                         Assured(chain[s.next - 1], s.data, source), s.next)
     /\ UNCHANGED <<chain, registration>>

----------------------------------------------------------------------------
(* A chain with a service whose configuration is refused never serves.     *)
Init ==
  /\ chain \in {c \in Chains : \A i \in DOMAIN c : Built(c[i])}
  /\ session = EmptySession
  /\ registration = [client \in Clients |-> 0]
  /\ minted = 0
  /\ answers = {}

Next ==
  \/ \E l \in Logins : SamlRequest(l) \/ OidcRequest(l)
  \/ \E client \in Clients : Reregister(client)
  \/ \E b \in DOMAIN Backends : \E r \in Responses[b] : Respond(b, r)
  \/ ResumeResponse

Spec == Init /\ [][Next]_vars

----------------------------------------------------------------------------
(* Properties                                                              *)

Kinds == {chain[i].kind : i \in DOMAIN chain}
ShapedFor(a) == a.format = "persistent" /\ a.data.shaped_by = a.login

(* Behind pairwiseid with the v1 framing and nameid, two answers carry one *)
(* persistent NameID exactly if they are about one user for one requester: *)
(* requesters cannot join their records, users are not confused, and the   *)
(* identifier is stable over sessions.  (Answers whose subject a format    *)
(* published by another login shaped are excepted, see NameIdShaped.)      *)
Unlinkable ==
  \A a, b \in answers :
    "pairwiseid" \in Kinds /\ ShapedFor(a) /\ ShapedFor(b) =>
      (a.name_id = b.name_id <=> a.who.user = b.who.user /\ a.data.requester = b.data.requester)

(* A persistent NameID is the pairwise identifier and never what the       *)
(* provider called the user, whatever other requests, refused ones too,    *)
(* were made in the browser since.  Excepted is an answer whose format was *)
(* replaced by another accepted request: the published format is one per   *)
(* cookie, and a response suspended for a second login finds the newest.   *)
PairwiseSubject(d) == <<Head(First(d.attributes, "pairwise-id"))>>
NameIdShaped ==
  \A a \in answers :
    "nameid" \in Kinds /\ ShapedFor(a) => a.name_id = PairwiseSubject(a.data)

(* What a provider asserts about an internal attribute: the values under   *)
(* the external names the map gives it.                                    *)
AssertedBy(who, n) ==
  LET protocol == IF Backends[who.backend].protocol = "saml" THEN "saml" ELSE "openid"
      keys == IF n \in Mapped(protocol) THEN Range(Keys(Map[n][protocol])) ELSE {}
      attributes == ConsumedAttributes(Backends[who.backend], who.response)
  IN IF protocol = "saml"
     THEN UNION {Range(attributes[i].values) : i \in {j \in DOMAIN attributes :
                   keys \cap {attributes[j].name, attributes[j].friendly_name} # {}}}
     ELSE UNION {Range(Values(who.response.extra, k)) : k \in keys}

(* Whatever a provider calls the attributes the map does not know, in any  *)
(* case, an attribute of the map that no service writes holds only what    *)
(* came under its own external names.                                      *)
NothingForged ==
  \A a \in answers : \A n \in Authoritative \cap DOMAIN a.data.attributes :
    Range(a.data.attributes[n]) \subseteq AssertedBy(a.who, n)

(* Whether one of the first k services filters a value out of a response.  *)
Withheld(c, k, d, n, v) ==
  \E j \in 1 .. k : c[j].kind = "filter_attribute_values" /\ ~Kept(c[j].filters, d, n, v)

AuthorizedBy(c, i, who, d) ==
  LET rule == Recipe(c[i].attribute_allow, d.requester, d.issuer)
  IN c[i].kind = "attribute_authorization" /\ d.requester \in DOMAIN c[i].attribute_allow =>
       \A n \in DOMAIN rule :
         \E v \in AssertedBy(who, n) \cap rule[n] : ~Withheld(c, i - 1, d, n, v)

(* A requester with an allow rule of its own gets answers only about users *)
(* whose provider asserted a value the rule names and no filter before it  *)
(* withholds: a missing attribute, an emptied one, a more generous rule    *)
(* for everybody and a second login in the middle of the chain change      *)
(* nothing.                                                                *)
AuthorizationHolds ==
  \A a \in answers : \A i \in DOMAIN chain : AuthorizedBy(chain, i, a.who, a.data)

(* The authenticating authority released to a client is the provider that  *)
(* answered, under whichever claim the map names, even if attributes of    *)
(* providers or services are mapped to the same claim.                     *)
AuthorityTrue ==
  \A a \in answers : \A c \in a.released :
    /\ Frontends[a.frontend].protocol = "oidc"
    /\ \/ c.name = Authority
       \/ /\ Authority \in Mapped("openid") /\ Map[Authority]["openid"].names # <<>>
          /\ c.name = Canonical("openid", Authority)
    => c.values = <<<<a.data.issuer>>>>

(* Two users never share a primary identifier, of whichever providers and  *)
(* candidates their components are.                                        *)
IdentifiersDistinct ==
  \A a, b \in answers : \A i \in DOMAIN chain :
    chain[i].kind = "primary_identifier" =>
      LET Identifier(x) == First(x.data.attributes, chain[i].primary_identifier)
      IN Identifier(a) # NoValue /\ Identifier(a) = Identifier(b) => a.who.user = b.who.user

----------------------------------------------------------------------------
(* Chains for which the properties are meant                               *)

(* The allow rules are about attributes of the map that no service before  *)
(* writes, and an absent one is not let through.                           *)
RulesOfAsserted ==
  \A c \in Chains : \A i \in DOMAIN c : c[i].kind = "attribute_authorization" =>
    /\ c[i].force_attributes_presence_on_allow
    /\ \A r \in DOMAIN c[i].attribute_allow : \A issuer \in DOMAIN c[i].attribute_allow[r] :
         \A n \in DOMAIN c[i].attribute_allow[r][issuer] :
           n \in DOMAIN Map /\ \A j \in 1 .. i - 1 : ~Writes(c[j], n)

(* After nameid, what is left to do is a second login, logging, or a       *)
(* filter that passes the pairwise identifier to every SAML requester.     *)
RequestersAt(f) == {RequestOf[l].requester : l \in {m \in Logins : RequestOf[m].frontend = f}}
HarmlessAfter(s) ==
  \/ s.kind \in {"nameid", "custom_logging"}
  \/ s.kind = "stepup" /\ s.assurance # "pairwise-id"
  \/ s.kind = "filter_attributes" /\ \A f \in DOMAIN Frontends :
       Frontends[f].protocol = "saml" =>
         \A requester \in RequestersAt(f) : Passes(s, requester, "pairwise-id")
NameIdLast ==
  \A c \in Chains : \A i \in DOMAIN c : \A j \in i + 1 .. Len(c) :
    c[i].kind = "nameid" => HarmlessAfter(c[j])

(* pairwiseid reads what the provider asserted, and no service after it    *)
(* writes what it made.                                                    *)
PairwiseAlone ==
  /\ "subject-id" \in DOMAIN Map
  /\ \A c \in Chains : \A i \in DOMAIN c : c[i].kind = "pairwiseid" =>
       /\ \A j \in 1 .. i - 1 : ~Writes(c[j], "subject-id")
       /\ \A j \in i + 1 .. Len(c) : ~Writes(c[j], "pairwise-id")

(* A user has one subject-id, and no other user has it.                    *)
Sources == UNION {{Who(b, r) : r \in Responses[b]} : b \in DOMAIN Backends}
SubjectsPersonal ==
  \A w, x \in Sources :
    \A v \in AssertedBy(w, "subject-id") : \A u \in AssertedBy(x, "subject-id") :
      v = u <=> w.user = x.user

(* Digests of different inputs differ, and the inputs of different         *)
(* requesters and subjects do.                                             *)
DigestsApart ==
  LET subjects == UNION {AssertedBy(w, "subject-id") : w \in Sources}
      requesters == {RequestOf[l].requester : l \in Logins}
  IN \A c \in Chains : \A i \in DOMAIN c : c[i].kind = "pairwiseid" =>
       \A v, u \in subjects : \A q, r \in requesters :
         Digest("hmac", PairwiseInput(c[i], q, v), c[i].pairwise_salt)
             = Digest("hmac", PairwiseInput(c[i], r, u), c[i].pairwise_salt)
           => q = r /\ v = u

(* What a backend makes of a source's response, where it accepts it.       *)
Received(who) == Response(who.backend, who.response, NoValue)
Accepted == {w \in Sources : \E l \in Logins :
  Response(w.backend, w.response, RequestOf[l].requester) # Failed}

(* The services that may replace the subject of a response.                *)
SubjectServices == {"nameid", "hasher", "primary_identifier", "legacy_eptid"}

(* primary_identifier reads what the provider asserted, and nothing else   *)
(* makes an attribute of the name it writes.                               *)
Candidates(s) == UNION {Range(list) : list \in CandidateLists(s)}
IdentifierAlone ==
  \A c \in Chains : \A i \in DOMAIN c : c[i].kind = "primary_identifier" =>
    /\ \A j \in DOMAIN c \ {i} : ~Writes(c[j], c[i].primary_identifier)
    /\ \A w \in Accepted : c[i].primary_identifier \notin DOMAIN Received(w).attributes
    /\ \A p \in Candidates(c[i]) : \A n \in Range(p.attribute_names) :
         IF n = "name_id" THEN \A j \in 1 .. i - 1 : c[j].kind \notin SubjectServices
         ELSE n \in DOMAIN Map /\ \A j \in 1 .. i - 1 : ~Writes(c[j], n)

(* Of a source's response, what a candidate may read: of each attribute    *)
(* one value or none, and the subject; and the components it may make.     *)
Excerpts(p, who) ==
  LET names == Range(p.attribute_names)
      values == UNION {AssertedBy(who, n) : n \in names}
  IN {[Received(who) EXCEPT !.attributes = a] :
        a \in {f \in [names -> {<<>>} \cup {<<v>> : v \in values}] :
                \A n \in names : Range(f[n]) \subseteq AssertedBy(who, n)}}
Composed(p, who) == {Components(p, e) : e \in Excerpts(p, who)} \ {NoValue, <<>>}
AllComposed(s) ==
  UNION {Composed(p, w) : p \in Candidates(s), w \in Accepted}

(* No two users have the same components, for whichever candidates.        *)
ComponentsPersonal ==
  \A c \in Chains : \A i \in DOMAIN c : c[i].kind = "primary_identifier" =>
    \A w, x \in Accepted : w.user # x.user =>
      \A p, q \in Candidates(c[i]) : Composed(p, w) \cap Composed(q, x) = {}

(* Framed components that are equal have equal components.                 *)
FramesApart ==
  \A c \in Chains : \A i \in DOMAIN c : c[i].kind = "primary_identifier" =>
    \A vs, us \in AllComposed(c[i]) : Framed(vs) = Framed(us) => vs = us

----------------------------------------------------------------------------
(* The inductive invariant                                                 *)

(* Of an attribute that none of the first k services writes, there are     *)
(* only values that the provider asserted and no filter withholds.         *)
Accounted(c, who, d, k) ==
  \A n \in DOMAIN Map \cap DOMAIN d.attributes : (\A j \in 1 .. k : ~Writes(c[j], n)) =>
    /\ IsSequence(d.attributes[n])
    /\ \A v \in Range(d.attributes[n]) : v \in AssertedBy(who, n) /\ ~Withheld(c, k, d, n, v)

(* The format a login's SAML frontend stored and published.                *)
FormatOf(l) == OfferedFormat(Frontends[RequestOf[l].frontend], RequestOf[l].format)
Shaped(c, f, d, k) ==
  Frontends[f].protocol = "saml" /\ d.shaped_by \in Logins =>
    /\ \E i \in 1 .. k : c[i].kind = "nameid"
    /\ FormatOf(d.shaped_by) = "persistent" =>
         First(d.attributes, "pairwise-id") # NoValue /\ d.subject_id = PairwiseSubject(d)

(* Behind pairwiseid, a pairwise identifier is this requester's, for a     *)
(* subject-id that the provider asserted.                                  *)
Paired(c, who, d, k) ==
  \A i \in 1 .. k : c[i].kind = "pairwiseid" /\ "pairwise-id" \in DOMAIN d.attributes =>
    /\ IsSequence(d.attributes["pairwise-id"])
    /\ \A v \in Range(d.attributes["pairwise-id"]) :
         \E subject \in AssertedBy(who, "subject-id") :
           Head(v) = Head(PairwiseDigest(c[i], d.requester, subject))

(* The provider of a response never changes, its subject does not before a *)
(* service that may replace it, and an attribute it did not come with was  *)
(* written by a service.                                                   *)
Originates(c, who, d, k) ==
  LET r == Received(who)
  IN /\ who \in Accepted /\ d.issuer = r.issuer
     /\ (\A j \in 1 .. k : c[j].kind \notin SubjectServices) =>
          d.subject_id = r.subject_id /\ d.subject_type = r.subject_type
     /\ \A n \in DOMAIN d.attributes \ DOMAIN r.attributes : \E j \in 1 .. k : Writes(c[j], n)

(* Behind primary_identifier, an identifier frames components that one of  *)
(* its candidates makes of the source's response.                          *)
Identified(c, who, d, k) ==
  \A i \in 1 .. k :
    c[i].kind = "primary_identifier" /\ c[i].primary_identifier \in DOMAIN d.attributes =>
      LET identifiers == d.attributes[c[i].primary_identifier]
      IN /\ IsSequence(identifiers)
         /\ \A v \in Range(identifiers) :
              \E p \in Candidates(c[i]) : \E vs \in Composed(p, who) : v = Framed(vs)

(* A response after k services, at the frontend it will be rendered by.    *)
DataGood(c, f, who, d, k) ==
  /\ DOMAIN d = {"attributes", "subject_id", "subject_type", "issuer", "requester", "shaped_by"}
  /\ who \in Sources /\ d.requester \in RequestersAt(f)
  /\ Originates(c, who, d, k) /\ Accounted(c, who, d, k)
  /\ RulesOfAsserted => \A i \in 1 .. k : AuthorizedBy(c, i, who, d)
  /\ NameIdLast => Shaped(c, f, d, k)
  /\ PairwiseAlone => Paired(c, who, d, k)
  /\ IdentifierAlone => Identified(c, who, d, k)

SuspensionGood(c, s) ==
  /\ s.frontend \in DOMAIN Frontends
  /\ s.next \in 2 .. Len(c) + 1 /\ c[s.next - 1].kind = "stepup"
  /\ DataGood(c, s.frontend, s.who, s.data, s.next - 2)

StashGood(f, stash) ==
  /\ stash.login \in Logins /\ RequestOf[stash.login].frontend = f
  /\ Frontends[f].protocol = "saml" =>
       stash.format = FormatOf(stash.login) /\ stash.format # NoValue

SessionGood(c, st) ==
  /\ DOMAIN st = DOMAIN EmptySession
  /\ DOMAIN st.stash = DOMAIN Frontends /\ DOMAIN st.pending = DOMAIN Backends
  /\ \/ st.frontend = NoFrontend /\ \A b \in DOMAIN Backends : st.pending[b] = NoLogin
     \/ st.frontend \in DOMAIN Frontends /\ st.requester \in RequestersAt(st.frontend)
  /\ \A b \in DOMAIN Backends : st.pending[b] \in Logins \cup {NoLogin}
  /\ st.publisher = NoLogin \/ (st.publisher \in Logins /\ st.format = FormatOf(st.publisher))
  /\ \A f \in DOMAIN Frontends : st.stash[f] # NoLogin => StashGood(f, st.stash[f])
  /\ st.suspended # NoSuspension => SuspensionGood(c, st.suspended)

AnswerGood(c, a) ==
  /\ a.login \in Logins /\ a.frontend = RequestOf[a.login].frontend
  /\ DataGood(c, a.frontend, a.who, a.data, Len(c))
  /\ Frontends[a.frontend].protocol = "saml" =>
       /\ a.format = FormatOf(a.login)
       /\ a.format # "transient" /\ a.data.subject_id # NoValue => a.name_id = a.data.subject_id
  /\ Frontends[a.frontend].protocol = "oidc" => a.format = "sub" /\ a.released = OidcRelease(a.data)

IInv ==
  /\ chain \in Chains /\ \A i \in DOMAIN chain : Built(chain[i])
  /\ registration \in [Clients -> 0 .. MaxRegistrations]
  /\ minted \in Nat
  /\ SessionGood(chain, session)
  /\ IsFiniteSet(answers) /\ Cardinality(answers) <= MaxAnswers
  /\ \A a \in answers : AnswerGood(chain, a)
=============================================================================
