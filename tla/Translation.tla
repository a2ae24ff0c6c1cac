---------------------------- MODULE Translation ----------------------------
(***************************************************************************)
(* Translation between the protocols and the internal model: the attribute *)
(* map, what a SAML or OIDC backend makes of its provider's response, and  *)
(* what a SAML or OIDC frontend releases to its requester.  Values are     *)
(* those of AttributeServices.                                             *)
(***************************************************************************)
EXTENDS AttributeServices

CONSTANTS
  Map,           \* internal name -> profile -> [names, oid, friendly_name]
  UserIdFrom,    \* the internal names whose values compose a subject id
  Backends,      \* the configuration of each backend
  Frontends      \* the configuration of each frontend

ASSUME MapAssumption ==
  \A n \in DOMAIN Map : \A profile \in DOMAIN Map[n] : IsSequence(Map[n][profile].names)

Mapped(profile) == {n \in DOMAIN Map : profile \in DOMAIN Map[n]}
Optional(key) == IF key = NoValue THEN <<>> ELSE <<key>>
Keys(mapping) == mapping.names \o Optional(mapping.oid) \o Optional(mapping.friendly_name)

(* The first of values that are equal.                                     *)
Distinct(values) ==
  FlattenSeq([i \in DOMAIN values |->
    IF \E j \in 1 .. i - 1 : values[j] = values[i] THEN <<>> ELSE <<values[i]>>])

(* The values under every external name of an internal one, in the order   *)
(* of the names.                                                           *)
Collected(mapping, external) ==
  LET keys == Keys(mapping)
  IN Distinct(FlattenSeq([i \in DOMAIN keys |-> Values(external, keys[i])]))
ToInternal(profile, external) ==
  LET present == {n \in Mapped(profile) : Collected(Map[n][profile], external) # <<>>}
  IN [n \in present |-> Collected(Map[n][profile], external)]

(* An internal name leaves under its first external one; of two names with *)
(* the same, the later's values do.                                        *)
Canonical(profile, n) == Head(Map[n][profile].names)
FromInternal(profile, attrs) ==
  LET sources == {n \in Mapped(profile) \cap DOMAIN attrs : Map[n][profile].names # <<>>}
      Of(name) == {n \in sources : Canonical(profile, n) = name}
      Last_(names) == CHOOSE n \in names : \A m \in names \ {n} : Before(m, n)
  IN [name \in {Canonical(profile, n) : n \in sources} |-> attrs[Last_(Of(name))]]

ComposedSubject(attrs) ==
  LET parts == [i \in DOMAIN UserIdFrom |-> First(attrs, UserIdFrom[i])]
  IN IF UserIdFrom = <<>> \/ NoValue \in Range(parts) THEN NoValue
     ELSE FoldLeft(LAMBDA t, v : Concat(Concat(t, <<":">>), v), Head(parts), Tail(parts))

----------------------------------------------------------------------------
(* A SAML response is a sequence of assertions; an attribute has a Name, a *)
(* FriendlyName and the values that have a textual form.                   *)

Authenticated(response) ==
  LET with == {i \in DOMAIN response : response[i].authn}
  IN IF with = {} THEN NoValue ELSE response[Min(with)]

(* Only a step-up login takes its attributes from one assertion.           *)
ConsumedAttributes(backend, response) ==
  IF backend.request_subject THEN Authenticated(response).attributes
  ELSE FlattenSeq([i \in DOMAIN response |-> response[i].attributes])

(* Under each of its names, the values of the last attribute that has any. *)
NamesOf(a) == {a.name, a.friendly_name} \ {NoValue}
External(attributes) ==
  LET with == {i \in DOMAIN attributes : attributes[i].values # <<>>}
      Named(k) == {i \in with : k \in NamesOf(attributes[i])}
  IN [k \in UNION {NamesOf(attributes[i]) : i \in with} |-> attributes[Max(Named(k))].values]

LowerNames(names) == {Lower(n) : n \in names}
KnownNames == LowerNames(UNION {Range(Keys(Map[n]["saml"])) : n \in Mapped("saml")})
Known(a) == LowerNames(NamesOf(a)) \cap KnownNames # {}
PassedName(a) == Lower(IF a.friendly_name # NoValue THEN a.friendly_name ELSE a.name)

(* Mutant: only the names already present are kept from being overwritten. *)
PassableOverMap(internal, a) ==
  ~Known(a) /\ a.values # <<>> /\ PassedName(a) \notin DOMAIN internal
(* An attribute the map does not know keeps its lower-case name, unless it *)
(* is that of an attribute of the map, of any profile, or present already. *)
Passable(internal, a) ==
  /\ ~Known(a) /\ a.values # <<>>
  /\ PassedName(a) \notin DOMAIN internal \cup LowerNames(DOMAIN Map)
Passed(internal, attributes) ==
  LET passable == {i \in DOMAIN attributes : Passable(internal, attributes[i])}
      Named(n) == {i \in passable : PassedName(attributes[i]) = n}
  IN [n \in {PassedName(attributes[i]) : i \in passable} |->
        Distinct(attributes[Min(Named(n))].values)]

SamlAttributes(backend, attributes) ==
  LET mapped == ToInternal("saml", External(attributes))
  IN IF backend.passthrough_unmapped_attributes
     THEN Override(mapped, Passed(mapped, attributes)) ELSE mapped

SubjectType(format) == IF format = "transient" THEN "transient" ELSE "persistent"
ScopedByIssuer(issuer, subject) ==
  Concat(<<ToString(Len(issuer)) \o ":" \o issuer \o ":">>, subject)

(* A backend with several IdPs prefers the composed subject, and scopes it *)
(* as configured; a raw persistent NameID is always scoped there.          *)
SelectedSubject(backend, a, internal) ==
  LET composed == ComposedSubject(internal)
      subject == IF composed # NoValue THEN composed ELSE a.name_id
  IN CASE ~backend.dynamic_idp_selection -> a.name_id
       [] backend.dynamic_idp_selection /\ backend.scope_subject_id_by_issuer ->
            ScopedByIssuer(a.issuer, subject)
       [] backend.dynamic_idp_selection /\ ~backend.scope_subject_id_by_issuer ->
            IF composed = NoValue /\ SubjectType(a.format) = "persistent"
            THEN ScopedByIssuer(a.issuer, subject) ELSE subject

SamlResponse(backend, response, requester) ==
  LET a == Authenticated(response)
      internal == SamlAttributes(backend, ConsumedAttributes(backend, response))
  IN IF a = NoValue \/ (a # NoValue /\ a.name_id = NoValue) THEN Failed
     ELSE [attributes |-> internal, subject_id |-> SelectedSubject(backend, a, internal),
           subject_type |-> SubjectType(a.format), issuer |-> a.issuer,
           requester |-> requester, shaped_by |-> NoValue]

OidcResponse(claims, requester) ==
  IF claims.sub = NoValue THEN Failed
  ELSE [attributes |-> ToInternal("openid", claims.extra), subject_id |-> claims.sub,
        subject_type |-> "public", issuer |-> claims.issuer,
        requester |-> requester, shaped_by |-> NoValue]

Response(b, r, requester) ==
  IF Backends[b].protocol = "saml" THEN SamlResponse(Backends[b], r, requester)
  ELSE OidcResponse(r, requester)

----------------------------------------------------------------------------
(* What a frontend releases                                                *)

DownstreamSubject(d) ==
  IF d.subject_id # NoValue THEN d.subject_id ELSE ComposedSubject(d.attributes)

NameIdValue(d, format, fresh) ==
  IF format = "transient" THEN fresh ELSE DownstreamSubject(d)

(* The frontend's own allowlist for the SP, or its default, or everything. *)
Restricted(frontend, sp, attrs) ==
  LET keys == SelectSeq(<<sp, "default">>, LAMBDA k : k \in DOMAIN frontend.policy)
      allowed == IF keys = <<>> THEN NoValue ELSE frontend.policy[Head(keys)]
  IN IF allowed = NoValue THEN attrs ELSE Restrict(attrs, DOMAIN attrs \cap allowed)

SamlName(frontend, mapping) ==
  IF frontend.attribute_name_format_uri /\ mapping.oid # NoValue THEN mapping.oid
  ELSE Head(mapping.names)

(* An eduPersonTargetedID is itself a NameID, qualified by IdP and SP.     *)
EptidOid == "urn:oid:1.3.6.1.4.1.5923.1.1.1.10"
IsEptid(n, mapping) ==
  \/ Lower(n) = "edupersontargetedid"
  \/ "eduPersonTargetedID" \in {Head(mapping.names), mapping.friendly_name}
  \/ mapping.oid = EptidOid
SamlValues(frontend, sp, n, values) ==
  IF ~IsEptid(n, Map[n]["saml"]) THEN values
  ELSE [i \in DOMAIN values |->
          [value |-> values[i], name_qualifier |-> frontend.entity_id, sp_name_qualifier |-> sp]]

SamlRelease(frontend, sp, attrs) ==
  LET names == {n \in Mapped("saml") \cap DOMAIN attrs : Map[n]["saml"].names # <<>>}
  IN {[name |-> SamlName(frontend, Map[n]["saml"]),
       values |-> SamlValues(frontend, sp, n, attrs[n])] : n \in names}

(* The reserved claim comes from the proxy's knowledge of the issuer only, *)
(* under the name the map gives it.                                        *)
Authority == "authenticating_authority"
(* Mutant: an attribute mapped to the same claim is released instead.      *)
OidcReleaseMerged(d) ==
  LET released == FromInternal("openid", d.attributes)
      names == IF Authority \in Mapped("openid") THEN {Canonical("openid", Authority)} ELSE {}
      all == released @@ [n \in names |-> <<<<d.issuer>>>>]
  IN {[name |-> n, values |-> all[n]] : n \in DOMAIN all}
OidcRelease(d) ==
  LET released == FromInternal("openid", d.attributes)
      enabled == Authority \in Mapped("openid") /\ Map[Authority]["openid"].names # <<>>
      names == IF enabled THEN {Canonical("openid", Authority)} ELSE {}
      own == [n \in names |-> <<<<d.issuer>>>>]
      others == Restrict(released, DOMAIN released \ (names \cup {Authority}))
      claims == Override(own, others)
  IN {[name |-> n, values |-> claims[n]] : n \in DOMAIN claims}
=============================================================================
