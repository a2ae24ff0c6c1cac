----------------------------- MODULE MCRelease -----------------------------
(* Two SAML service providers, one an extension of the other's name, and   *)
(* an OIDC client; users of two identity providers and an OP whose values  *)
(* run into each other where nothing delimits them.                        *)
EXTENDS Release

NoMapping == [names |-> <<>>, oid |-> NoValue, friendly_name |-> NoValue]
Names(names) == [NoMapping EXCEPT !.names = names]

AttributeMap ==
  "subject-id" :> [saml |-> Names(<<"subject-id">>), openid |-> Names(<<"voperson">>)] @@
  "mail" :> [saml |-> [names |-> <<"mail", "email">>, oid |-> "urn:oid:mail",
                       friendly_name |-> "mail"], openid |-> Names(<<"email">>)] @@
  "affiliation" :> [saml |-> Names(<<"affiliation">>)] @@
  "uid" :> [saml |-> Names(<<"uid">>), openid |-> Names(<<"username">>)] @@
  "edupersontargetedid" :> [saml |-> Names(<<"eduPersonTargetedID">>)] @@
  "role" :> [openid |-> Names(<<"role">>)] @@
  "authority" :> [saml |-> Names(<<"authority">>), openid |-> Names(<<"authn_by">>)] @@
  "authenticating_authority" :> [openid |-> Names(<<"authn_by">>)]

ComposedFrom == <<"uid">>
MappedOnly == {"mail", "role"}
Folded == "ROLE" :> "role" @@ "Mail" :> "mail" @@ "Female" :> "female"

(* Alphabetical order, of the texts that are ever compared.                *)
Alphabet == <<"authenticating_authority", "authority", "member@a", "staff@a">>
Position(t) == CHOOSE i \in DOMAIN Alphabet : Alphabet[i] = t
InOrder(s, t) == Position(s) < Position(t)

BackendConfigs ==
  "Saml2" :> [protocol |-> "saml", request_subject |-> FALSE,
              passthrough_unmapped_attributes |-> TRUE, dynamic_idp_selection |-> TRUE,
              scope_subject_id_by_issuer |-> FALSE] @@
  "Oidc" :> [protocol |-> "oidc"]

FrontendConfigs ==
  "SAML" :> [protocol |-> "saml", name_id_formats |-> <<"persistent", "transient", "email">>,
             entity_id |-> "proxy", attribute_name_format_uri |-> TRUE,
             policy |-> ("default" :> {"mail", "edupersontargetedid"})] @@
  "OIDC" :> [protocol |-> "oidc"]

Asks(f, r, format, b) == [frontend |-> f, requester |-> r, format |-> format, backend |-> b]
LoginRequests ==
  "persistent" :> Asks("SAML", "sp", NoValue, "Saml2") @@
  "other" :> Asks("SAML", "sp-a", "persistent", "Saml2") @@
  "transient" :> Asks("SAML", "sp", "transient", "Saml2") @@
  "mail" :> Asks("SAML", "sp", "email", "Saml2") @@
  "refused" :> Asks("SAML", "sp", "kerberos", "Saml2") @@
  "code" :> Asks("OIDC", "rp", NoValue, "Saml2") @@
  "op" :> Asks("OIDC", "rp", NoValue, "Oidc")
AllLogins == DOMAIN LoginRequests
AllClients == {"rp"}

Attribute(name, friendly, values) ==
  [name |-> name, friendly_name |-> friendly, values |-> values]
Assertion(issuer, uid, attributes) ==
  [authn |-> TRUE, name_id |-> Append(<<"n-">>, uid), format |-> "persistent",
   issuer |-> issuer, attributes |-> <<Attribute("uid", NoValue, <<<<uid>>>>)>> \o attributes]

Staff == Attribute("affiliation", NoValue, <<<<"staff", "a">>>>)
Subject(local) == Attribute("subject-id", NoValue, <<<<local, "a">>>>)
SamlUsers == {
  [user |-> "u at idp", response |-> <<Assertion("idp", "bob",
     <<Subject("u"), Staff, Attribute("urn:x", "ROLE", <<<<"admin">>>>),
       Attribute("authority", NoValue, <<<<"nobody">>>>)>>)>>],
  [user |-> "a-u at idp", response |-> <<Assertion("idp", "rob", <<Subject("a-u"), Staff>>)>>],
  [user |-> "u at dp", response |-> <<Assertion("dp", "bobi",
     <<Attribute("subject-id", NoValue, <<<<"u", "b">>>>), Attribute("urn:oid:mail", "mail", <<<<"u", "a">>>>),
       Attribute("Mail", NoValue, <<<<"x", "a">>>>)>>)>>],
  [user |-> "unnamed", response |-> <<[authn |-> FALSE, attributes |-> <<>>]>>]}
OidcUsers == {
  [user |-> "op user", response |-> [sub |-> <<"o">>, issuer |-> "op",
     extra |-> ("username" :> <<<<"bob">>>> @@ "email" :> <<<<"o", "a">>>>)]],
  [user |-> "no sub", response |-> [sub |-> NoValue, issuer |-> "op", extra |-> <<>>]]}
ProviderResponses == "Saml2" :> SamlUsers @@ "Oidc" :> OidcUsers

SecondLogins == {<<<<"al2">>, <<"al2">>>>}

----------------------------------------------------------------------------
(* The chains                                                              *)

StepUp == [kind |-> "stepup", assurance |-> "assurance", behavior |-> "hardened"]
Log == [kind |-> "custom_logging"]
NameIdService == [kind |-> "nameid"]
Pairwise(salt) == [kind |-> "pairwiseid", pairwise_salt |-> salt, framing |-> "v1"]

(* sp needs an affiliation, for which the IdPs are trusted differently.    *)
Authorization == [
  kind |-> "attribute_authorization",
  attribute_allow |-> ("sp" :> ("" :> ("affiliation" :> {<<"staff", "a">>})) @@
                       "default" :> ("" :> ("subject-id" :> {<<"u", "a">>, <<"u", "b">>}))),
  attribute_deny |-> ("sp-a" :> ("default" :> ("mail" :> {<<"x", "a">>}))),
  force_attributes_presence_on_allow |-> TRUE,
  force_attributes_presence_on_deny |-> FALSE]
ValueFilter == [
  kind |-> "filter_attribute_values",
  filters |-> ("dp" :> ("" :> ("affiliation" :> {})) @@
               "" :> ("sp-a" :> ("" :> {<<"u", "a">>, <<"a-u", "a">>, <<"u", "b">>, <<"bob">>, <<"bobi">>})))]
SamlFilter == [
  kind |-> "filter_attributes", allowed |-> NoValue, passthrough_unmatched |-> FALSE,
  policy |-> ("sp" :> {"pairwise-id", "mail"} @@
              "rp" :> {"role", "authority", "assurance"} @@
              "" :> {"pairwise-id", "role", "authority", "mail"})]
SamlChain == <<ValueFilter, Authorization, StepUp, Pairwise("k"), NameIdService, SamlFilter>>

Processor == [
  kind |-> "attribute_processor",
  process |-> <<
    [attribute |-> "gender", processors |-> <<[name |-> "gender"]>>],
    [attribute |-> "subject-id", processors |->
       <<[name |-> "scope_extractor", mapped_attribute |-> "home"]>>],
    [attribute |-> "home", processors |->
       <<[name |-> "regex_sub", replace |-> (<<"a">> :> <<"b">>)],
         [name |-> "scope", scope |-> "org"], [name |-> "scope_remover"],
         [name |-> "hash", hash_algo |-> "sha256", allow_legacy_md5 |-> FALSE,
          salt |-> "s"]>>]>>]
Virtual == [
  kind |-> "static_attributes_for_virtual_idp",
  replace |-> ("rp" :> ("OIDC" :> ("gender" :> <<<<"Female">>>>))),
  append |-> ("default" :> ("default" :> ("affiliation" :> <<<<"member", "a">>>>)))]
Generation == [
  kind |-> "attribute_generation",
  synthetic_attributes |-> ("" :> ("" :> (
    "nickname" :> [attribute |-> "uid", field |-> "first"] @@
    "org" :> [attribute |-> "uid", field |-> "scope"])))]
Identifier == [
  kind |-> "primary_identifier", primary_identifier |-> "identifier",
  ordered_identifier_candidates |->
    <<[attribute_names |-> <<"uid">>, name_id_format |-> NoValue,
       add_scope |-> "issuer_entityid"]>>,
  clear_input_attributes |-> FALSE, replace_subject_id |-> TRUE, on_error |-> NoValue,
  overrides |-> (
    "sp-a" :> [ordered_identifier_candidates |->
                 <<[attribute_names |-> <<"mail", "name_id">>,
                    name_id_format |-> "persistent", add_scope |-> "all"]>>,
               on_error |-> "https://error"] @@
    "op" :> [ignore |-> TRUE])]
Rename == [kind |-> "rename_attributes", rename |-> <<[old |-> "home", new |-> "place"]>>]
Hash == [kind |-> "hasher",
         entries |-> ("" :> [salt |-> "s", subject_id |-> FALSE] @@
                      "rp" :> [subject_id |-> TRUE, attributes |-> {"place"}])]
Eptid == [
  kind |-> "legacy_eptid", idp_entity_id |-> "idp", secret |-> "k",
  source_attribute |-> "mail", source_subject_id |-> FALSE, sp_entity_id |-> NoValue,
  requesters |-> {"sp"}, target_attribute |-> "edupersontargetedid",
  release_attribute |-> TRUE, set_subject_id |-> FALSE, allow_legacy_md5 |-> TRUE]
Static == [kind |-> "static_attributes", attributes |-> ("co" :> <<<<"se">>>>)]

ConversionChain ==
  <<Static, Processor, Virtual, Processor, Generation, Identifier, Rename, Hash, Log>>
EptidChain == <<Eptid, Log>>

(* Configurations the start refuses.                                       *)
Refused == {<<Pairwise("")>>, <<[Eptid EXCEPT !.allow_legacy_md5 = FALSE]>>,
            <<[Hash EXCEPT !.entries = "rp" :> [salt |-> "s"]]>>}

AllChains == {SamlChain, ConversionChain, EptidChain} \cup Refused

(* Chains and users are as the properties about them presuppose.           *)
ASSUME ChainsMeant ==
  /\ RulesOfAsserted /\ NameIdLast
  /\ PairwiseAlone /\ SubjectsPersonal /\ DigestsApart
  /\ IdentifierAlone /\ ComponentsPersonal /\ FramesApart
=============================================================================
