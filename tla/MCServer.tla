------------------------------ MODULE MCServer ------------------------------
(* Configurations for Server: one that serves TLS, one that serves plain   *)
(* HTTP with two backends of one name, and three the start refuses at its  *)
(* different stages.                                                       *)
EXTENDS Server

Plugin(role, name, kind, suffixes) ==
  [role |-> role, name |-> name, kind |-> kind, routes |-> {<<name, s>> : s \in suffixes}]

SamlFrontend == Plugin("frontend", "Saml2", "saml2", {"metadata", "sso"})
OidcFrontend == Plugin("frontend", "OIDC", "oidc", {"authorization", "token"})
Resume == Plugin("microservice", "Disco", "disco", {"disco"})
SamlBackend == Plugin("backend", "Saml2", "saml2", {"metadata", "acs"})
SecondBackend == Plugin("backend", "Saml2", "oidc", {"callback"})

Tls == [
  variables_set |-> TRUE, includes_readable |-> TRUE, index_readable |-> TRUE, attributes_readable |-> TRUE,
  tls |-> "paths", base_url |-> TRUE, same_site |-> "none", state_key |-> 32,
  previous_keys |-> {40}, http_limits |-> {10, 15}, python |-> "absent",
  frontends |-> <<SamlFrontend, OidcFrontend>>, microservices |-> <<Resume>>,
  backends |-> <<SamlBackend>>]

PlainHttp == [Tls EXCEPT !.tls = "absent", !.python = "usable",
                         !.backends = <<SamlBackend, SecondBackend>>]
WeakRotationKey == [Tls EXCEPT !.previous_keys = {40, 8}]
UnsetVariable == [Tls EXCEPT !.variables_set = FALSE]
UnknownType == [Tls EXCEPT !.backends = <<[SamlBackend EXCEPT !.kind = "unknown"]>>]

AllConfigs == {Tls, PlainHttp, WeakRotationKey, UnsetVariable, UnknownType}

(* The second renewal keeps the key of the first certificate.              *)
RenewedKeys == <<1, 1, 2>>
=============================================================================
