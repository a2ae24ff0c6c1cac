---------------------------- MODULE MCProxyFlow ----------------------------
(***************************************************************************)
(* Small deployments of the proxy, as values for ProxyFlow's constants.    *)
(* The functions are defined here because a .cfg cannot write them; each   *)
(* .cfg picks the ones its deployment is made of.                          *)
(***************************************************************************)
EXTENDS ProxyFlow, TLC

CONSTANTS A, B,          \* two downstream requests
          F1, F2,        \* two frontends
          R1, R2,        \* two requesters
          B1, B2,        \* two backends
          I1, I2         \* two issuers a discovery page may return

(* Each request comes from its own requester.                              *)
RequesterOwn == [f \in Flows |-> IF f = A THEN R1 ELSE R2]

OneFrontend == [f \in Flows |-> F1]
OwnFrontend == [f \in Flows |-> IF f = A THEN F1 ELSE F2]

Unpinned == [fe \in Frontends |-> NoBackend]
PinnedToFirst == [fe \in Frontends |-> B1]

Targets == Requesters \X (Issuers \cup {NoIssuer})

NoRoute == [t \in Targets |-> NoBackend]
(* The issuer chosen on the discovery page decides; the second requester   *)
(* may not use that rule.                                                  *)
RouteByIssuer == [t \in Targets |-> IF t = <<R1, I1>> THEN B2 ELSE NoBackend]
RouteToSecond == [t \in Targets |-> B2]
RouteByRequester == [t \in Targets |-> IF t[1] = R1 THEN B1 ELSE B2]

(* allowed_issuers lets R1 choose I1 only.                                 *)
AllowFirst == {<<R1, I1>>, <<R2, I1>>, <<R2, I2>>}
AllowNone == {}

(* The second request carries a constraint no backend can honour.          *)
RefuseSecond == {<<b, B>> : b \in Backends}
RefuseNone == {}
=============================================================================
