---------------------------- MODULE MCAssurance ----------------------------
(* A small deployment of the SAML login: one IdP trusted for MFA, one that *)
(* is not, a step-up provider, two users and two service providers.        *)
EXTENDS Assurance, TLC

CONSTANTS A, B, C,         \* three requests
          Trusted, Plain,
          Alice, Bob, AliceKey, BobKey,
          Top, Low, Native, \* the strongest level, a weak one, an IdP's word for it
          RelayA, RelayB

(* C asks for a level that the proxy does not support.                     *)
LoasDiffer == [f \in Flows |-> CASE f = A -> <<MFA>> [] f = B -> <<Low>> [] f = C -> <<Native>>]
RelayOfAB == [f \in Flows |-> CASE f = A -> RelayA [] f = B -> RelayB [] f = C -> NoRelay]
NoHint == [f \in Flows |-> NoIdp]
HintForB == [f \in Flows |-> IF f = B THEN Plain ELSE NoIdp]

(* The two modes take different rows for the trusted IdP.                  *)
FirstRow == [requested |-> <<MFA>>, extra |-> {Top}, returned |-> NoLoa]
SecondRow == [requested |-> <<MFA>>, extra |-> {}, returned |-> MFA]
Certified == <<[value |-> "c1", settings |-> FirstRow], [value |-> "c2", settings |-> SecondRow]>>
CertificationsOfTrusted ==
  [e \in Flows \cup Idps |-> IF e = Trusted THEN <<"c2", "c1">> ELSE <<>>]

(* eduID: the category of B's provider turns its request into one for MFA. *)
CategoryRow == [requested |-> <<MFA>>, extra |-> {}, returned |-> MFA]
Categorized == <<[value |-> "mfa", settings |-> CategoryRow]>>
CategoryOfB == [e \in Flows \cup Idps |-> IF e = B THEN <<"mfa">> ELSE <<>>]
NoEntities == [e \in Flows \cup Idps |-> NoSettings]
NoRows == <<>>
NoValues == [e \in Flows \cup Idps |-> <<>>]

Accounts ==
  [u \in Users |-> [idp |-> Trusted, identifier |-> IF u = Alice THEN AliceKey ELSE BobKey]]
Order == <<Top, MFA, Low>>
NativeWord == (Low :> Native)
NoRewrite == <<>>
Asserted ==
  [i \in Idps |-> IF i = Trusted THEN {Top, MFA} ELSE {Native, MFA, NoLoa}]
=============================================================================
