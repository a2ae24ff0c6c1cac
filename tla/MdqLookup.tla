----------------------------- MODULE MdqLookup -----------------------------
(***************************************************************************)
(* What the SAML backend needs of an IdP metadata lookup, without caches   *)
(* or locks: an answer carries the scopes of the very document it carries, *)
(* and that document is one the federation published for the entity asked  *)
(* for.  It need not be the latest, and a lookup may fail.                 *)
(***************************************************************************)
EXTENDS Integers

CONSTANTS Lookups, Entities, MaxVersion, NoAnswer

VARIABLES published, answer

Versions == 1 .. MaxVersion
Answers == [entity: Entities, document: Versions, scopes: Versions]

Init ==
  /\ published = [e \in Entities |-> 1]
  /\ answer = [l \in Lookups |-> NoAnswer]

(* The federation signs a new version of an entity's metadata.             *)
Publish(e) ==
  /\ published[e] < MaxVersion
  /\ published' = [published EXCEPT ![e] = @ + 1]
  /\ UNCHANGED answer

(* One atomic read of a published document answers the lookup.             *)
Serve(l, e) ==
  /\ answer[l] = NoAnswer
  /\ \E v \in 1 .. published[e] :
       answer' = [answer EXCEPT ![l] = [entity |-> e, document |-> v, scopes |-> v]]
  /\ UNCHANGED published

Next == \E e \in Entities : Publish(e) \/ \E l \in Lookups : Serve(l, e)

Spec == Init /\ [][Next]_<<published, answer>>
=============================================================================
