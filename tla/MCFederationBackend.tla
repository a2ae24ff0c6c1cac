------------------------ MODULE MCFederationBackend ------------------------
(***************************************************************************)
(* Two OPs and two concurrent requests, for TLC.                           *)
(***************************************************************************)
EXTENDS FederationBackend, TLC

(* OPs are alike, and so are requests.                                     *)
Symmetry == Permutations(Ops) \cup Permutations(Handlers)
=============================================================================
