------------------------ MODULE MCFederationFrontend ------------------------
(* The federation frontend on a small instance.                            *)
EXTENDS FederationFrontend, TLC

CONSTANTS C, H1, H2, V1, V2

Symmetry == Permutations({H1, H2}) \cup Permutations({V1, V2})
=============================================================================
