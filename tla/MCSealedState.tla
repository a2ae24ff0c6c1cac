--------------------------- MODULE MCSealedState ---------------------------
(***************************************************************************)
(* Small deployments and rotation plans, as values for SealedState.        *)
(***************************************************************************)
EXTENDS SealedState, FiniteSets, TLC

CONSTANTS R1, R2, T1, T2, Old, New

(* The second replica's clock is ahead by the whole skew.                  *)
Ahead == [r \in Replicas |-> IF r = R2 THEN Skew ELSE 0]

(* A state that seals, one that only deflates below the cookie limit, and  *)
(* one that does not.                                                      *)
SomeSizes == {[json |-> 1, token |-> 1], [json |-> 2, token |-> 1], [json |-> 1, token |-> 2]}

(* security-state-cookie.md: move the old secret into the previous ones    *)
(* and set the new one, then drop the old one.                             *)
Documented == <<[primary |-> Old, previous |-> {}],
                [primary |-> New, previous |-> {Old}],
                [primary |-> New, previous |-> {}]>>

(* The new secret is first rolled out for decryption only.                 *)
TwoPhase == <<[primary |-> Old, previous |-> {}],
              [primary |-> Old, previous |-> {New}],
              [primary |-> New, previous |-> {Old}],
              [primary |-> New, previous |-> {}]>>

Symmetry == Permutations(Tabs)
=============================================================================
