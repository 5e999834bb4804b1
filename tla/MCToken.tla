------------------------------ MODULE MCToken ------------------------------
(* Two goroutines and two authorisations: what one is refreshing, the      *)
(* other may refresh as well, or replace.                                  *)
EXTENDS Token, TLC

CONSTANTS r1, r2, g1, g2
MCRequest == {r1, r2}
MCGrant == {g1, g2}
MCSymmetry == Permutations(MCRequest) \cup Permutations(MCGrant)

=============================================================================
