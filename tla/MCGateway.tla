------------------------------ MODULE MCGateway -------------------------------
(* Gateway for TLC: two configs, which nothing distinguishes.                 *)
EXTENDS Gateway, TLC

CONSTANTS cA, cB

MCConfigs == {cA, cB}
MCSize    == [c \in MCConfigs |-> 1]
Symmetry  == Permutations(MCConfigs)
=============================================================================
