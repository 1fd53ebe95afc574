--------------------------- MODULE MCConfigManager ---------------------------
(* Instances of ConfigManager for TLC: two configs whose JSON texts differ in *)
(* length, one or two concurrent /configure requests.                         *)
EXTENDS ConfigManager

CONSTANTS cA, cB

MCConfigs == {cA, cB}
MCSize    == [c \in MCConfigs |-> IF c = cA THEN 1 ELSE 2]
=============================================================================
