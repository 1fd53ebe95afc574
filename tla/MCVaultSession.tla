--------------------------- MODULE MCVaultSession ---------------------------
(* VaultSession for TLC: a constellation that changes behind its first vault, *)
(* one whose list of endpoints the platform reorders, shortens and empties,   *)
(* and one that moves from one vault to another.                              *)
EXTENDS VaultSession, TLC

CONSTANTS e1, e2, e3

MCEndpoints == {e1, e2, e3}
MCAnchored  == {<<e1, e2>>, <<e1, e3>>}
MCMoving    == {<<e1, e2>>, <<e2>>, <<>>}
MCMoved     == {<<e1>>, <<e2>>}

\* Requests are interchangeable.
MCSymmetry  == Permutations(Requests)
=============================================================================
