----------------------------- MODULE MCFrontend -----------------------------
(* Frontend for TLC.                                                          *)
EXTENDS Frontend, TLC

\* Requests are interchangeable, and so are vaults.
MCSymmetry == Permutations(Clients) \cup Permutations(Vaults)
=============================================================================
