----------------------------- MODULE MCKmipProxy -----------------------------
(* KmipProxy for TLC: the longest value that the gateway reads with its       *)
(* header, one that it cuts short, and one that the proxy does not relay.     *)
EXTENDS KmipProxy

MCVaults == {"vA", "vB"}
MCSizes  == {1048568, 1048576, 16777217}
=============================================================================
