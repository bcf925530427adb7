----------------------------- MODULE MCOutbound -----------------------------
(* Outbound on one connection whose streams compete for small windows.   *)
EXTENDS Outbound, TLC

MCSymmetry == Permutations(Streams)
=============================================================================
