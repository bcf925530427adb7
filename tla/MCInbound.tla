------------------------------ MODULE MCInbound ------------------------------
(* Inbound with two streams and two worker threads.                          *)
EXTENDS Inbound, TLC
MCSymmetry == Permutations(Streams)
=============================================================================
