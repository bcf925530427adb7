----------------------------- MODULE MCBalance -----------------------------
(* Two callers of a service with up to three providers.                      *)
EXTENDS Balance, TLC

Symmetry == Permutations(Keys) \cup Permutations(Callers)
=============================================================================
