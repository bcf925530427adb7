---------------------------- MODULE MCClientCall ----------------------------
(* One call of each kind, with up to three messages each way.                 *)
EXTENDS ClientCall
=============================================================================
