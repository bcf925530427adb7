----------------------------- MODULE MCRegistry -----------------------------
(* Two providers and a consumer, and five faults.                           *)
EXTENDS Registry
=============================================================================
