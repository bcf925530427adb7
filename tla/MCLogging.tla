----------------------------- MODULE MCLogging -----------------------------
(* A thread logs two records while two others configure the logger, with a     *)
(* Loki handler or without, and the application stops one handler.             *)
EXTENDS Logging
=============================================================================
