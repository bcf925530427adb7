---------------------------- MODULE MCDirectory ----------------------------
(* Two providers that come and go, the subscriber's thread and the timer.    *)
EXTENDS Directory
=============================================================================
