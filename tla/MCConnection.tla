---------------------------- MODULE MCConnection ----------------------------
(* A client with up to three connections that may be closed, or with two of   *)
(* them, two calls and nobody to close it. The calls are alike: c1 begins     *)
(* first.                                                                     *)
EXTENDS Connection
CONSTANTS c1, c2
Bounded == /\ callConn'[c2] # 0 => callConn'[c1] # 0
           /\ callConn'[c1] # 0 => user' = "ready"
MCSpec == Init /\ [][Next /\ Bounded]_vars /\ Fairness
=============================================================================
