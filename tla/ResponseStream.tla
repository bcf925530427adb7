--------------------------- MODULE ResponseStream ---------------------------
(***************************************************************************)
(* What the sending side of a stream promises to the server's method       *)
(* runner: the peer receives the bytes of the response in order, and a     *)
(* stream that ends without a reset ends after the runner finished and     *)
(* after the last of its bytes.                                            *)
(***************************************************************************)
EXTENDS Naturals

CONSTANT Streams

VARIABLES
    given,       \* bytes the runner has handed over
    finished,    \* the runner has completed the call
    delivered,   \* bytes on the wire
    status       \* "open", "ended" by END_STREAM, "reset" by either side

vars == <<given, finished, delivered, status>>

Init ==
    /\ given = [s \in Streams |-> 0]
    /\ finished = [s \in Streams |-> FALSE]
    /\ delivered = [s \in Streams |-> 0]
    /\ status = [s \in Streams |-> "open"]

Give(s) ==
    /\ ~finished[s]
    /\ given'[s] \in Nat /\ given'[s] > given[s]
    /\ given' = [given EXCEPT ![s] = given'[s]]
    /\ UNCHANGED <<finished, delivered, status>>

Finish(s) ==
    /\ ~finished[s]
    /\ finished' = [finished EXCEPT ![s] = TRUE]
    /\ UNCHANGED <<given, delivered, status>>

Deliver(s) ==
    /\ status[s] = "open"
    /\ \E n \in delivered[s]..given[s] : delivered' = [delivered EXCEPT ![s] = n]
    /\ UNCHANGED <<given, finished, status>>

End(s) ==
    /\ status[s] = "open"
    /\ finished[s] /\ delivered[s] = given[s]
    /\ status' = [status EXCEPT ![s] = "ended"]
    /\ UNCHANGED <<given, finished, delivered>>

Reset(s) ==
    /\ status' = [status EXCEPT ![s] = "reset"]
    /\ UNCHANGED <<given, finished, delivered>>

Next == \E s \in Streams :
    Give(s) \/ Finish(s) \/ Deliver(s) \/ End(s) \/ Reset(s)

Spec == Init /\ [][Next]_vars
=============================================================================
