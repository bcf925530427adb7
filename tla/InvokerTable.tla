---------------------------- MODULE InvokerTable ----------------------------
(***************************************************************************)
(* What a directory of invokers promises those who read it: the invokers   *)
(* in the table are open and serve the URL they are listed under, and only *)
(* an invoker that is not in the table is destroyed. Nothing is promised   *)
(* of the order in which URLs come and go, and nothing once two            *)
(* notifications have overlapped.                                          *)
(***************************************************************************)
EXTENDS Integers, FiniteSets

CONSTANTS Keys, MaxInvokers

ASSUME InvokerTableAssumption == IsFiniteSet(Keys) /\ MaxInvokers \in Nat

VARIABLES table, invokers, overlapped

tableVars == <<table, invokers, overlapped>>

Invokers == 1..MaxInvokers
None == 0
Empty == [k \in Keys |-> None]
NoInvoker == [key |-> {}, state |-> "none"]
InTable(t) == {k \in Keys : t[k] # None}
Listed(i) == \E k \in Keys : table[k] = i

TableInit ==
    /\ table = Empty
    /\ invokers = [i \in Invokers |-> NoInvoker]
    /\ overlapped = FALSE

Clear ==
    /\ table' = Empty
    /\ UNCHANGED <<invokers, overlapped>>

\* An invoker that exists enters the table.
Keep(k, i) ==
    /\ overlapped \/ invokers[i] = [key |-> {k}, state |-> "open"]
    /\ overlapped \/ table[k] = None
    /\ invokers[i].key = {k}
    /\ table' = [table EXCEPT ![k] = i]
    /\ UNCHANGED <<invokers, overlapped>>

\* A new invoker enters the table, under a number that is not in use.
Connect(k, i) ==
    /\ ~Listed(i)
    /\ overlapped \/ table[k] = None
    /\ table' = [table EXCEPT ![k] = i]
    /\ invokers' = [invokers EXCEPT ![i] = [key |-> {k}, state |-> "open"]]
    /\ UNCHANGED overlapped

Destroy(i) ==
    /\ overlapped \/ ~Listed(i)
    /\ invokers[i].state = "open"
    /\ invokers' = [invokers EXCEPT ![i].state = "destroyed"]
    /\ UNCHANGED <<table, overlapped>>

\* Nothing refers to these invokers any more.
Forget(gone) ==
    /\ \A i \in gone : ~Listed(i)
    /\ invokers' = [i \in Invokers |-> IF i \in gone THEN NoInvoker ELSE invokers[i]]
    /\ UNCHANGED <<table, overlapped>>

Overlap ==
    /\ overlapped' = TRUE
    /\ UNCHANGED <<table, invokers>>

TableNext ==
    \/ Clear \/ Overlap
    \/ \E gone \in SUBSET Invokers : Forget(gone)
    \/ \E i \in Invokers : Destroy(i)
    \/ \E k \in Keys, i \in Invokers : Keep(k, i) \/ Connect(k, i)

TableSpec == TableInit /\ [][TableNext]_tableVars
=============================================================================
