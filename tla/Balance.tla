------------------------------ MODULE Balance ------------------------------
(***************************************************************************)
(* The callers of a service over the table of a directory (InvokerTable):  *)
(* FailfastInvoker (cluster/failfast_cluster.py), the load balances        *)
(* (cluster/loadbalances.py) and the CPU monitor (cluster/monitor/cpu.py). *)
(*                                                                         *)
(* One load balance object serves every caller, without a lock. The        *)
(* consistent hash gives each invoker its virtual nodes: here they are one *)
(* point of the ring, the invoker's URL, and the hash of a request may be  *)
(* closest to any point.                                                   *)
(***************************************************************************)
EXTENDS InvokerTable

CONSTANTS
    Callers,
    MaxSteps,     \* bound of the steps of the directory
    Strategies    \* of "random", "cpu" and "hash", those the application may choose

ASSUME BalanceAssumption ==
    IsFiniteSet(Callers) /\ MaxSteps \in Nat /\ Strategies \subseteq {"random", "cpu", "hash"}

VARIABLES
    steps,        \* taken by the directory
    strategy,
    caller,       \* of each caller: where it is, the list it was given, the URLs
                  \* it still has to put on the ring, and what it has selected
    \* ConsistentHashLoadBalance
    ring,         \* _hash_ring
    sorted,       \* _sorted_hashes
    cached,       \* _cached_invokers
    \* loggerFactory
    overwritten,  \* _LOGGER.info is a string
    \* CpuMonitor
    monitor,      \* its thread
    \* history
    disturbed,    \* callers during whose selection another one rebuilt the ring
    mixed,        \* the ring, or what is known of it, is the work of two rebuilds
    renewed       \* URLs that got a new invoker while the ring or a caller had an earlier one

ringVars == <<ring, sorted, cached>>
balanceVars == <<strategy, caller, ringVars, overwritten, monitor, disturbed, mixed>>
directoryVars == <<tableVars, steps, renewed>>
serviceVars == <<directoryVars, balanceVars>>

NotCalling == [pc |-> "idle", list |-> Empty, todo |-> {}, pick |-> None]

\* The directory has been notified already.
BalanceInit ==
    /\ table \in [Keys -> {None} \cup Invokers]
    /\ \A k, l \in Keys : table[k] # None /\ table[k] = table[l] => k = l
    /\ {table[k] : k \in InTable(table)} = 1..Cardinality(InTable(table))
    /\ invokers = [i \in Invokers |->
                     IF Listed(i) THEN [key |-> {k \in Keys : table[k] = i}, state |-> "open"]
                     ELSE NoInvoker]
    /\ overlapped = FALSE /\ steps = 0 /\ renewed = {}
    /\ strategy \in Strategies
    /\ caller = [c \in Callers |-> NotCalling]
    /\ ring = Empty /\ sorted = {} /\ cached = {}
    /\ overwritten = FALSE
    /\ monitor = IF strategy = "cpu" THEN "running" ELSE "none"
    /\ disturbed = {} /\ mixed = FALSE

In(c, pc) == caller[c].pc = pc
Open(i) == invokers[i].state = "open"
Offered(c) == InTable(caller[c].list)
AllOpen(c) == \A k \in Offered(c) : Open(caller[c].list[k])
Finish(c) == caller' = [caller EXCEPT ![c] = NotCalling]
Go(c, pc) == caller' = [caller EXCEPT ![c].pc = pc]
Select(c, i) == caller' = [caller EXCEPT ![c].pc = "selected", ![c].pick = i]

----------------------------------------------------------------------------
(* FailfastInvoker.invoke and AbstractLoadBalance.select *)

\* get_list copies the table. Without an invoker the call is refused, a single
\* invoker is taken whatever the strategy is.
GetList(c) ==
    /\ In(c, "idle")
    /\ LET list == table
       IN /\ InTable(list) # {}
          /\ caller' = [caller EXCEPT ![c].list = list,
                            ![c].pc = IF Cardinality(InTable(list)) = 1 THEN "only"
                                      ELSE IF strategy = "hash" THEN "check" ELSE "choose"]
    /\ disturbed' = disturbed \ {c}
    /\ UNCHANGED <<directoryVars, strategy, ringVars, overwritten, monitor, mixed>>

\* The only invoker, or one at random: the CPU strategy chooses among those whose
\* usage is unknown, and the monitor never learns one (see MonitorRound).
Choose(c) ==
    /\ In(c, "only") \/ In(c, "choose")
    /\ \E k \in Offered(c) : Select(c, caller[c].list[k])
    /\ UNCHANGED <<directoryVars, strategy, ringVars, overwritten, monitor, disturbed, mixed>>

\* The invocation goes to the invoker, which raises when it is destroyed.
Invoke(c) ==
    /\ In(c, "selected")
    /\ Finish(c)
    /\ disturbed' = disturbed \ {c}
    /\ UNCHANGED <<directoryVars, strategy, ringVars, overwritten, monitor, mixed>>

----------------------------------------------------------------------------
(* ConsistentHashLoadBalance.do_select *)

Selecting(d) ==
    caller[d].pc \in {"check", "clear", "put", "sort", "cache", "log", "search", "lookup"}
Rebuilding(d) == caller[d].pc \in {"put", "sort", "cache"}

\* Every step of a rebuild may disturb the selections of the others.
Disturb(c) == disturbed' = disturbed \cup {d \in Callers \ {c} : Selecting(d)}

\* Whether the ring is the one of the list.
KnownSubset(c) == Offered(c) \subseteq cached      \* Mutation
Known(c) == Offered(c) = cached

\* check_invoker compares URLs, not invokers; a destroyed one has none, and raises.
Check(c) ==
    /\ In(c, "check")
    /\ IF ~AllOpen(c) THEN Finish(c)
       ELSE Go(c, IF Known(c) THEN "search" ELSE "clear")
    /\ disturbed' = IF \E d \in Callers : Rebuilding(d) THEN disturbed \cup {c} ELSE disturbed
    /\ UNCHANGED <<directoryVars, strategy, ringVars, overwritten, monitor, mixed>>

ClearRing(c) ==
    /\ In(c, "clear")
    /\ ring' = Empty
    /\ caller' = [caller EXCEPT ![c].pc = "put", ![c].todo = Offered(c)]
    /\ mixed' = (mixed \/ \E d \in Callers : Rebuilding(d))
    /\ Disturb(c)
    /\ UNCHANGED <<directoryVars, strategy, sorted, cached, overwritten, monitor>>

\* The virtual nodes of one invoker.
PutNodes(c) ==
    /\ In(c, "put")
    /\ \E k \in caller[c].todo :
          IF ~Open(caller[c].list[k])
          THEN Finish(c) /\ UNCHANGED ring
          ELSE /\ ring' = [ring EXCEPT ![k] = caller[c].list[k]]
               /\ caller' = [caller EXCEPT ![c].todo = @ \ {k},
                                 ![c].pc = IF caller[c].todo = {k} THEN "sort" ELSE @]
    /\ Disturb(c)
    /\ UNCHANGED <<directoryVars, strategy, sorted, cached, overwritten, monitor, mixed>>

SortHashes(c) ==
    /\ In(c, "sort")
    /\ sorted' = InTable(ring)
    /\ Go(c, "cache")
    /\ Disturb(c)
    /\ UNCHANGED <<directoryVars, strategy, ring, cached, overwritten, monitor, mixed>>

\* An invoker that was destroyed since raises: the list that is cached is then
\* not the list the ring was built for.
Cache(c) ==
    /\ In(c, "cache")
    /\ IF AllOpen(c)
       THEN /\ cached' = Offered(c)
            /\ Go(c, "log")
            /\ mixed' = (mixed /\ (c \in disturbed \/ \E d \in Callers \ {c} : Rebuilding(d)))
       ELSE /\ Finish(c)
            /\ mixed' = TRUE
            /\ UNCHANGED cached
    /\ Disturb(c)
    /\ UNCHANGED <<directoryVars, strategy, ring, sorted, overwritten, monitor>>

\* The message is assigned to the method of the logger, not given to it.
Overwrite(c) ==
    /\ In(c, "log")
    /\ overwritten' = TRUE
    /\ Go(c, "search")
    /\ UNCHANGED <<directoryVars, strategy, ringVars, monitor, disturbed, mixed>>

\* The hash of the request; without a hash None is selected, and invoked.
Search(c) ==
    /\ In(c, "search")
    /\ \/ sorted = {} /\ Finish(c)
       \/ \E k \in sorted : caller' = [caller EXCEPT ![c].pc = "lookup", ![c].todo = {k}]
    /\ UNCHANGED <<directoryVars, strategy, ringVars, overwritten, monitor, disturbed, mixed>>

\* self._hash_ring[target_hash], a KeyError when the ring has lost it meanwhile.
RingLookup(c) ==
    /\ In(c, "lookup")
    /\ \E k \in caller[c].todo :
          IF ring[k] = None THEN Finish(c) ELSE Select(c, ring[k])
    /\ disturbed' = IF mixed THEN disturbed \cup {c} ELSE disturbed
    /\ UNCHANGED <<directoryVars, strategy, ringVars, overwritten, monitor, mixed>>

----------------------------------------------------------------------------
(* CpuMonitor._monitor_cpu *)

\* One round over the table. The thread ends when an invoker was destroyed, and when
\* one is connected: _cpu_invocation has no method descriptor, so its invocation
\* raises, and so does the removal of a usage that was never recorded. With no
\* connected invoker it waits for the next round; nothing calls stop.
MonitorRound ==
    /\ monitor = "running"
    /\ \/ /\ \E k \in InTable(table) : invokers[table[k]].state \in {"open", "destroyed"}
          /\ monitor' = "dead"
       \/ (\A k \in InTable(table) : Open(table[k])) /\ UNCHANGED monitor
    /\ UNCHANGED <<directoryVars, strategy, caller, ringVars, overwritten, disturbed, mixed>>

----------------------------------------------------------------------------
InUse(i) ==
    \/ \E k \in Keys : ring[k] = i
    \/ \E c \in Callers : caller[c].pick = i \/ \E k \in Keys : caller[c].list[k] = i
Free(i) == ~InUse(i) /\ ~Listed(i)

\* The directory, while its notifications do not overlap. What happens to an
\* invoker that neither the table nor a caller refers to is of no consequence
\* here: it is as good as one that does not exist. AioClient.connect logs its
\* success, and has failed when it cannot: no invoker is made any more.
DirectoryStep ==
    /\ steps < MaxSteps
    /\ steps' = steps + 1
    /\ \/ Clear /\ UNCHANGED renewed
       \/ \E i \in Invokers : InUse(i) /\ Destroy(i) /\ UNCHANGED renewed
       \/ \E k \in Keys, i \in Invokers : InUse(i) /\ Keep(k, i) /\ UNCHANGED renewed
       \/ \E k \in Keys, i \in Invokers :
             /\ ~overwritten
             /\ Free(i) /\ \A j \in Invokers : Free(j) => i <= j
             /\ Connect(k, i)
             /\ renewed' = IF \E j \in Invokers : InUse(j) /\ invokers[j].key = {k}
                           THEN renewed \cup {k} ELSE renewed

Caller(c) ==
    \/ GetList(c) \/ Choose(c) \/ Invoke(c)
    \/ Check(c) \/ ClearRing(c) \/ PutNodes(c) \/ SortHashes(c) \/ Cache(c) \/ Overwrite(c)
    \/ Search(c) \/ RingLookup(c)

BalanceNext ==
    \/ DirectoryStep /\ UNCHANGED balanceVars
    \/ \E c \in Callers : Caller(c)
    \/ MonitorRound

BalanceSpec == BalanceInit /\ [][BalanceNext]_serviceVars

----------------------------------------------------------------------------
(* Properties *)

\* A caller is given an invoker of the list it read, not merely one for the same URL,
\* unless another caller rebuilt the ring during its selection, or the ring is the work
\* of two rebuilds or of one that raised (loadbalances.py 136-205). check_invoker
\* compares URLs: a URL that got a new invoker while the ring, or a caller who then builds
\* one, had an earlier one is the other exception (a provider that left and returned).
RoutedToListed ==
    \A c \in Callers : In(c, "selected") /\ c \notin disturbed =>
        \E k \in Offered(c) :
            \/ caller[c].pick = caller[c].list[k]
            \/ invokers[caller[c].pick].key = {k} /\ k \in renewed
=============================================================================
