------------------------------ MODULE Registry ------------------------------
(***************************************************************************)
(* A service in ZooKeeper (registry/zookeeper/zk_registry.py and           *)
(* kazoo_transport.py): providers that register an ephemeral node and then *)
(* bind their port (registry/protocol.py), crash and start again, and a    *)
(* consumer whose directory is told of the nodes by a watch of kazoo.      *)
(*                                                                         *)
(* A client facade has a transport of its own, so a client of ZooKeeper    *)
(* has one watch with one listener. What the directory does while it is    *)
(* notified is in Directory; kazoo and ZooKeeper are modelled from how     *)
(* they are used here.                                                     *)
(***************************************************************************)
EXTENDS Integers, FiniteSets

CONSTANTS
    Providers,    \* the addresses providers serve
    MaxFaults     \* bound of the crashes, lost sessions and suspended connections

ASSUME RegistryAssumption == IsFiniteSet(Providers) /\ MaxFaults \in Nat

VARIABLES
    \* ZooKeeper
    node,         \* of each address: no node, the node of the session its process
                  \* has, or one left by an earlier session
    parent,       \* the path of the service exists
    \* the providers
    process,
    \* the consumer
    consumer,     \* "new", "subscribing", "ready" or "failed": refer raised
    link,         \* its connection to ZooKeeper
    armed,        \* the one-shot watch is set
    event,        \* the watch has fired, and its event is under way
    \* ChildrenWatch
    established,  \* _watch_established
    stopped,      \* _stopped
    prior,        \* _prior_children
    running,      \* the children its function is being given
    \* the directory
    listed,       \* the URLs in its table
    \* history
    adopted,      \* processes that updated a node of an earlier session
    expired,      \* processes whose session has expired
    cut,          \* the last notification was cut short by an exception
    faults

zooVars == <<node, parent>>
watchVars == <<armed, event, established, stopped, prior, running>>
consumerVars == <<consumer, link, watchVars, listed, cut>>
providerVars == <<process, adopted, expired>>
registryVars == <<zooVars, providerVars, consumerVars, faults>>

Unknown == [known |-> FALSE, urls |-> {}]
Children == {p \in Providers : node[p] # "none"}
Serving(p) == process[p] = "serving"
Still == [busy |-> FALSE, urls |-> {}]

RegistryInit ==
    /\ node = [p \in Providers |-> "none"] /\ parent = FALSE
    /\ process = [p \in Providers |-> "down"] /\ adopted = {} /\ expired = {}
    /\ consumer = "new" /\ link = "closed" /\ armed = FALSE /\ event = FALSE
    /\ established = FALSE /\ stopped = FALSE /\ prior = Unknown /\ running = Still
    /\ listed = {} /\ cut = FALSE
    /\ faults = 0

Fault == faults < MaxFaults /\ faults' = faults + 1

\* A change of the nodes of the service, with what the watch makes of it.
SetNode(p, owner) ==
    /\ node' = [node EXCEPT ![p] = owner]
    /\ IF armed /\ ~(node[p] = "none" <=> owner = "none")
       THEN armed' = FALSE /\ event' = TRUE
       ELSE UNCHANGED <<armed, event>>

----------------------------------------------------------------------------
(* A provider: Server.start, RegistryProtocol.export *)

\* A new process opens a session, and looks for the node of its address.
Start(p) ==
    /\ process[p] = "down"
    /\ process' = [process EXCEPT ![p] = IF node[p] = "none" THEN "create" ELSE "set"]
    /\ adopted' = adopted \ {p} /\ expired' = expired \ {p}
    /\ UNCHANGED <<zooVars, consumerVars, faults>>

\* create_or_update creates the node, and the path that leads to it...
Create(p) ==
    /\ process[p] = "create"
    /\ SetNode(p, "own")
    /\ parent' = TRUE
    /\ process' = [process EXCEPT ![p] = "bind"]
    /\ UNCHANGED <<adopted, expired, consumer, link, established, stopped, prior, running, listed,
                   cut, faults>>

NotGone(p) == FALSE         \* Mutation
Gone(p) == node[p] = "none"

\* ... or writes the data of the one it has seen, which stays the node of the
\* session that created it, and raises when that session has expired meanwhile.
Update(p) ==
    /\ process[p] = "set"
    /\ process' = [process EXCEPT ![p] = IF Gone(p) THEN "down" ELSE "bind"]
    /\ adopted' = IF node[p] = "none" THEN adopted ELSE adopted \cup {p}
    /\ UNCHANGED <<zooVars, expired, consumerVars, faults>>

\* TripleProtocol.export; the port may be taken, and the process goes on without
\* a server, its node in place.
Bind(p) ==
    /\ process[p] = "bind"
    /\ \/ process' = [process EXCEPT ![p] = "serving"] /\ UNCHANGED faults
       \/ Fault /\ process' = [process EXCEPT ![p] = "unbound"]
    /\ UNCHANGED <<zooVars, adopted, expired, consumerVars>>

\* The process ends, and leaves its node to the session's timeout.
Crash(p) ==
    /\ process[p] # "down"
    /\ Fault
    /\ process' = [process EXCEPT ![p] = "down"]
    /\ node' = [node EXCEPT ![p] = IF @ = "own" THEN "left" ELSE @]
    /\ adopted' = adopted \ {p} /\ expired' = expired \ {p}
    /\ UNCHANGED <<parent, consumerVars>>

\* ZooKeeper removes the ephemeral node of a session that is gone.
Expire(p) ==
    /\ node[p] = "left"
    /\ SetNode(p, "none")
    /\ UNCHANGED <<parent, providerVars, consumer, link, established, stopped, prior, running,
                   listed, cut, faults>>

\* The session of a process that runs expires; kazoo opens another one, the
\* state listener writes a line to the log, and nothing registers again.
LoseSession(p) ==
    /\ node[p] = "own"
    /\ Fault
    /\ SetNode(p, "none")
    /\ expired' = expired \cup {p}
    /\ UNCHANGED <<parent, process, adopted, consumer, link, established, stopped, prior, running,
                   listed, cut>>

----------------------------------------------------------------------------
(* The consumer: RegistryProtocol.refer, ZookeeperRegistry.subscribe *)

\* The transport starts a client, and the directory subscribes to the path.
StartClient ==
    /\ consumer = "new"
    /\ consumer' = "subscribing" /\ link' = "connected"
    /\ UNCHANGED <<zooVars, providerVars, watchVars, listed, cut, faults>>

\* ChildrenWatch fetches the children: in its constructor, after an event and
\* after a reconnection. A path that does not exist ends the watch for good.
Fetch ==
    /\ link = "connected" /\ ~stopped /\ ~running.busy
    /\ \/ consumer = "subscribing" /\ ~prior.known
       \/ consumer = "ready" /\ (event \/ ~established)
    /\ event' = FALSE
    /\ IF parent
       THEN /\ armed' = TRUE /\ established' = TRUE
            /\ prior' = [known |-> TRUE, urls |-> Children]
            /\ running' = [busy |-> prior # prior', urls |-> Children]
            /\ UNCHANGED <<consumer, stopped>>
       ELSE /\ stopped' = TRUE
            /\ consumer' = "ready"
            /\ UNCHANGED <<armed, established, prior, running>>
    /\ UNCHANGED <<zooVars, providerVars, link, listed, cut, faults>>

\* The table after a notification.
Added(urls) == listed \cup urls      \* Mutation
Given(urls) == urls

\* ChildrenListenerAdapter and _DefaultChildrenListener hand the URLs to notify,
\* which connects to those it does not know.
Notified ==
    /\ running.busy
    /\ \A p \in running.urls \ listed : Serving(p)
    /\ listed' = Given(running.urls)
    /\ consumer' = "ready" /\ cut' = FALSE
    /\ running' = Still
    /\ UNCHANGED <<zooVars, providerVars, link, armed, event, established, stopped, prior, faults>>

\* A provider that is not there refuses the connection: notify keeps what it had
\* reached, and raises. Kazoo logs the exception of a watch; in the constructor it
\* leaves refer. The children are not given again.
Refused ==
    /\ running.busy
    /\ \E p \in running.urls \ listed : ~Serving(p)
    /\ listed' \in SUBSET {p \in running.urls : p \in listed \/ Serving(p)}
    /\ consumer' = IF consumer = "subscribing" THEN "failed" ELSE consumer
    /\ cut' = TRUE
    /\ running' = Still
    /\ UNCHANGED <<zooVars, providerVars, link, armed, event, established, stopped, prior, faults>>

Survives == established' = established      \* Mutation
Lapses == established' = FALSE

\* The connection to ZooKeeper is suspended or lost, and with it the watch.
Suspend ==
    /\ link = "connected" /\ consumer = "ready"
    /\ Fault
    /\ link' = "suspended"
    /\ armed' = FALSE /\ event' = FALSE /\ Lapses
    /\ UNCHANGED <<zooVars, providerVars, consumer, stopped, prior, running, listed, cut>>

Resume ==
    /\ link = "suspended"
    /\ link' = "connected"
    /\ UNCHANGED <<zooVars, providerVars, consumer, watchVars, listed, cut, faults>>

----------------------------------------------------------------------------
Export(p) == Start(p) \/ Create(p) \/ Update(p) \/ Bind(p)
Watch == Fetch \/ Notified \/ Refused \/ Resume

RegistryNext ==
    \/ \E p \in Providers : Export(p) \/ Crash(p) \/ Expire(p) \/ LoseSession(p)
    \/ StartClient \/ Watch \/ Suspend

RegistrySpec == RegistryInit /\ [][RegistryNext]_registryVars

\* A process that exports goes on, ZooKeeper expires the sessions that are gone, and
\* kazoo's threads deliver events and reconnect. No provider has to start.
FairRegistrySpec ==
    /\ RegistrySpec
    /\ \A p \in Providers : WF_registryVars(Create(p) \/ Update(p) \/ Bind(p)) /\ WF_registryVars(Expire(p))
    /\ WF_registryVars(Watch)

----------------------------------------------------------------------------
(* Properties *)

RegistryTypes ==
    /\ node \in [Providers -> {"none", "own", "left"}] /\ parent \in BOOLEAN
    /\ process \in [Providers -> {"down", "create", "set", "bind", "serving", "unbound"}]
    /\ consumer \in {"new", "subscribing", "ready", "failed"}
    /\ link \in {"closed", "connected", "suspended"}
    /\ armed \in BOOLEAN /\ event \in BOOLEAN /\ established \in BOOLEAN /\ stopped \in BOOLEAN
    /\ prior \in [known : BOOLEAN, urls : SUBSET Providers]
    /\ running \in [busy : BOOLEAN, urls : SUBSET Providers]
    /\ listed \subseteq Providers
    /\ adopted \subseteq Providers /\ expired \subseteq Providers /\ cut \in BOOLEAN
    /\ faults \in 0..MaxFaults

\* A provider that serves is registered, unless it took over the node of an earlier
\* process, which ZooKeeper removes, or lost its session (kazoo_transport.py 351).
ServingIsRegistered ==
    \A p \in Providers : Serving(p) /\ p \notin adopted \cup expired => node[p] = "own"

\* No watch is lost: a consumer that is connected has a watch set, an event under
\* way or children to fetch, and knows the children unless one of these is due.
NothingMissed ==
    consumer = "ready" /\ link = "connected" /\ ~stopped =>
        event \/ ~established \/ (armed /\ prior.urls = Children)

\* The directory lists what is registered again and again, unless a notification was
\* cut short or the watch found no path when it was set (zk_registry.py 110-113).
ConsumersLearn ==
    []<>(consumer \in {"new", "failed"} \/ stopped \/ cut \/ listed = Children)
=============================================================================
