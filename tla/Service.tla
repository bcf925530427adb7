------------------------------ MODULE Service ------------------------------
(***************************************************************************)
(* A process that runs a Lawgenesis service (lawgenesis_server.py): its    *)
(* configurations (Reloader), its start, which reads them while they are   *)
(* reloaded and builds a server of them (Facade) beside the other facades  *)
(* of the process, and the calls of a method through what the decorator    *)
(* wraps around it: type, authorization, limit, cache, business function.  *)
(*                                                                         *)
(* The limiter (throttled) and the cache (cachetools behind a lock) are    *)
(* one step each. Two attributes stand for those of the server's           *)
(* configuration: host and port, and register_center_url with the group    *)
(* and version that are set on what it says.                               *)
(***************************************************************************)
EXTENDS Reloader, Facade

CONSTANTS
    Lawgenesis,     \* the server facade of the service
    Name,           \* its service_name
    HostOf, PortOf, CenterOf, \* the attributes each dictionary of the server's gives
    Cached,         \* the dictionaries that enable the method's cache
    Limited,        \* the dictionaries that limit the users of the method
    Calls, Users, Keys,
    NoAnswer,       \* a cache entry, or a reply, that there is not
    Strategy, Amount, Multiples,    \* the RateLimitKeyConfig they give each user
    Scenarios       \* bound: the edits, facades, plans and calls there are in one behaviour,
                    \* and what the clients of configurations used before have read

ASSUME ServiceAssumption ==
    /\ Scenarios \subseteq
          [edits : 0..MaxChanges, snapshot : [Configs -> {"none"} \cup Contents],
           facades : SUBSET Facades, plan : Setups, calls : SUBSET Calls]
    /\ {"server", "method"} \subseteq Configs /\ Lawgenesis \in Servers
    /\ NoAnswer \notin Calls
    /\ Strategy \in [Users -> STRING] /\ Amount \in [Users -> Nat] /\ Multiples \in [Users -> Nat]
    /\ Cached \subseteq Dicts /\ Limited \subseteq Dicts

VARIABLES
    \* the thread that starts the service
    boot,           \* "absent" when the process has other facades only
    served,         \* the dictionaries the attributes it read are from
    settings,       \* the content the method was registered with
    \* calls
    call,           \* of each, its user, cache key, whether it asks for the cache
    pc, reply,
    count,          \* the limiter: calls of each user it admitted in this window
    cache,          \* the call whose answer is stored under a key
    \* history
    said,           \* the server's configuration when the service began to read it
    early,          \* the service went on before its configurations were loaded
    torn            \* the server's configuration was reloaded while it was read

bootVars == <<boot, served, settings, said, early, torn>>
callVars == <<call, pc, reply, count, cache>>
serviceVars == <<reloaderVars, facadeVars, bootVars, callVars>>

Requests == [user : Users, key : Keys, is_cache : BOOLEAN]
NoCall == [user |-> "none", key |-> "none", is_cache |-> FALSE]
NoReply == [kind |-> "none", from |-> NoAnswer]

ServiceInit ==
    /\ \E s \in Scenarios :
          /\ ReloaderInit(s.edits, s.snapshot) /\ FacadeInit(s.facades) /\ plan = s.plan
          /\ pc = [c \in Calls |-> IF c \in s.calls THEN "new" ELSE "absent"]
          /\ boot = IF Lawgenesis \in s.facades THEN "load" ELSE "absent"
    /\ served = <<"none", "none">> /\ settings = "none"
    /\ said = "none" /\ early = FALSE /\ torn = FALSE
    /\ call = [c \in Calls |-> NoCall]
    /\ reply = [c \in Calls |-> NoReply]
    /\ count = [u \in Users |-> 0] /\ cache = [k \in Keys |-> NoAnswer]

----------------------------------------------------------------------------
(* Start *)

Boot(from, to) == boot = from /\ boot' = to

\* The constructor gives the loop two seconds, and goes on whatever it has loaded.
Wait ==
    /\ Boot("load", "decorate")
    /\ early' = (loader.pc \notin {"running", "dead"} \/ ~Free)
    /\ UNCHANGED <<reloaderVars, facadeVars, served, settings, said, torn, callVars>>

\* @methods: the limiter and the cache are made from the configuration of the
\* moment, and kept when it is reloaded.
Decorate ==
    /\ Boot("decorate", "host")
    /\ settings' = content["method"]
    /\ UNCHANGED <<reloaderVars, facadeVars, served, said, early, torn, callVars>>

\* server: the attributes of the configuration are read one by one.
ReadHost ==
    /\ Boot("host", "center")
    /\ served' = [served EXCEPT ![1] = attribute["server"][1]]
    /\ said' = content["server"] /\ torn' = (assigning.config = "server")
    /\ UNCHANGED <<reloaderVars, facadeVars, settings, early, callVars>>

\* With a center the server goes through Dubbo(registry_config), without one through
\* Dubbo().
ReadCenter ==
    LET host == served[1]
        center == attribute["server"][2]
        service == NewService(HostOf[host], PortOf[host], Name)
    IN /\ Boot("center", "started")
       /\ served' = [served EXCEPT ![2] = center]
       /\ plan' = [plan EXCEPT ![Lawgenesis] = Plan(TRUE, CenterOf[center], NoApplication, service)]
       /\ UNCHANGED <<reloaderVars, dubboVars, at, read, value, useVars, disturbed, settings,
                      said, early, torn, callVars>>

----------------------------------------------------------------------------
(* The wrapper of a method *)

Step(c, from, to) == pc[c] = from /\ pc' = [pc EXCEPT ![c] = to]
Return(c, from, kind, source) ==
    Step(c, from, "done") /\ reply' = [reply EXCEPT ![c] = [kind |-> kind, from |-> source]]
Continue(c, from, to) == Step(c, from, to) /\ UNCHANGED reply

IsLimited == settings \in Limited
CacheEnabled == settings \in Cached

\* The data type and the authorization are checked first.
Arrive(c) ==
    /\ at[Lawgenesis] = "exported"
    /\ \E r \in Requests : call' = [call EXCEPT ![c] = r]
    /\ Continue(c, "new", "limit") \/ Return(c, "new", "refused", NoAnswer)
    /\ UNCHANGED <<reloaderVars, facadeVars, bootVars, count, cache>>

\* quate: the calls a user has in so many seconds. fixed_window and the others call it
\* with the two the other way round.
Quate(limits_storge_multiples, limits_storge_amount) ==
    [seconds |-> limits_storge_multiples, limit |-> limits_storge_amount]
QuotaOf(u) == Quate(Amount[u], Multiples[u])

\* The library's other strategies refuse and admit as they like here.
FixedWindow(u) == Strategy[u] \notin {"sliding_window", "token_bucket", "leaking_bucket", "gcra"}
Admits(u) == FixedWindow(u) => count[u] < QuotaOf(u).limit
Refuses(u) == FixedWindow(u) => count[u] >= QuotaOf(u).limit

\* A user without an entry in limits_keys_operation is not limited.
Limit(c) ==
    LET u == call[c].user
    IN /\ pc[c] = "limit"
       /\ \/ /\ IsLimited /\ Refuses(u)
             /\ Return(c, "limit", "limited", NoAnswer)
             /\ UNCHANGED count
          \/ /\ IsLimited /\ Admits(u)
             /\ Continue(c, "limit", "lookup")
             /\ count' = [count EXCEPT ![u] = @ + 1]
          \/ /\ ~IsLimited
             /\ Continue(c, "limit", "lookup")
             /\ UNCHANGED count
       /\ UNCHANGED <<reloaderVars, facadeVars, bootVars, call, cache>>

Hits(c) == call[c].is_cache /\ CacheEnabled /\ cache[call[c].key] # NoAnswer

Lookup(c) ==
    /\ pc[c] = "lookup"
    /\ \/ Hits(c) /\ Return(c, "lookup", "hit", cache[call[c].key])
       \/ ~Hits(c) /\ Continue(c, "lookup", "execute")
    /\ UNCHANGED <<reloaderVars, facadeVars, bootVars, call, count, cache>>

\* The business function returns a dictionary, or something else, or raises.
Execute(c) ==
    /\ Continue(c, "execute", "store") \/ Return(c, "execute", "failed", NoAnswer)
    /\ UNCHANGED <<reloaderVars, facadeVars, bootVars, call, count, cache>>

StoresFirst(c) == cache' = [cache EXCEPT ![call[c].key] = c]   \* Mutation
StoreRaises(c) == UNCHANGED cache

\* The answer is stored whether or not the call asked for the cache; an answer that
\* is larger than the cache raises, and the call fails after all.
Store(c) ==
    /\ \/ /\ Return(c, "store", "ok", c)
          /\ cache' = IF CacheEnabled THEN [cache EXCEPT ![call[c].key] = c] ELSE cache
       \/ /\ CacheEnabled
          /\ Return(c, "store", "failed", NoAnswer)
          /\ StoreRaises(c)
    /\ UNCHANGED <<reloaderVars, facadeVars, bootVars, call, count>>

\* Time passes: an entry is older than cache_ttl, a new window begins.
Expire(k) ==
    /\ cache[k] # NoAnswer
    /\ cache' = [cache EXCEPT ![k] = NoAnswer]
    /\ UNCHANGED <<reloaderVars, facadeVars, bootVars, call, pc, reply, count>>

NextWindow(u) ==
    /\ count[u] # 0
    /\ count' = [count EXCEPT ![u] = 0]
    /\ UNCHANGED <<reloaderVars, facadeVars, bootVars, call, pc, reply, cache>>

----------------------------------------------------------------------------
Booting == Wait \/ Decorate \/ ReadHost \/ ReadCenter
Wrapper(c) == Arrive(c) \/ Limit(c) \/ Lookup(c) \/ Execute(c) \/ Store(c)

\* A process without a service loads no configuration. A reload that assigns while the
\* server's configuration is read tears it.
Reloading ==
    /\ boot # "absent" /\ ReloaderNext
    /\ torn' = (torn \/ (boot = "center" /\ assigning'.config = "server"))
    /\ UNCHANGED <<facadeVars, boot, served, settings, said, early, callVars>>

\* The service builds its server when it has read its configuration.
Building(f) ==
    /\ f = Lawgenesis => boot = "started"
    /\ Facading(f)
    /\ UNCHANGED <<reloaderVars, bootVars, callVars>>

ServiceNext ==
    \/ Reloading \/ Booting
    \/ \E f \in Facades : Building(f)
    \/ \E c \in Calls : Wrapper(c)
    \/ \E k \in Keys : Expire(k)
    \/ \E u \in Users : NextWindow(u)

ServiceSpec == ServiceInit /\ [][ServiceNext]_serviceVars

\* The event loop of the configurations runs what is ready, listeners poll for ever.
ServiceFairness == WF_serviceVars(Reloading /\ Loop)
FairServiceSpec == ServiceSpec /\ ServiceFairness

----------------------------------------------------------------------------
(* Properties *)

ServiceTypes ==
    /\ ReloaderTypeOK
    /\ boot \in {"absent", "load", "decorate", "host", "center", "started"}
    /\ {settings, said} \subseteq {"none", "text"} \cup Dicts /\ served \in [1..2 -> {"none"} \cup Dicts]
    /\ at \in [Facades -> UnderWay \cup {"absent", "new", "built", "failed", "referred", "export",
                                        "exported"}]
    /\ registry \in Facades \cup {NoRegistry} /\ read \in [Facades -> Facades \cup {NoRegistry}]
    /\ protocol \in [Facades -> {"none", "tri", "registry"}]
    /\ call \in [Calls -> Requests \cup {NoCall}]
    /\ pc \in [Calls -> {"absent", "new", "limit", "lookup", "execute", "store", "done"}]
    /\ reply \in [Calls -> [kind : {"none", "refused", "limited", "hit", "failed", "ok"},
                            from : Calls \cup {NoAnswer}]]
    /\ count \in [Users -> Nat] /\ cache \in [Keys -> Calls \cup {NoAnswer}]

\* The versions the i-th attribute may be of while v is the content: v when it has the
\* key, otherwise an earlier one, or none.
Sources(v, i) ==
    IF i \in Range(Given[v]) THEN {v} ELSE {"none"} \cup {w \in Dicts : i \in Range(Given[w])}

Listens(b, v) == (HostOf[v] # Blank => b[2][1] = HostOf[v]) /\ (PortOf[v] # NoPort => b[2][2] = PortOf[v])

\* With a center the socket's address is registered there, without one nowhere.
RegisteredAs(b, v) ==
    LET text == CenterOf[v]
    IN IF text = NoRegistry THEN protocol[Lawgenesis] = "tri"
       ELSE \E n \in names : /\ n.registry = Location(text)
                             /\ Location(n.text) = b[2] /\ n.service = Name

\* The service listens, and is registered, as the configuration it found says in all it
\* says; what that leaves out is as an earlier version said, or not set. This
\* is unless the service did not wait for its configuration, it was reloaded while it
\* was read or could not be loaded, or another thread assigned to Dubbo while the server
\* was built (lawgenesis_server.py 96-101, 185-204, lawgenes_config.py 105-120).
ServedAsConfigured ==
    at[Lawgenesis] = "exported" /\ ~early /\ ~torn /\ ~disturbed[Lawgenesis]
        /\ listener["server"] # "none" =>
        /\ said \in Dicts
        /\ \E b \in bound, h \in Sources(said, 1), r \in Sources(said, 2) :
              b[1] = Lawgenesis /\ Listens(b, h) /\ RegisteredAs(b, r)

\* A call that is answered from the cache is given the answer of a call that went
\* well and had the same cache key; and it asked for it (lawgenesis_server.py
\* 284-310).
HitIsAnAnswer ==
    \A c \in Calls : reply[c].kind = "hit" =>
        /\ reply[reply[c].from].kind = "ok"
        /\ call[reply[c].from].key = call[c].key
        /\ call[c].is_cache
=============================================================================
