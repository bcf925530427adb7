------------------------------- MODULE Facade -------------------------------
(***************************************************************************)
(* Clients and servers of one process, from their configurations to a      *)
(* reference or a listening socket: Dubbo (bootstrap.py), a singleton      *)
(* whose constructor runs again for everyone who calls it, Client and      *)
(* Server (client.py, server.py), RegistryProtocol, TripleProtocol.export  *)
(* and AioServer.                                                          *)
(*                                                                         *)
(* Every facade is built by a thread of its own. A registry is what is     *)
(* registered in it; its sessions are in Registry, its notifications in    *)
(* Directory. Of ApplicationConfig the version is kept. The threads take   *)
(* no lock: each reads Dubbo's two configurations again for every use.     *)
(***************************************************************************)
EXTENDS Url, FiniteSets

CONSTANTS
    Clients, Servers,
    Setups,         \* the plans the threads of the facades may have together
    NoRegistry,     \* None instead of a registry configuration
    NoApplication,  \* None instead of an application configuration
    MaxStarts       \* bound of the calls of Server.start

Facades == Clients \cup Servers

\* registryFactoryRegistry
Extensions == {"zookeeper", "nacos"}

\* What a thread is given: whether it calls Dubbo(...) or uses the one that is there,
\* the text of its registry configuration, the version of its application, and a
\* ServiceConfig, or the ReferenceConfig of a client.
Plan(constructs, text, version, service) ==
    [constructs |-> constructs, registry |-> text, application |-> version, service |-> service]

ASSUME FacadeAssumption ==
    /\ \A p \in Setups : DOMAIN p = Facades
    /\ Clients \cap Servers = {} /\ NoRegistry \notin Facades /\ NoApplication # Blank
    /\ MaxStarts \in Nat

VARIABLES
    plan,
    \* Dubbo
    application,    \* _application_config: its version, or NoApplication
    registry,       \* _registry_config: the facade whose thread gave it, or NoRegistry
    object,         \* the registry configuration each thread made
    \* of each facade
    at,             \* the step of its thread
    read,           \* the registry configuration it has read
    value,          \* the version it has read
    protocol,       \* _protocol
    target,         \* _url
    starts,
    nesting,        \* of the lists in SERVICE_HANDLER of the server's URL
    loops,          \* event loops that its AioServers have started
    referred,       \* addresses of a client's first invokers
    \* outside
    names,          \* what is registered, and where
    bound,          \* the listening sockets: server and address
    \* history
    disturbed       \* another thread assigned to Dubbo, or to this facade's registry
                    \* configuration, while the facade was built

dubboVars == <<application, registry, object>>
serverVars == <<starts, nesting, loops, names, bound>>
useVars == <<protocol, target, referred, serverVars>>
facadeVars == <<plan, dubboVars, at, read, value, useVars, disturbed>>

NoUrl == NewUrl("none", Blank, NoPort, Blank, Blank, Blank, [k \in {} |-> Blank])
Addresses == {b[2] : b \in bound}

FacadeInit(active) ==
    /\ plan \in Setups
    /\ application = NoApplication /\ registry = NoRegistry /\ object = [f \in Facades |-> RegistryOf(NoUrl)]
    /\ at = [f \in Facades |-> IF f \in active THEN "new" ELSE "absent"]
    /\ read = [f \in Facades |-> NoRegistry] /\ value = [f \in Facades |-> Blank]
    /\ protocol = [f \in Facades |-> "none"] /\ target = [f \in Facades |-> NoUrl]
    /\ starts = [f \in Facades |-> 0] /\ nesting = starts /\ loops = starts
    /\ referred = [f \in Facades |-> {}]
    /\ names = {} /\ bound = {}
    /\ disturbed = [f \in Facades |-> FALSE]

Moves(f, from, to) == at[f] = from /\ at' = [at EXCEPT ![f] = to]

UnderWay == {"registry", "default", "fill", "test", "version", "lacks", "value", "object",
             "store", "read", "choose", "url"}

\* The facades that are being built while f assigns to Dubbo.
Disturbs(f) == disturbed' = [g \in Facades |-> disturbed[g] \/ (g # f /\ at[g] \in UnderWay)]

----------------------------------------------------------------------------
(* Dubbo(...): __new__ returns the instance there is, __init__ assigns to it. *)

Reuse(f) ==
    /\ ~plan[f].constructs
    /\ Moves(f, "new", "read")
    /\ UNCHANGED <<plan, dubboVars, read, value, useVars, disturbed>>

SetApplication(f) ==
    /\ plan[f].constructs
    /\ Moves(f, "new", "registry")
    /\ application' = plan[f].application
    /\ Disturbs(f)
    /\ UNCHANGED <<plan, registry, object, read, value, useVars>>

SetRegistry(f) ==
    /\ Moves(f, "registry", "default")
    /\ IF plan[f].registry = NoRegistry
       THEN registry' = NoRegistry /\ UNCHANGED object
       ELSE /\ registry' = f
            /\ object' = [object EXCEPT ![f] = RegistryOf(CreateUrl(plan[f].registry))]
    /\ Disturbs(f)
    /\ UNCHANGED <<plan, application, read, value, useVars>>

----------------------------------------------------------------------------
(* _check_default: Dubbo gets an application when it has none, and a registry without
   a version gets the application's. What is None when it is used raises. *)

TestApplication(f) ==
    /\ Moves(f, "default", IF application = NoApplication THEN "fill" ELSE "test")
    /\ UNCHANGED <<plan, dubboVars, read, value, useVars, disturbed>>

\* ApplicationConfig("dubbo"), which has no version.
FillApplication(f) ==
    /\ Moves(f, "fill", "test")
    /\ application' = Blank
    /\ Disturbs(f)
    /\ UNCHANGED <<plan, registry, object, read, value, useVars>>

TestRegistry(f) ==
    /\ Moves(f, "test", IF registry = NoRegistry THEN "read" ELSE "version")
    /\ UNCHANGED <<plan, dubboVars, read, value, useVars, disturbed>>

AnyVersion(r) == TRUE       \* Mutation
LacksVersion(r) == object[r].version = Blank

TestVersion(f) ==
    /\ Moves(f, "version", IF registry = NoRegistry THEN "failed"
                           ELSE IF LacksVersion(registry) THEN "lacks" ELSE "read")
    /\ UNCHANGED <<plan, dubboVars, read, value, useVars, disturbed>>

TestApplicationVersion(f) ==
    /\ Moves(f, "lacks", CASE application = NoApplication -> "failed"
                           [] application = Blank -> "read"
                           [] OTHER -> "value")
    /\ UNCHANGED <<plan, dubboVars, read, value, useVars, disturbed>>

\* The assignment reads the version, then the registry configuration it goes to.
ReadVersion(f) ==
    /\ Moves(f, "value", IF application = NoApplication THEN "failed" ELSE "object")
    /\ value' = [value EXCEPT ![f] = IF application = NoApplication THEN @ ELSE application]
    /\ UNCHANGED <<plan, dubboVars, read, useVars, disturbed>>

ReadObject(f) ==
    /\ Moves(f, "object", IF registry = NoRegistry THEN "failed" ELSE "store")
    /\ read' = [read EXCEPT ![f] = registry]
    /\ UNCHANGED <<plan, dubboVars, value, useVars, disturbed>>

StoreVersion(f) ==
    /\ Moves(f, "store", "read")
    /\ object' = [object EXCEPT ![read[f]].version = value[f]]
    /\ disturbed' = [g \in Facades |->
           disturbed[g] \/ (g # f /\ g = read[f] /\ at[g] \in UnderWay)]
    /\ UNCHANGED <<plan, application, registry, read, value, useVars>>

----------------------------------------------------------------------------
(* _initialize of Client and Server: registry_config is read for the URL, and read again
   to choose the protocol. *)

ReadRegistry(f) ==
    /\ Moves(f, "read", "choose")
    /\ read' = [read EXCEPT ![f] = registry]
    /\ UNCHANGED <<plan, dubboVars, value, useVars, disturbed>>

\* RegistryProtocol(None) raises, and get_extension for a name nobody registered.
Buildable(f) ==
    registry = NoRegistry \/ (read[f] # NoRegistry /\ object[read[f]].protocol \in Extensions)

Choose(f) ==
    /\ \/ /\ Buildable(f)
          /\ Moves(f, "choose", "url")
          /\ protocol' = [protocol EXCEPT ![f] = IF registry = NoRegistry THEN "tri" ELSE "registry"]
       \/ ~Buildable(f) /\ Moves(f, "choose", "failed") /\ UNCHANGED protocol
    /\ UNCHANGED <<plan, dubboVars, read, value, target, referred, serverVars, disturbed>>

OwnUrl(f) == IF f \in Clients THEN ReferenceUrl(plan[f].service) ELSE ServiceUrl(plan[f].service)

BuildUrl(f) ==
    IF read[f] = NoRegistry THEN OwnUrl(f)
    ELSE LET url == RegistryUrl(object[read[f]])
         IN IF f \in Clients THEN ClientUrl(url, OwnUrl(f)) ELSE url

Build(f) ==
    /\ Moves(f, "url", "built")
    /\ target' = [target EXCEPT ![f] = BuildUrl(f)]
    /\ UNCHANGED <<plan, dubboVars, read, value, protocol, referred, serverVars, disturbed>>

----------------------------------------------------------------------------
(* Client: refer *)

\* The children of the service's path in the registry a URL names: the path starts with
\* the URL's group in ZooKeeper, Nacos does without.
Root(url) == IF url.scheme = "zookeeper" THEN Get(url.parameters, GROUP) ELSE Blank

Providers(url) ==
    {n.text : n \in {m \in names : /\ m.registry = Location(url) /\ m.root = Root(url)
                                   /\ m.service = Get(url.parameters, SERVICE)}}

\* The directory refers the providers that are registered, and others later. Without a
\* registry the client connects to the URL. Both may fail.
Refer(f) ==
    /\ f \in Clients
    /\ \/ /\ Moves(f, "built", "referred")
          /\ referred' = [referred EXCEPT ![f] =
                 IF protocol[f] = "tri" THEN {Location(target[f])}
                 ELSE {Location(CreateUrl(t)) : t \in Providers(target[f])}]
       \/ Moves(f, "built", "failed") /\ UNCHANGED referred
    /\ UNCHANGED <<plan, dubboVars, read, value, protocol, target, serverVars, disturbed>>

----------------------------------------------------------------------------
(* Server.start: what raises on the way leaves the server as it is, to be started
   again. *)

\* RegistryProtocol.export registers the service, then puts its handler into a list
\* with the CPU monitor's.
Register(f) ==
    /\ protocol[f] = "registry"
    /\ \/ /\ Moves(f, "built", "export")
          /\ names' = names \cup {[registry |-> Location(target[f]), root |-> Root(target[f]),
                                   service |-> plan[f].service.name, text |-> ToStr(OwnUrl(f))]}
          /\ nesting' = [nesting EXCEPT ![f] = @ + 1]
       \/ Moves(f, "built", "built") /\ UNCHANGED <<names, nesting>>

Start(f) ==
    /\ f \in Servers /\ at[f] = "built" /\ starts[f] < MaxStarts
    /\ starts' = [starts EXCEPT ![f] = @ + 1]
    /\ \/ Register(f)
       \/ protocol[f] = "tri" /\ Moves(f, "built", "export") /\ UNCHANGED <<names, nesting>>
    /\ UNCHANGED <<plan, dubboVars, read, value, protocol, target, referred, loops, bound,
                   disturbed>>

ExportTarget(f) == target[f]        \* Mutation

\* What TripleProtocol.export is given: the service's URL, or _url itself.
ExportUrl(f) == IF protocol[f] = "registry" THEN OwnUrl(f) ELSE target[f]

\* TripleProtocol.export: a list of handlers is taken apart, a list within a list has
\* no service_name and raises. AioServer starts an event loop and binds a socket; the
\* loop stays when that fails.
Export(f) ==
    /\ f \in Servers
    /\ \/ /\ nesting[f] <= 1 /\ Location(ExportUrl(f)) \notin Addresses
          /\ Moves(f, "export", "exported")
          /\ loops' = [loops EXCEPT ![f] = @ + 1]
          /\ bound' = bound \cup {<<f, Location(ExportUrl(f))>>}
       \/ /\ nesting[f] <= 1
          /\ Moves(f, "export", "built")
          /\ loops' = [loops EXCEPT ![f] = @ + 1]
          /\ UNCHANGED bound
       \/ /\ nesting[f] > 1
          /\ Moves(f, "export", "built")
          /\ UNCHANGED <<loops, bound>>
    /\ UNCHANGED <<plan, dubboVars, read, value, protocol, target, referred, starts, nesting,
                   names, disturbed>>

----------------------------------------------------------------------------
CheckDefault(f) ==
    \/ TestApplication(f) \/ FillApplication(f) \/ TestRegistry(f) \/ TestVersion(f)
    \/ TestApplicationVersion(f) \/ ReadVersion(f) \/ ReadObject(f) \/ StoreVersion(f)

Facading(f) ==
    \/ Reuse(f) \/ SetApplication(f) \/ SetRegistry(f) \/ CheckDefault(f)
    \/ ReadRegistry(f) \/ Choose(f) \/ Build(f) \/ Refer(f) \/ Start(f) \/ Export(f)

FacadeSpec == FacadeInit(Facades) /\ [][\E f \in Facades : Facading(f)]_facadeVars

----------------------------------------------------------------------------
(* Properties *)

Built(f) == at[f] \in {"built", "referred", "export", "exported"}

\* What the registry configuration of g says of a parameter.
Own(g, k) == Get(plan[g].registry.parameters, k)

\* The versions a registry configuration may have: its own, or what a thread that found
\* some registry without one has read of some application, or of the default one.
Versions(g) == {Own(g, VERSION), Blank} \cup {plan[h].application : h \in Facades}

\* The URL is of the registry configuration g gave, whatever its version.
IsOf(url, g) ==
    LET text == plan[g].registry
    IN /\ text # NoRegistry
       /\ Location(url) = Location(text)
       /\ url.username = text.username /\ url.password = text.password
       /\ \A k \in {LOADBALANCE, GROUP, NAMESPACE} : Get(url.parameters, k) = Own(g, k)

\* The version of the configuration, or else the application's.
VersionOf(f) ==
    IF Own(f, VERSION) # Blank \/ plan[f].application = NoApplication
    THEN Own(f, VERSION) ELSE plan[f].application

\* Whoever constructs Dubbo meanwhile, a facade that goes through a registry uses one
\* configuration some thread gave, never parts of two, with a version of that
\* configuration or of an application. Unless another thread assigned to Dubbo or to
\* its configuration while it was built, it uses its own, with its own version or else
\* that of its application, or no registry when it gives none (bootstrap.py 50-100,
\* client.py 56-83, server.py 47-72, configs.py 812-858).
BuiltAsConfigured ==
    \A f \in Facades : Built(f) =>
        /\ protocol[f] = "registry" =>
               \E g \in Facades : /\ IsOf(target[f], g)
                                  /\ Get(target[f].parameters, VERSION) \in Versions(g)
        /\ plan[f].constructs /\ ~disturbed[f] =>
               IF plan[f].registry = NoRegistry
               THEN protocol[f] = "tri" /\ target[f] = OwnUrl(f)
               ELSE /\ protocol[f] = "registry" /\ IsOf(target[f], f)
                    /\ Get(target[f].parameters, VERSION) = VersionOf(f)

\* Whoever constructs Dubbo meanwhile: a facade that goes through a registry was given
\* the URL of one, and a server that is exported through one is registered there under
\* the address its socket listens on, in a form from which a client gets that address
\* and that service; and one socket listens on an address (protocol.py 41-67 of the
\* registry, aio_transporter.py 213-254).
ExportedIsReachable ==
    /\ \A f \in Facades : Built(f) /\ protocol[f] = "registry" => target[f].scheme \in Extensions
    /\ \A f \in Servers : at[f] = "exported" /\ protocol[f] = "registry" =>
          \E n \in names : LET url == CreateUrl(n.text)
                           IN /\ n.registry = Location(target[f]) /\ n.root = Root(target[f])
                              /\ <<f, Location(url)>> \in bound
                              /\ Get(url.parameters, SERVICE) = plan[f].service.name
    /\ \A b, c \in bound : b[2] = c[2] => b = c

\* A client whose URL names the registry and the group an exported server is registered
\* in, and the server's service, finds the address of its socket among the providers,
\* however late it looks (client.py 71-81, zk_registry.py 69-71 and 127-181).
ClientFindsServer ==
    \A f \in Servers, c \in Clients :
        /\ at[f] = "exported" /\ protocol[f] = "registry"
        /\ Built(c) /\ protocol[c] = "registry"
        /\ Location(target[c]) = Location(target[f]) /\ Root(target[c]) = Root(target[f])
        /\ plan[c].service.service = plan[f].service.name
        => \E t \in Providers(target[c]) : <<f, Location(CreateUrl(t))>> \in bound
=============================================================================
