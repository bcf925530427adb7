-------------------------------- MODULE Url --------------------------------
(***************************************************************************)
(* URLs (url.py) and the configurations that are made from them and turned *)
(* into them (configs.py), as records.                                     *)
(*                                                                         *)
(* A text is a URL before it is parsed: what create_url is given, and what *)
(* to_str returns. Hosts are in lower case, paths without the slashes in   *)
(* front that create_url strips and urlunparse writes again, and quoting   *)
(* is undone by whoever reads a quoted text.                               *)
(***************************************************************************)
EXTENDS Naturals, Sequences, Functions

CONSTANTS
    Blank,          \* the empty string, and None where the code tests for either
    NoPort,
    DefaultPort,    \* 50051
    Tri,            \* the name of the protocol
    LocalHost,      \* 127.0.0.1
    Interfaces,     \* the IPv4 addresses of the network cards, in order
    Loopback,       \* those of them that are loopback addresses
    Reachable,      \* those that answer a ping
    HostAddress     \* of the host's name, or Blank

\* parameters of a query, by the names the code gives their keys
SERVICE == "service"
LOADBALANCE == "loadbalance"
NAMESPACE == "namespace"
GROUP == "group"
VERSION == "version"

\* parameters.get(key)
Get(parameters, key) == IF key \in DOMAIN parameters THEN parameters[key] ELSE Blank

\* A dictionary without the entries that are blank.
NonBlank(parameters) == Restrict(parameters, {k \in DOMAIN parameters : parameters[k] # Blank})

\* URL.__init__; the location is host and port together.
NewUrl(scheme, host, port, username, password, path, parameters) ==
    [scheme |-> scheme, host |-> host, port |-> port, username |-> username,
     password |-> password, path |-> path, parameters |-> parameters]

Location(url) == <<url.host, url.port>>

\* create_url: parse_qs leaves out the parameters without a value.
CreateUrl(text) ==
    NewUrl(text.scheme, text.host, text.port, text.username, text.password, text.path,
           NonBlank(text.parameters))

\* to_str: a user is written when it has both a name and a password.
HasUser(url) == url.username # Blank /\ url.password # Blank
ToStr(url) ==
    [url EXCEPT !.username = IF HasUser(url) THEN @ ELSE Blank,
                !.password = IF HasUser(url) THEN @ ELSE Blank]


----------------------------------------------------------------------------
(* Configurations *)

\* ReferenceConfig: its fields, from_url and to_url
NewReference(protocol, service, host, port) ==
    [protocol |-> protocol, service |-> service, host |-> host, port |-> port]

ReferenceOf(url) ==
    NewReference(url.scheme,
                 IF SERVICE \in DOMAIN url.parameters THEN url.parameters[SERVICE] ELSE url.path,
                 url.host, url.port)

ReferenceUrl(reference) ==
    NewUrl(reference.protocol, reference.host, reference.port, Blank, Blank, reference.service,
           [k \in {SERVICE} |-> reference.service])

\* NetworkUtils.get_local_address
LocalAddress ==
    LET valid == SelectSeq(Interfaces, LAMBDA a : a \in Reachable \ Loopback)
    IN IF valid # <<>> THEN Head(valid) ELSE HostAddress

\* ServiceConfig: its fields, and to_url
NewService(host, port, name) ==
    [host |-> IF host # Blank THEN host ELSE IF LocalAddress # Blank THEN LocalAddress ELSE LocalHost,
     port |-> IF port = NoPort THEN DefaultPort ELSE port,
     protocol |-> Tri, name |-> name]

ServiceUrl(service) ==
    NewUrl(service.protocol, service.host, service.port, Blank, Blank, Blank,
           [k \in {SERVICE} |-> service.name])

\* RegistryConfig: its fields, from_url and to_url
NewRegistry(protocol, host, port, username, password, load_balance, group, version, namespace) ==
    [protocol |-> protocol, host |-> host, port |-> port, username |-> username,
     password |-> password, load_balance |-> load_balance, group |-> group,
     version |-> version, namespace |-> namespace]

RegistryOf(url) ==
    NewRegistry(url.scheme, url.host, url.port, url.username, url.password,
                Get(url.parameters, LOADBALANCE), Get(url.parameters, GROUP),
                Get(url.parameters, VERSION), Get(url.parameters, NAMESPACE))

RegistryParameters(registry) ==
    NonBlank([k \in {LOADBALANCE, GROUP, VERSION, NAMESPACE} |->
                 CASE k = LOADBALANCE -> registry.load_balance
                   [] k = GROUP -> registry.group
                   [] k = VERSION -> registry.version
                   [] k = NAMESPACE -> registry.namespace])

RegistryUrl(registry) ==
    NewUrl(registry.protocol, registry.host, registry.port, registry.username,
           registry.password, Blank, RegistryParameters(registry))

\* Mutation: the reference's parameters are left out.
PathOnly(registryUrl, referenceUrl) == [registryUrl EXCEPT !.path = referenceUrl.path]

\* Client._initialize: the registry's URL, with the reference's path and parameters.
ClientUrl(registryUrl, referenceUrl) ==
    [registryUrl EXCEPT
        !.path = referenceUrl.path,
        !.parameters = [k \in DOMAIN @ \cup DOMAIN referenceUrl.parameters |->
                           IF k \in DOMAIN referenceUrl.parameters
                           THEN referenceUrl.parameters[k] ELSE @[k]]]
=============================================================================
