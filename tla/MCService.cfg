CONSTANTS
    v1 = v1
    v2 = v2
    v3 = v3
    s1 = s1
    s2 = s2
    s3 = s3
    c1 = c1
    k1 = k1
    k2 = k2
    u1 = u1
    u2 = u2
    blank = ""
    Blank = ""
    NoPort = 0
    DefaultPort = 50051
    Tri = "tri"
    LocalHost = "127.0.0.1"
    Interfaces <- MCInterfaces
    Loopback = {"lo"}
    Reachable = {"lo", "local"}
    HostAddress = ""
    Order <- MCOrder
    Dicts = {v1, v2, v3}
    Given <- MCGiven
    Files <- MCFiles
    MaxChanges = 1
    Clients = {c1}
    Servers = {s1, s2, s3}
    Setups <- MCSetups
    NoRegistry = NoRegistry
    NoApplication = NoApplication
    MaxStarts = 2
    Lawgenesis = s1
    Name = "svc"
    HostOf <- MCHostOf
    PortOf <- MCPortOf
    CenterOf <- MCCenterOf
    Cached = {v1}
    Limited = {v1}
    Calls = {k1, k2}
    Users = {u1, u2}
    Keys = {x}
    NoAnswer = NoAnswer
    Strategy <- MCStrategy
    Amount <- Two
    Multiples <- One
    Scenarios <- MCScenarios
SPECIFICATION MCSpec
INVARIANTS
    ServedAsConfigured
    HitIsAnAnswer
    BuiltAsConfigured
    ExportedIsReachable
    
PROPERTIES
    Fresh
CHECK_DEADLOCK FALSE
