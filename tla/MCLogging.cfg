CONSTANTS
    Threads = {t1}
    Admins = {a1, a2}
    Settings = {c1, c2}
    WithLoki = {c1}
    Initial = c0
    NoHandler = NoHandler
    BatchSize = 2
    MaxRecords = 2
    MaxStops = 1
SPECIFICATION FairSpec
INVARIANTS
    KeptInOrder
    FollowsConfig
PROPERTIES
    Delivered
CHECK_DEADLOCK FALSE
