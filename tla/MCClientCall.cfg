CONSTANTS
    RpcTypes = {"unary", "client_stream", "server_stream", "bi_stream"}
    MaxWrites = 3
    MaxMessages = 3
    MaxResets = 2
    QueueSize = 2
SPECIFICATION FairSpec
INVARIANTS
    ResultIsServers
    CompletedOnce
PROPERTIES
    CallEnds
CHECK_DEADLOCK FALSE
