CONSTANTS
    c1 = c1
    c2 = c2
    Calls = {c1, c2}
    RpcType <- MCRpcType
    Requests <- MCRequests
    Refused <- MCRefused
    Threads = 1
    QueueSize = 1
    MaxReads = 3
    MaxWrites = 1
SPECIFICATION Spec
INVARIANTS
    GivenInOrder
    AnswerWellFormed
    EndIsSeen
    EndedIsAnswered
CHECK_DEADLOCK FALSE
