CONSTANTS
    s1 = s1
    s2 = s2
    Streams = {s1, s2}
    Workers = 2
    MaxFrames = 3
    Sides = {TRUE, FALSE}
SPECIFICATION FairSpec
INVARIANTS
    OneAtATime
    InOrder
PROPERTIES
    CreditReturned
    FramesDelivered
CHECK_DEADLOCK FALSE
