CONSTANTS
    s1 = s1
    s2 = s2
    Streams = {s1, s2}
    InitialWindow = 2
    ConnWindow = 2
    MaxWindow = 1
    Rivals = {s2}
    MaxBytes = 3
    Sides = {TRUE, FALSE}
SPECIFICATION FairSpec
INVARIANTS
    CompleteResponse
PROPERTIES
    TrailersFollowData
    Implements
CHECK_DEADLOCK FALSE
