CONSTANTS
    c1 = c1
    c2 = c2
    Calls = {c1, c2}
    NoCall = NoCall
    MaxConnections = 3
    MaxCalling = 2
    ReconnectTimes = 2
SPECIFICATION MCSpec
INVARIANTS
    OneConnection
    ConnectedIsTrue
    AnswersOwn
CHECK_DEADLOCK FALSE
PROPERTIES
    CloseEnds
    Recovers
