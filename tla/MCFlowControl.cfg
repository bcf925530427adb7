CONSTANTS
    s1 = s1
    s2 = s2
    Streams = {s1, s2}
    InitialWindow = 1
    ConnWindow = 1
    MaxWindow = 1
    MaxBytes = 2
    EndFlags = {TRUE, FALSE}
    SettingsDeltas <- MCSettingsDeltas
SPECIFICATION Spec
INVARIANTS
    EventMeansSent
    NoLostWakeup
    FailureHasCause
SYMMETRY MCSymmetry
CHECK_DEADLOCK FALSE
