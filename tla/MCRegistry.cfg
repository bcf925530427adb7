CONSTANTS
    Providers = {p1, p2}
    MaxFaults = 5
SPECIFICATION FairRegistrySpec
INVARIANTS
    ServingIsRegistered
    NothingMissed
PROPERTIES
    ConsumersLearn
CHECK_DEADLOCK FALSE
