SPECIFICATION FairSpec
CONSTANTS
    N = 2
    Frags <- OneTwo
    Provable = {1}
    Rounds = 1
    QueryAttempts = 1
    FallbackStrikes = 2
    Reburst = 2
    Parity = FALSE
    MaskWidth = 8
    IdMod = 3
    Cuts = {"a"}
    MaxWindows = 1
    MaxFaults = 1
    Faults = {"abort"}
    None = None
CHECK_DEADLOCK FALSE
INVARIANT CompletionSignalled
PROPERTY ImplementsDelivery
PROPERTY WindowEnds
