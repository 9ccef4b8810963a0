SPECIFICATION FairSpec
CONSTANTS
    N = 2
    Frags <- OneEach
    Provable = {1}
    Rounds = 2
    QueryAttempts = 1
    FallbackStrikes = 2
    Reburst = 2
    Parity = FALSE
    MaskWidth = 8
    IdMod = 3
    Cuts = {"a"}
    MaxWindows = 1
    MaxFaults = 1
    Faults = {"expire", "evict"}
    None = None
CHECK_DEADLOCK FALSE
INVARIANT ConfirmedDelivered
PROPERTY ImplementsDelivery
