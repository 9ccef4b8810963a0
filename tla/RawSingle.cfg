SPECIFICATION FairSpec
CONSTANTS
    N = 1
    Frags <- TwoEach
    Provable = {}
    Rounds = 2
    QueryAttempts = 1
    FallbackStrikes = 2
    Reburst = 2
    Parity = TRUE
    MaskWidth = 8
    IdMod = 2
    Cuts = {"a"}
    MaxWindows = 1
    MaxFaults = 1
    Faults = {"evict", "forget", "abort", "expire", "restart"}
    None = None
CHECK_DEADLOCK FALSE
INVARIANT AckedWasHeld
INVARIANT ConfirmedDelivered
INVARIANT NothingGarbled
