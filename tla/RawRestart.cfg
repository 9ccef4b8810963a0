SPECIFICATION FairSpec
CONSTANTS
    N = 2
    Frags <- OneEach
    Provable = {}
    Rounds = 1
    QueryAttempts = 1
    FallbackStrikes = 2
    Reburst = 2
    Parity = FALSE
    MaskWidth = 8
    IdMod = 5
    Cuts = {"a"}
    MaxWindows = 2
    MaxFaults = 1
    Faults = {"restart"}
    None = None
CHECK_DEADLOCK FALSE
INVARIANT ConfirmedDelivered
