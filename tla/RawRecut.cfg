SPECIFICATION FairSpec
CONSTANTS
    N = 1
    Frags <- TwoEach
    Provable = {}
    Rounds = 1
    QueryAttempts = 1
    FallbackStrikes = 2
    Reburst = 2
    Parity = FALSE
    MaskWidth = 8
    IdMod = 4
    Cuts = {"a", "b"}
    MaxWindows = 2
    MaxFaults = 1
    Faults = {"abort"}
    None = None
CHECK_DEADLOCK FALSE
INVARIANT NothingGarbled
