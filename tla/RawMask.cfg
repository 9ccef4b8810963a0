SPECIFICATION Spec
CONSTANTS
    N = 1
    Frags <- Nine
    Provable = {}
    Rounds = 1
    QueryAttempts = 1
    FallbackStrikes = 2
    Reburst = 2
    Parity = TRUE
    MaskWidth = 8
    IdMod = 2
    Cuts = {"a"}
    MaxWindows = 1
    MaxFaults = 0
    Faults = {}
    None = None
CHECK_DEADLOCK FALSE
INVARIANT NothingGarbled
