SPECIFICATION FairSpec
CONSTANTS
    N = 1
    Frags <- TwoEach
    Provable = {}
    Rounds = 1
    QueryAttempts = 1
    FallbackStrikes = 2
    Reburst = 2
    Parity = FALSE
    MaskWidth = 8
    IdMod = 3
    Cuts = {"a"}
    MaxWindows = 2
    MaxFaults = 0
    Faults = {}
    None = None
CHECK_DEADLOCK FALSE
INVARIANT AckedWasHeld
PROPERTY WindowEnds
