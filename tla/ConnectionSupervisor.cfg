SPECIFICATION FairSpec
CONSTANTS
    Links = {c1, c2, c3}
    Limits <- Retries
    MaxLeft = 1
    None = None
INVARIANTS
    LossNoticed
    OneOfEach
    DetachClean
PROPERTIES
    LossIsReal
    BackOnline
    DetachEnds
