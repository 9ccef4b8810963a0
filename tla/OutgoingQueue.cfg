SPECIFICATION FairSpec
CONSTANTS
    p1 = p1
    p2 = p2
    Packets = {p1, p2}
    Tier <- MCTier
    Callers = {c1, c2}
    Capacity = 2
    Limit = 2
    MaxTasks = 1
    MaxCalls = 4
    Slow = {p1}
    None = None
CHECK_DEADLOCK FALSE
INVARIANT OneCopy
INVARIANT NoStuckEntry
PROPERTY BytesFreed
