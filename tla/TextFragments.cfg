SPECIFICATION TextSpec
CONSTANTS
    sendA = sendA
    sendB = sendB
    bytes = bytes
    Sends = {sendA, sendB}
    PacketOf <- MCPacketOf
    Total = 2
    RawTotal = 3
    Pass0 = 1
    Finish = 2
    Attempts = 1
    MaxFaults = 1
    Faults = {"abort", "cancel", "evict", "forget", "late"}
    None = None
CHECK_DEADLOCK FALSE
INVARIANTS
    TrueIsWhole
    NoFalseBlame
SYMMETRY MCSymmetry
