SPECIFICATION TextSpec
CONSTANTS
    sendA = sendA
    sendB = sendB
    bytes = bytes
    Sends = {sendA, sendB}
    PacketOf <- MCPacketOf
    Total = 2
    RawTotal = 2
    Pass0 = 1
    Finish = 2
    Attempts = 1
    MaxFaults = 0
    Faults = {}
    None = None
CHECK_DEADLOCK FALSE
INVARIANTS
    NothingGarbled
SYMMETRY MCSymmetry
