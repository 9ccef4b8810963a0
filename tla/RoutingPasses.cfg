SPECIFICATION Spec
CONSTANTS
    data = data
    proof = proof
    request = request
    None = None
    Packets = {data}
    Class <- MCClass
    Dest <- MCDest
    OverLink <- MCOverLink
    Closes = {}
    Peers = {x, y}
    SmallMax = 1
    Cap = 1
    Threshold = 1
    Extra <- MCExtra
    MaxOffers <- Twice
    MaxTogether = 1
    MaxChanges = 1
SYMMETRY PeerSymmetry
CHECK_DEADLOCK FALSE
INVARIANTS
    NoCopyBesidePasses
