SPECIFICATION Spec
CONSTANTS
    data = data
    proof = proof
    request = request
    None = None
    Packets = {data, proof, request}
    Class <- MCClass
    Dest <- MCDest
    OverLink <- MCOverLink
    Closes = {}
    Peers = {x, y, z}
    SmallMax = 2
    Cap = 1
    Threshold = 1
    Extra <- MCExtra
    MaxOffers <- Once
    MaxTogether = 1
    MaxChanges = 1
SYMMETRY PeerSymmetry
CHECK_DEADLOCK FALSE
INVARIANTS
    NoSilentLoss
    LastResort
