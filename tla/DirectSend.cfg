SPECIFICATION FairSpec
CONSTANTS
    request = request  proof = proof  plain = plain
    a = a  link = link  first = first  second = second
    Sends = {request, proof, plain}
    Peers = {a}
    Keys = {link, first, second}
    Peer <- MCPeer
    Key <- MCKey
    Tier <- MCTier
    Attempts <- MCAttempts
    LinkProofs = {proof}
    Links = {first, second}
    Asker <- MCAsker
    Expiring = {request, plain}
    ExpireRetries = {plain}
    Slow = {first}
    Anon = Anon
    None = None
INVARIANTS OneExchange OneLateFrame ExpiredNeverSent
PROPERTIES EvidenceSound TrueMeansHeard EverySendEnds
CHECK_DEADLOCK FALSE
