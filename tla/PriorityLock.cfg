SPECIFICATION FairSpec
CONSTANTS
    window = window
    handshake = handshake
    proof = proof
    report = report
    data = data
    Tasks = {window, handshake, proof, report, data}
    Tier <- MCTier
    Preempting = {handshake, proof}
    Reporting = {report}
    Windows = {window}
    Cancellable = {handshake, proof, data}
    NoTask = NoTask
    NoTier = NoTier
INVARIANTS
    MutualExclusion
    NoLostWakeup
    RequestsAreLive
    YieldServesPreemptor
PROPERTIES
    HandshakeServed
    ImplementsMutex
