SPECIFICATION Spec
CONSTANTS
    Senders = {s, t}
    Binders = {b}
    Paths = {p, q, r}
    None = None
    Switch = 1
    Exhaust = 1
    Kept = 2
    Quick = 2
    Rounds = 1
    Overflow = 1
    Faults = {"forget", "fail", "offline"}
SYMMETRY Symmetry
INVARIANTS OneDiscovery FollowersHaveLeader BeliefTrue BoardSound
PROPERTY BackoffRespected
