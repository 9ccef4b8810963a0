SPECIFICATION Spec
CONSTANTS
    p = p
    q = q
    a = a
    b = b
    c = c
    Tasks = {p, q, a, b, c}
    Tiers = {1, 2}
    Tier <- MCTier
    Capacity = 2
    NoTier = NoTier
INVARIANTS
    SlotsAccounted
PROPERTIES
    ImplementsPool
