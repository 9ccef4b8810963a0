SPECIFICATION Spec
CONSTANTS
    Senders = {s, t}
    Binders = {b}
    Paths = {p, q}
    None = None
    Switch = 1
    Exhaust = 2
    Kept = 2
    Quick = 1
    Rounds = 1
    Overflow = 1
    Faults = {}
PROPERTY MissEarned
CHECK_DEADLOCK FALSE
