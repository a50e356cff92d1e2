SPECIFICATION Spec
CONSTANTS
    Handlers = {h1, h2}
    Users = {u1, u2}
    c1 = c1
    c2 = c2
    Cscfs = {c1, c2}
    Pool <- TwoCscfs
    None = None
    Unknown = Unknown
    MaxRequests = 5
    MaxFaults = 1
    MaxEdits = 2
INVARIANTS
    OneServing
    PeersHear
SYMMETRY Symmetric
CHECK_DEADLOCK FALSE
