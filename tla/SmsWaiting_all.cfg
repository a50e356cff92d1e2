SPECIFICATION Spec
CONSTANTS
    Handlers = {h1, h2}
    Centres = {s1, s2}
    Limit = 1
    MaxRequests = 4
SYMMETRY Symmetry
INVARIANTS
    IInv
    NoWaitingLost
    RecordsAgree
    ListBounded
CHECK_DEADLOCK FALSE
