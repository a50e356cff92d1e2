SPECIFICATION Spec
CONSTANTS
    h1 = h1
    h2 = h2
    i1 = i1
    i2 = i2
    u1 = u1
    t6 = t6
    t8 = t8
    A = A
    B = B
    None = None
    Unknown = Unknown
    Handlers = {h1, h2}
    Imeis = {i1, i2}
    Imsis = {u1}
    Patterns = {}
    Tacs = {t6, t8}
    Devices = {A, B}
    NoMatch = 2
    MaxWork = 3
    MaxRules = 2
    MatchedBy <- MCMatchedBy
    Tac8 <- MCTac8
    Tac6 <- MCTac6
SYMMETRY Symmetry
INVARIANT HistoryHasLastCode
CHECK_DEADLOCK FALSE
