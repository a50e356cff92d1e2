SPECIFICATION Spec
CONSTANTS
    Handlers = {h1, h2}
    Kinds = {"air", "aka", "gsup", "geored", "api"}
    MaxVectors = 1
    MaxTuples = 2
    Reports = {32}
    PeerSqns = {96}
    MaxRequests = 3
    PostImage = TRUE
SYMMETRY Symmetry
INVARIANTS
    IInv
    NoReuseUnlessLowered
    TuplesAscend
    PublishedNotAhead
PROPERTIES
    ImplementsDispenser
CHECK_DEADLOCK FALSE
