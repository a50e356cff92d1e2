SPECIFICATION Spec
CONSTANTS
    Handlers = {h1, h2}
    Kinds = {"air"}
    MaxVectors = 2
    MaxTuples = 1
    Reports = {}
    PeerSqns = {}
    MaxRequests = 2
    PostImage = TRUE
INVARIANTS
    NoSqnReuse
CHECK_DEADLOCK FALSE
