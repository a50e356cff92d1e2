SPECIFICATION Spec
CONSTANTS
    Handlers = {h1, h2}
    Kinds = {"ulr", "sgsn", "pur", "lu", "purge", "amf", "amfdel", "event", "put", "clr"}
    Nodes = {a, b}
    None = None
    MaxRequests = 3
SYMMETRY Symmetry
INVARIANTS
    IInv
    SmsFollowsMme
    CacheCoherent
    DisabledStaysOut
PROPERTIES
    CancelsOldMmeAlone
CHECK_DEADLOCK FALSE
