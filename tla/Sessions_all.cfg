SPECIFICATION Spec
CONSTANTS
    Handlers = {h1, h2}
    g1 = g1
    g2 = g2
    g3 = g3
    g4 = g4
    x1 = x1
    x2 = x2
    None = None
    GxSessions = {g1, g2, g3, g4}
    Calls = {x1, x2}
    ImsiOf <- Imsis
    ApnOf <- ApnNames
    Known <- KnownImsis
    Configured <- KnownApns
    Static <- OneStatic
    Prefix <- Beginnings
    Media = {"audio", "text"}
    PduSessions = {0, 1, 2}
    Smfs = {c1, c2}
    MaxRequests = 4
    MaxFaults = 1
INVARIANTS
    SessionHasRow
    PeersAgree
    AddressKept
    EmergencyAgrees
    CallsOwnRules
    PduSessionsListed
SYMMETRY Symmetric
CHECK_DEADLOCK FALSE
