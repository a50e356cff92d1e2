SPECIFICATION SbiFairSpec
CONSTANTS
    a1 = a1
    a2 = a2
    b1 = b1
    nokid = nokid
    bad = bad
    addr = addr
    addr2 = addr2
    p1 = p1
    p2 = p2
    Hosts = {p1, p2}
    NFs <- BothNFs
    FiveGC = "5gc"
    Settings <- SomeSettings
    Keys <- AllKeys
    KidOf <- Kids
    Broken = {bad}
    Documents <- SomeDocuments
    Tokens <- SomeTokens
    Missing = Missing
    Blank = Blank
    Unsigned = Unsigned
    Addrs <- TwoAddresses
    MaxFaults = 2
    MaxRotations = 1
INVARIANTS
    ServedAreIssued
    ListedAreOpen
    PeersReached
PROPERTIES
    CalmNrfIsTrusted
    StaysRegistered
CHECK_DEADLOCK FALSE
