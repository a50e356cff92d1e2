SPECIFICATION FairSpec
CONSTANTS
    h1 = h1
    h2 = h2
    h3 = h3
    Handlers <- ThreeHandlers
    Nobody = Nobody
    MaxRequests = 4
    MaxFaults = 1
INVARIANTS
    SmfAgrees
    TerminatedOnce
PROPERTIES
    EveryoneServed
CHECK_DEADLOCK FALSE
