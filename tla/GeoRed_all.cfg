SPECIFICATION FairSpec
CONSTANTS
    a = a
    b = b
    Nodes = {a, b}
    PeersOf <- TwoNodes
    Items = {i1}
    Removals = {2}
    Handlers = {h1, h2}
    QueueSize = 1
    BatchMax = 2
    MaxWrites = 3
    MaxSyncs = 1
INVARIANTS
    LastWriteReaches
    DeliveredOnce
PROPERTIES
    NothingStuck
CHECK_DEADLOCK FALSE
