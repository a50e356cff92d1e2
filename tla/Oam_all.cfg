SPECIFICATION OamSpec
CONSTANTS
    Workers = {h1, h2}
    Rows <- OneOfEach
    MaxRequests = 2
    MaxRows = 2
    MaxActs = 2
    MaxLog = 2
INVARIANTS
    NoDangling
    PeersTold
    BackupWhole
PROPERTIES
    RollbackRestores
SYMMETRY Symmetric
CHECK_DEADLOCK FALSE
