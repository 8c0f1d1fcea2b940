SPECIFICATION ApplicationSpec
CONSTANTS
    MaxPuts = 2
    MaxConcurrent = 1
    MAX_GAPS = 2
    U64Max = 9
    FileSizes = {0, 1, 2}
    SizesWithPeer = {2}
    AckLimit = 1
    KeepAliveLimit = 1
    NakLimit = 0
    FaultHandler = "Cancel"
    MaxRequests = 1
    PeerChunks = 5
    MaxCopies = 2
    Satellites = {"c1", "c2", "m", "r"}
    Ground = "ground"
    JobPlan <- MCPlan
    MaxChunks = 1
    Size = 3
    Matrices <- MCMatrices
    CostMod = 64
INVARIANTS
    CfdpTypeOK
    EofAfterAllData
    EofIsCovered
    AckTimerIsCurrent
    TrackerIsSound
    ReceiverIsWatched
    PhasesInOrder
    AssignmentOptimal
CHECK_DEADLOCK FALSE
