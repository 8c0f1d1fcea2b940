CONSTANTS
    Grid <- MCGrid
    Packets = {a, b}
    Flows <- MCFlows
    Gateways <- MCGateways
    Stations = {1, 5}
    NoGateway = NoGateway
    OutCap = 1
    MaxMoves = 1
    EpochMod = 8
    History = 3
    Mesh <- MCMesh
    Originators <- MCOriginators
    StartEpoch = 7
    MaxGossips = 2
    SnMods = {1, 3}
    CounterMod = 5
    Windows = {0, 1}
    Start = 0
    MaxFrames = 4
    MaxAccepted = 3
    KeyIds = {k1, k2, k3}
    NoKey = NoKey
    Spis = {s1}
    MaxKeys = 2
    MaxSas = 2
    Arsns = {0, 3}
    MaxDeliveries = 1
    RingBytes = 12
    ByteMod = 2
    Lengths = {1, 2, 3}
    QueueLen = 1
    MaxArrivals = 3
    MaxWrites = 3
SPECIFICATION NetworkSpec
INVARIANTS ShortestWay DeliveredOnce FloodReaches NoReplay OperationalHasKey RingIsQueue BridgeKeepsAll
PROPERTIES PacketsSettle FloodEnds KeysOnlyAge ArrivalsReachApp
CHECK_DEADLOCK FALSE
