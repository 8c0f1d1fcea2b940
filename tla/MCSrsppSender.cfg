SPECIFICATION TxSpec
CONSTANTS
    SeqSpace = 8
    TxWin = 2
    MaxActions = 2
    MaxRetransmits = 1
    MaxPayload = 2
    BufSize = 3
    Blocking = FALSE
    MsgLens = {1, 3}
    MaxSends = 3
    SackBits = 1
    MaxRebinds = 1
INVARIANTS
    TxTypeOK
    PendingIsQueued
    AwaitingIsTimed
    PayloadIntact
PROPERTIES
    GiveUpAfterAllAttempts
    FlushReturns
