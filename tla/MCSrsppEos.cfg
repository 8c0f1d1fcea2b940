SPECIFICATION Spec
CONSTANTS
    SeqSpace = 16
    TxWin = 2
    MaxActions = 3
    MaxRetransmits = 1
    MaxPayload = 1
    BufSize = 4
    Blocking = TRUE
    MsgLens = {1, 2}
    MaxSends = 2
    SackBits = 2
    MaxRebinds = 0
    RxWin = 2
    Backend = "fast"
    SlotSize = 1
    SlabSize = 4
    Reasm = 2
    ImmediateAck = TRUE
    ProgressTimer = FALSE
    MaxReaps = 1
    UseEos = TRUE
INVARIANTS
    NoDuplicates
CHECK_DEADLOCK FALSE
