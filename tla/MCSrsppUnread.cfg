SPECIFICATION RxSpec
CONSTANTS
    SeqSpace = 6
    RxWin = 3
    Backend = "fast"
    SlotSize = 1
    SlabSize = 4
    Reasm = 2
    ImmediateAck = FALSE
    ProgressTimer = TRUE
    Stream <- ShortStream
    MaxAge = 3
    MaxReaps = 0
INVARIANTS
    CompletedIsDelivered
