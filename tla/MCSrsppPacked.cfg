SPECIFICATION RxSpec
CONSTANTS
    SeqSpace = 8
    RxWin = 4
    Backend = "packed"
    SlotSize = 1
    SlabSize = 4
    Reasm = 4
    ImmediateAck = FALSE
    ProgressTimer = FALSE
    Stream <- LongStream
    MaxAge = 4
    MaxReaps = 0
INVARIANTS
    DeliveredIntact
