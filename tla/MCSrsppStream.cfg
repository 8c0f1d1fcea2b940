SPECIFICATION RxSpec
CONSTANTS
    SeqSpace = 6
    RxWin = 3
    Backend = "fast"
    SlotSize = 1
    SlabSize = 4
    Reasm = 3
    ImmediateAck = FALSE
    ProgressTimer = TRUE
    Stream <- WrappingStream
    MaxAge = 3
    MaxReaps = 0
INVARIANTS
    RxTypeOK
    BitmapMatchesSlots
    OwedAckIsScheduled
    GapIsTimed
    DeliveredIntact
    DeliveredInOrder
    EosIsLast
PROPERTIES
    GapsClose
