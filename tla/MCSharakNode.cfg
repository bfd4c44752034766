SPECIFICATION NodeSpec
CONSTANTS
    SEQ_MOD = 32
    ITEM_BYTES = 3
    FIFO_DEPTH = 2
    RamWords = 4
    Layouts <- SomeLayouts
    MaxResets = 2
INVARIANTS NodeTypeOK RuntimeReady ConfiguredWhenMeasuring FrameCarriesItsSample
PROPERTIES SetUpBeforeUse NoGarbageFrames LineIsWhole StreamsOrExplains
CHECK_DEADLOCK FALSE
