SPECIFICATION Spec
CONSTANTS
    PHASE_MOD = 16
    FrameLen <- MCFrameLen
    SockBuf = 2
    Backlog = 2
INVARIANTS TypeOK NoFdLeak
PROPERTIES StreamOfWholeFrames LeavingIsNoticed ReaderIsFed
CHECK_DEADLOCK FALSE
