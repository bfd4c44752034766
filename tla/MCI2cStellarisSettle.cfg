SPECIFICATION Spec
CONSTANTS
    WriteLens = {0, 1, 2}
    ReadLens = {0, 1, 6}
    Settling = {TRUE}
INVARIANT BufferIsWhatTheSlaveSent
