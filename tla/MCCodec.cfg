CONSTANTS
    NUL = NUL
    Messages <- MCMessages
    MaxFrames = 3
    HeaderSize = 3
    kMaxPackageLen = 7
    MaxNameLen = 1
    enableCompressSize = 2
    kTempBufSize = 5
    kInitialSize = 4
    MaxLosses = 1
SPECIFICATION Spec
INVARIANTS
    TailOfStream
    Exact
    NothingSkipped
    OrderKept
    BufferBound
CHECK_DEADLOCK FALSE
