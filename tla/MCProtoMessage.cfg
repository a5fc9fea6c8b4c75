CONSTANTS
    Int32s <- MCInt32s
    Int64s <- MCInt64s
    Strings <- MCStrings
    Newer <- MCNewer
    MaxEdits = 3
SPECIFICATION Spec
INVARIANTS
    ExactContent
    ConcatIsMerge
    StableContent
    OldReaderKeepsAll
PROPERTIES
    SwapAndCopyExact
CHECK_DEADLOCK FALSE
