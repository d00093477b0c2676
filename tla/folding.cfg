SPECIFICATION ValueSpec
CONSTANTS
    Narrow = 3
    Int32 = 4
    Long = 5
INVARIANT FoldingIsFaithful
CHECK_DEADLOCK FALSE
