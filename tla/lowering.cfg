SPECIFICATION LowSpec
CONSTANTS
    Narrow = 3
    Int32 = 4
    Long = 5
    Programs <- MCPrograms
    Sizes = {1, 2, 4}
    PointerSize = 4
    TagStep = 2
    MaxSteps = 4
INVARIANTS InitializersAgree AcceptedLowers NumbersAreKept BoolsHoldBits LayoutsSettle ValuesComeBack
CHECK_DEADLOCK FALSE
