SPECIFICATION AggSpec
CONSTANTS
    Programs <- MCPrograms
    Sizes = {1, 2, 4}
    PointerSize = 4
    TagStep = 2
    MaxSteps = 4
INVARIANT ConstantsMirrorStorage
CHECK_DEADLOCK FALSE
