SPECIFICATION LibSpec
CONSTANTS
    Hashes <- MCHashes
    Items = {1, 2}
    MaxItems = 6
    Wanted = {0, 6}
    MaxPuts = 8
    Prints <- MCPrints
    Bits = 6
    Arrays <- MCArrays
    Cutoff = 3
    MaxU64 = 15
    MaxLength = 7
    First = 3
    Limit = 20
    MinBlock = 2
    Needs = {2, 3, 5}
INVARIANTS MapIsAFunction StoresHoldTheirItems PrintsOnceInOrder ComputesAsDefined SortsInPlace BlocksTile NoFreeNeighbours
PROPERTY PrintsReturn
CHECK_DEADLOCK FALSE
