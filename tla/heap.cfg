SPECIFICATION HeapSpec
CONSTANTS
  Base = 1024
  Reserve = 160
  PageSize = 32
  Chunk = 64
  Large = 96
  WordRange = 8192
  MapBases = {4096, 4352}
  Sizes = {8, 40, 104}
  Products <- MCProducts
  Junk = Junk
  Stored = {7}
  MaxLive = 3
INVARIANTS
  HeapIsSound
PROPERTIES
  MallocPromise
  BlocksRefine
