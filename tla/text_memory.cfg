SPECIFICATION Spec
CONSTANTS
  a = a
  b = b
  NL = NL
  Nul = Nul
  Byte = {a, b}
  STD_POOL_SIZE = 2
  MaxPools = 7
  STD_LINE_DESC_POOL_SIZE = 2
  MaxDescPools = 7
  STANDARD_LINE_INCREMENT = 1
  Files <- MCFiles
  PipeSizes <- MCPipeSizes
  Marks = {mark}
  CanFail = TRUE
  MaxText = 3
  Streams <- MCStreams
  MaxDel = 2
INVARIANT InsertionRecorded
