SPECIFICATION Spec
CONSTANTS
  Bytes = {"d", "q", "r", "n", "b"}
  MaxLen = 5
  Bom <- Mark
  Configs <- Settings
  NoLimit = NoLimit
  Failing = TRUE
  CompactFrom = 2
  Batches <- SomeBatches
  MaxBatch = 3
  MmsgMax = 2
  BlockLen = 2
  ChunkLen = 4
  MaxDepth = 3
  MaxBytes = 32
  MaxUpdate = 32
  MaxOut = 6
  SimdDegrees = {1, 2, 4}
INVARIANTS  InOrderOnce CountIsSent StackFits HashOfTheInput
PROPERTY Terminates
CHECK_DEADLOCK FALSE
