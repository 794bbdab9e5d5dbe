SPECIFICATION Spec
CONSTANTS
  Bytes = {"d", "q", "r", "n", "b"}
  MaxLen = 3
  Bom <- Mark
  Configs <- Settings
  NoLimit = NoLimit
  Failing = FALSE
  CompactFrom = 2
  Batches <- SomeBatches
  MaxBatch = 3
  MmsgMax = 2
  BlockLen = 2
  ChunkLen = 4
  MaxDepth = 3
  MaxBytes = 4
  MaxUpdate = 4
  MaxOut = 6
  SimdDegrees = {1, 2, 4}
INVARIANT ColumnsWithinLimit
CHECK_DEADLOCK FALSE
