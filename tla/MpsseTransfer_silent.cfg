SPECIFICATION TimeoutSpec
CONSTANTS
  MaxWrite = 2
  ChunkSize = 2
  MaxBatches = 1
PROPERTY
  SilentChipIsReported
CHECK_DEADLOCK FALSE
