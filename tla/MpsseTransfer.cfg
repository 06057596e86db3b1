SPECIFICATION FairSpec
CONSTANTS
  MaxWrite = 3
  ChunkSize = 2
  MaxBatches = 2
INVARIANTS
  TypeOK
  SentInOrderOnce
  OwnAnswers
  ChipQuiet
  FreedInFlightOnlyIf
PROPERTY FlushReturns
CHECK_DEADLOCK FALSE
