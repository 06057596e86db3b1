SPECIFICATION FairSpec
CONSTANTS
  WriteSize = 8
  ReadSize = 2
  MaxCmdBytes = 2
  UintMod = 256
  NDEBUG = FALSE
  Lengths <- SomeLengths
  MaxTicks = 31
INVARIANTS
  TypeOK
  BuffersHold
  EntriesPickTheirBits
  AskedAccountedFor
  FlushOkMeansDelivered
PROPERTIES
  KeepsContract
  CallsReturn
CHECK_DEADLOCK FALSE
