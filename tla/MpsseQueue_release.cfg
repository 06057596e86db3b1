SPECIFICATION Spec
CONSTANTS
  WriteSize = 8
  ReadSize = 2
  MaxCmdBytes = 2
  UintMod = 256
  NDEBUG = TRUE
  Lengths <- LongAndShort
  MaxTicks = 23
INVARIANT
  BuffersHold
CHECK_DEADLOCK FALSE
