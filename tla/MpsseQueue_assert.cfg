SPECIFICATION Spec
CONSTANTS
  WriteSize = 8
  ReadSize = 2
  MaxCmdBytes = 2
  UintMod = 256
  NDEBUG = FALSE
  Lengths <- LongAndShort
  MaxTicks = 23
INVARIANT
  NeverAborts
CHECK_DEADLOCK FALSE
