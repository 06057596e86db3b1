SPECIFICATION Spec
CONSTANTS
  WriteSize = 8
  ReadSize = 2
  MaxCmdBytes = 2
  UintMod = 256
  NDEBUG = FALSE
  Lengths <- OneOrTwo
  MaxTicks = 2
INVARIANT FoundIsOpen
CHECK_DEADLOCK FALSE
