SPECIFICATION FairSpec
CONSTANTS
  WriteSize = 8
  ReadSize = 2
  MaxCmdBytes = 2
  UintMod = 256
  NDEBUG = FALSE
  Lengths <- OneOrTwo
  MaxTicks = 5
INVARIANTS TypeOK DrivenAsRequested ReportIsOwnBits DriverAtRest
PROPERTY FlushIsIndicated
CHECK_DEADLOCK FALSE
