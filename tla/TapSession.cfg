SPECIFICATION Spec
CONSTANTS
  IrLen = 3
  DrLen = 2
  IdCode <- Id
  MaxShift = 5
INVARIANTS TypeOK FiveOnesReset ResetSelectsIdcode ScanIsDelayLine
PROPERTY InstructionIsShiftedIn
CHECK_DEADLOCK FALSE
