SPECIFICATION Spec
CONSTANTS
  IrLen = 1
  DrLen = 1
  IdCode <- Id
  Lengths <- OneOrTwo
  MaxStaged = 2
PROPERTY KeepsPort
