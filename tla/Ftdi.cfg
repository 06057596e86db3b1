SPECIFICATION Spec
CONSTANTS
  Ids = {1, 2}
  NoId = 0
  MAX_USB_IDS = 2
  Names <- SomeNames
  Layouts <- SomeLayouts
  Inits <- SomeInits
  Id = 1
  Boards <- GoodBoards
  Cycles = {0, 8}
  Moves <- SomeMoves
  Scans <- SomeScans
  Room = 2
  MaxAlloc = 4
  MaxCalls = 4
  HasLed = TRUE
  NDEBUG = FALSE
INVARIANTS
  TypeOK
  FollowerIsRight
  CommandsAreExact
  AnswersAreOwn
  SignalsHold
PROPERTIES
  RunTells
  ConfigurationHolds
\* The driver is not started again after ftdi_quit; the transactions are bounded.
CHECK_DEADLOCK FALSE
