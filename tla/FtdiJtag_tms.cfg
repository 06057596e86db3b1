SPECIFICATION Spec
CONSTANTS
  Boards <- TmsBoards
  Cycles = {0, 8}
  Moves <- SomeMoves
  Scans <- SomeScans
INVARIANTS
  FollowerIsRight
