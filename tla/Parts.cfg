SPECIFICATION Spec
CONSTANTS
  Buses <- SomeBuses
  Filters <- SomeFilters
  Channels = {0, 1}
  PortNumbers = TRUE
  Frequencies <- SomeFrequencies
  IntMax = 2147483647
  PacketSize = 5
  MaxPackets = 3
  MaxRead = 20
  MaxExtra = 4
  W = 3
  Length = 9
  Arrays <- BytesOfThree
  Firsts <- SomeFirsts
  Nums <- SomeNums
  Numbers <- BytesOfEight
  Typed <- SomeTyped
  MaxLen = 8
  IrLen = 10
  DrLen = 32
  IdCode <- Id
  Found <- AnyState
  Heads = {h1, h2}
  Entries = {e1, e2, e3}
  Dead = Dead
  NULL = NULL
SYMMETRY Symmetry
INVARIANTS
  TypeOK
  NothingKept
  OpenIsAsked
  FrequencyIsBest
  DataInOrder
  LoopVisitsAll
  TextIsExact
  IdentityIsRead
PROPERTY HelpersKeepPromise
\* A call, a text, a read or the utility ends, and so does undefined behaviour.
CHECK_DEADLOCK FALSE
