\* Cubes of three axes, read and written.
CONSTANTS
  Rank = 3
  Size <- MCSize
  Base <- MCBase
  MaxTraces = 2
  MaxCount = 2
  Capacity = 20
  Scenarios <- MCScenarios
SPECIFICATION EditSpec
CHECK_DEADLOCK FALSE
INVARIANTS EditTypeOK InStep Filled AsIs Transparent TracesCounted
PROPERTIES PaddedAtEnd CallReturns
