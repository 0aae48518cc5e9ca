\* An axis is synchronized and the one below it is not.
CONSTANTS
  Rank = 3
  Size <- MCSize
  Base <- MCBase
  MaxTraces = 2
  MaxCount = 2
  Capacity = 20
  Scenarios <- MCUnsynced
SPECIFICATION EditSpec
CHECK_DEADLOCK FALSE
PROPERTY CallReturns
