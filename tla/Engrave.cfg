SPECIFICATION FairSpec
CONSTANTS
  a = a
  b = b
  Jobs = {a, b}
  NPaths <- Sizes
  MaxConn = 2
  None = None
INVARIANTS RunsAreWhole PausedByAJob
PROPERTIES  PromiseKept EveryJobReturns
CHECK_DEADLOCK FALSE
