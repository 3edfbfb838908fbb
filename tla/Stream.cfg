SPECIFICATION FairSpec
CONSTANTS
  M = 10
  E = 13
  Sent <- MCSent
  Portions <- MCPortions
INVARIANTS NoByteLost
PROPERTIES AllArrive ReadersReturn
CHECK_DEADLOCK FALSE
