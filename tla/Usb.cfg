SPECIFICATION FairSpec
CONSTANTS
  MaxSent = 2
  MaxFaults = 2
INVARIANTS TypeOK RepliesInOrder CommandsAreWhole
PROPERTIES SinglesAnswered
CHECK_DEADLOCK FALSE
