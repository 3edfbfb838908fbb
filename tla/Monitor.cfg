SPECIFICATION FairSpec
CONSTANTS
  Tries = 3
  JobTries = 3
INVARIANTS ConnectedIsWatched SilentIsDropped
PROPERTIES GoneIsNoticed ReadyIsReached
