SPECIFICATION FairSpec
CONSTANTS
  MaxClients = 2
  MaxJobs = 2
  FrameOn = TRUE
  None = None
INVARIANTS FramedIsConfirmed 
PROPERTY JobsEnd
CHECK_DEADLOCK FALSE
