SPECIFICATION Spec
CONSTANTS
  MaxSent = 1
  MaxFaults = 1
INVARIANTS Ep0IsServed
CHECK_DEADLOCK FALSE
