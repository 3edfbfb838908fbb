SPECIFICATION Spec
CONSTANTS
  p = p
  q = q
  Points = {p, q}
  Cuts <- TheCuts
  Powers = {3}
  Origin = p
  MaxPower = 2
  MaxPoints = 2
  MaxMoves = 2
  MaxOdd = 1
  MaxJobs = 2
  Fallback = Half
  None = None
INVARIANT LayersAreSeparate
CHECK_DEADLOCK FALSE
