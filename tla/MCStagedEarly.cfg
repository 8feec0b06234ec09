CONSTANTS
  MaxRelease = 2
  MaxRuns = 1
  MaxMishaps = 0
SPECIFICATION Spec
INVARIANT TakesOver
CHECK_DEADLOCK FALSE
