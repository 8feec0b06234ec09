CONSTANTS
  MaxRelease = 3
  MaxRuns = 2
  MaxMishaps = 2
SPECIFICATION Spec
INVARIANTS TypeOK StagedIsNewer CanBoot PromiseKept
CHECK_DEADLOCK FALSE
