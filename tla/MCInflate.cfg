SPECIFICATION Spec
CONSTANTS
  Byte = {0, 150}
  MaxData = 4
  Gap = {300}
  MaxDamaged = 1
INVARIANTS Inflates
CHECK_DEADLOCK FALSE
