SPECIFICATION Spec
CONSTANTS
  Extra = {0, 4}
  Wrong = {0, 1, 5, 30, 46, 60, 95, 65535}
INVARIANT Unpacks
CHECK_DEADLOCK FALSE
