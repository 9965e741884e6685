CONSTANTS
  MaxSent = 2
SPECIFICATION Spec
INVARIANTS ClientHearsPrefix
CHECK_DEADLOCK FALSE
