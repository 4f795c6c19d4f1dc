SPECIFICATION Spec
CONSTANTS
  NF = 2
  NW = 3
INVARIANT
  AimPopulated
CHECK_DEADLOCK FALSE
