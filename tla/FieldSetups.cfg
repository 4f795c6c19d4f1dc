SPECIFICATION Spec
CONSTANTS
  NF = 2
  NW = 3
INVARIANTS
  ChiefFollowsAim
  SphereFollowsChief
  OpdInTracedWavelength
  SamplesFindTheirFields
CHECK_DEADLOCK FALSE
