SPECIFICATION Spec
CONSTANTS
  Points = {p1, p2}
  MaxVars = 2
  MaxGoals = 2
  Big = 2
  MaxEvaluations = 3
  MAX_JACOBIAN_STEP_REDUCTIONS = 2
  FullStep = 4
  None = None
INVARIANTS
  CallersSeeTheAccepted
  NoProbeLeaks
PROPERTIES
  QuotientsSpanTheirProbes
  Terminates
  ImplementsDescent
CHECK_DEADLOCK FALSE
