SPECIFICATION Spec
CONSTANTS
  FullField = 2
  DEFAULT_HEXAPOLAR_RAYS = 3
  DEFAULT_GAUSSIAN_QUADRATURE_RINGS = 1
  DEFAULT_GAUSSIAN_QUADRATURE_SPOKES = 3
  DEFAULT_CONTRAST_RINGS = 1
  DEFAULT_CONTRAST_SPOKES = 4
  NOMINAL_BALANCE_WEIGHT = 3
  RAY_FAN_SAMPLES = 2
  NUM_TRANSVERSE_RAYS = 2
  Jobs <- SpotJobs
  Crossings <- MCCrossings
  Failures <- MCFailures
CHECK_DEADLOCK FALSE
INVARIANTS
  ConsumersTestValid
