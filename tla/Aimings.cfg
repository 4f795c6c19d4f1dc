SPECIFICATION Spec
CONSTANTS
  Lenses <- MCLenses
  Step = 7
  Divisions = 3
  MaxTrials = 12
  EdgeHalvings = 6
  Samples = 8
  MaxAims = 2
  None = None
  Points = {p0, p1, p2}
  Origin = p0
  Probe = probe
  MaxNorm = 2
  maxfev = 14
  Slow1 = 4
  Slow2 = 2
INVARIANTS
  SearchFindsPupil
  AimingIsStable
  AimedRayIsReturned
PROPERTIES
  HybridStops
  HybridNeverWorse
