SPECIFICATION Spec
CONSTANTS
  Interfaces <- MCInterfaces
  Images <- MCImages
  Coords <- MCCoords
  Unit = 8
  EdgeIterations = 6
  BisectIterations = 3
  MaxSurfaces = 4
INVARIANTS
  ReturnsItsRay
  FindsLimitingRay
PROPERTY
  Terminates
