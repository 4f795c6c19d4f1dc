SPECIFICATION Spec
CONSTANTS
    Capacity = 3
    Key = {k1, k2, k3, k4, k5}
    Value = {v1, v2}
    None = None
    Prime = 5879
    Unit <- MCUnit
    Sizes <- MCSizes
    Inputs <- MCInputs
    Wavefronts <- MCWavefronts
    MaxDims = {4, 5, 7, 8, 10, 12, 15}
    Problems <- MCProblems
    rgiant = 8000
    Abscissas = {2, 6, 8, 14, 16}
    Sample <- MCSample
    MaxOperations = 3
    Null = Null
    Incidents <- MCIncidents
    Distances = {7, 10}
    ScaleFactors = {4, 3}
    MaxScalings = 2
    Systems <- MCSystems
    Foci = {0, 9, 30}
    Targets <- MCTargets
    KindaBig <- MCBig
    Radius = 448
    Halvings = 4
    Requests <- MCRequests
    Levels = {0, 1, 2, 3}
    acceptable = 1
    MaxIterations = 2
    LineSearches = 2
    Traces <- MCTraces
    Gone = Gone
    NotFinite = NotFinite
INVARIANTS
    HeldReferencesValid
    TransformsFormTheImage
    StepsSolve
    CurvesAreAsDocumented
    SurfacesBendRays
    OpdIsPathDifference
    ContrastSamplesThePupil
PROPERTY
    ImplementsFifo
CHECK_DEADLOCK FALSE
