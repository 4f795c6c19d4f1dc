SPECIFICATION ParaxSpec
CONSTANTS
    Prime = 5879
    Far = 4999
    EvenPolynomial <- Aspheres
    CurvatureOf <- Curvatures
    Specs <- MCSpecs
    Capacity = 1
    Medium = {"air", "glass"}
    Air = "air"
    RIndex <- Index
    WvlSpecs <- FixedList
    DefaultWvls <- TwoLines
    Request = {}
    Thickness = {5}
    MaxIfcs = 4
    MaxThi = 10
    Null = Null
INVARIANTS
    RaysObeyFirstOrderOptics
    FirstOrderFitsTogether
PROPERTIES
    RecomputingKeepsTheRays
