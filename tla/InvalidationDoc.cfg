SPECIFICATION Spec
CONSTANTS
    Capacity = 1
    Medium = {"air", "glass"}
    Air = "air"
    RIndex <- Index
    WvlSpecs <- Lists
    DefaultWvls <- OneLine
    Request <- TraceAndParaxial
    Thickness = {1}
    MaxIfcs = 3
    MaxThi = 2
    Null = Null
INVARIANT
    EveryWriterClears
