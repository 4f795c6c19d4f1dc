SPECIFICATION Spec
CONSTANTS
    Capacity = 1
    Medium = {"air", "glass"}
    Air = "air"
    RIndex <- Index
    WvlSpecs <- Lists
    DefaultWvls <- OneLine
    Request <- AnyForward
    Thickness = {1}
    MaxIfcs = 3
    MaxThi = 2
    Null = Null
INVARIANTS
    CachedPathsCurrent
    PathsDescribeTheLens
