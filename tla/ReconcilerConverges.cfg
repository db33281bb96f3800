SPECIFICATION ResyncSpec
CONSTANTS
    Names = {n1}
    Specs = {s1}
    NoSpec = NoSpec
    NoName = NoName
    MaxIncarnations = 1
    MaxReplicas = 1
    Disturbances = {"status", "scale"}
    MaxDisturbances = 2
    MaxLag = 2
    MaxFaults = 1
    MaxCrashes = 0
PROPERTIES EventuallyConverged
