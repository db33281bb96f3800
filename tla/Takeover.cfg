SPECIFICATION TSpec
CONSTANTS
    Names = {n1}
    Specs = {s1}
    NoSpec = NoSpec
    NoName = NoName
    MaxIncarnations = 2
    MaxReplicas = 1
    Disturbances = {}
    MaxDisturbances = 0
    MaxLag = 1
    MaxFaults = 0
    MaxCrashes = 0
    MaxTakeovers = 1
INVARIANTS QuiescentConverged
PROPERTIES TakeoverKeepsWrites
VIEW Future
