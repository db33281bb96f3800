SPECIFICATION Spec
CONSTANTS
    Names = {n1}
    Specs = {s1}
    NoSpec = NoSpec
    NoName = NoName
    MaxIncarnations = 1
    MaxReplicas = 1
    Disturbances = {"status"}
    MaxDisturbances = 2
    MaxLag = 2
    MaxFaults = 2
    MaxCrashes = 0
INVARIANTS ServiceEnsured
