SPECIFICATION FairSpec
CONSTANTS
    Names = {n1}
    Specs = {s1, s2}
    NoSpec = NoSpec
    NoName = NoName
    MaxIncarnations = 1
    MaxReplicas = 1
    Disturbances = {"edit"}
    MaxDisturbances = 1
    MaxLag = 2
    MaxFaults = 0
    MaxCrashes = 0
PROPERTIES SpecReachesDeployment
