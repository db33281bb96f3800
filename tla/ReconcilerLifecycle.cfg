SPECIFICATION Spec
CONSTANTS
    Names = {n1}
    Specs = {s1}
    NoSpec = NoSpec
    NoName = NoName
    MaxIncarnations = 2
    MaxReplicas = 1
    Disturbances = {"foreground", "status", "childDelete"}
    MaxDisturbances = 1
    MaxLag = 1
    MaxFaults = 0
    MaxCrashes = 1
INVARIANTS TypeOK CreatesOnlyForLiveOwner QuiescentConverged NothingForgotten
PROPERTIES CleanupSparesTheLiving
