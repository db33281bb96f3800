SPECIFICATION Spec
CONSTANTS
    Names = {n1}
    Specs = {s1, s2}
    NoSpec = NoSpec
    NoName = NoName
    MaxIncarnations = 2
    MaxReplicas = 1
    Disturbances = {"edit", "foreign"}
    MaxDisturbances = 1
    MaxLag = 1
    MaxFaults = 1
    MaxCrashes = 1
INVARIANTS StaleButSound
PROPERTIES CleanupSparesTheLiving OperatorKeepsOthersWrites
SYMMETRY Symmetry
