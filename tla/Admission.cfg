SPECIFICATION FairSpec
CONSTANTS
    Manifests <- Boundaries
    Words = {"", "MPS", "MIG", "mps", "facebook/opt-125m"}
    Blank = ""
    Absent = Absent
    NoSpec = NoSpec
    None = None
    Builds = {FALSE, TRUE}
INVARIANTS RulesAgree
PROPERTIES ContainerStarts UpdatesKeepMeaning DeletesUnlessObstructed
