SPECIFICATION Spec
CONSTANTS
    Pods = {p1, p2}
    Config = config
    Weights = {w1, w2}
    OtherFiles = {tokenizer}
    MaxFailures = 1
SYMMETRY Symmetry
INVARIANTS ReadyMeansComplete
CHECK_DEADLOCK FALSE
