SPECIFICATION FairSpec
CONSTANTS
    Pods = {p1, p2}
    Config = config
    Weights = {w1, w2}
    OtherFiles = {tokenizer}
    MaxFailures = 2
INVARIANTS ReadyMeansUsable IncompleteOnlyWhileFilling
PROPERTIES EveryPodStarts
CHECK_DEADLOCK FALSE
