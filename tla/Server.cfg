SPECIFICATION FairSpec
CONSTANTS
    Requests = {r1, r2, r3}
    UseGPU = TRUE
    Quota = 3
    MaxTokens = 2
    FallbackWords = {1, 3}
    MaxRestarts = 1
INVARIANTS TypeOK ReadyWhenServing CounterIsExact
PROPERTIES RefusedOnlyWhenFull ImplementsLedger EveryRequestAnswered
CHECK_DEADLOCK FALSE
