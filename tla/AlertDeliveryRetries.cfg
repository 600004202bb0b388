CONSTANTS
    i1 = i1
    i2 = i2
    Null = Null
    Intents = {i1}
    Rules = {r1}
    Configs <- MCConfigs
    MaxId = 1
    ReuseIds = FALSE
    RetryInitial = 1
    RetryMax = 3
    RetryTTL = 9
    BatchSize = 1
    Retention = 2
    LastEnqueue = 1
    MaxTime = 10
    MaxFaults = 2
SPECIFICATION FairSpec
INVARIANTS
    SideEffectsExplained
PROPERTIES
    RetrySpacing
    EveryIntentSettles
