CONSTANTS
    i1 = i1
    i2 = i2
    Null = Null
    Intents = {i1, i2}
    Rules = {r1}
    Configs <- MCConfigs
    MaxId = 2
    ReuseIds = FALSE
    RetryInitial = 1
    RetryMax = 2
    RetryTTL = 2
    BatchSize = 2
    Retention = 1
    LastEnqueue = 1
    MaxTime = 3
    MaxFaults = 1
SPECIFICATION Spec
SYMMETRY MCSymmetry
INVARIANTS
    TypeOK
    OutboxMatchesHistory
    SucceededWasMailed
PROPERTIES
    WaitingNeverLost
    NoSendAfterDeletion
    DeliversAsPromised
