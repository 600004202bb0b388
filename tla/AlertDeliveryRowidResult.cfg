CONSTANTS
    i1 = i1
    i2 = i2
    Null = Null
    Intents = {i1, i2}
    Rules = {r1}
    Configs <- MCSmtpOnly
    MaxId = 2
    ReuseIds = TRUE
    RetryInitial = 1
    RetryMax = 2
    RetryTTL = 2
    BatchSize = 1
    Retention = 1
    LastEnqueue = 1
    MaxTime = 3
    MaxFaults = 0
SPECIFICATION Spec
INVARIANTS
    SucceededWasMailed
