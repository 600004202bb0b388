SPECIFICATION FairSpec
CONSTANTS
    VCenters = {v1}
    Jobs = {poll, manual}
    PollJobs = {poll}
    Reloader = reloader
    Null = null
    MaxGen = 2
    MaxItems = 1
    Limit = 2
    FaultKinds = {"hang", "exit", "error", "db", "restart"}
    MaxFaults = 1
PROPERTIES
    ReloadEnds
    EveryItemStored
    CollectsAsPromised
