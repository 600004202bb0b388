SPECIFICATION MCSpec
CONSTANTS
    VCenters = {v1, v2}
    Jobs = {poll, manual}
    PollJobs = {poll}
    Reloader = reloader
    Null = null
    MaxGen = 2
    MaxItems = 1
    Limit = 2
    FaultKinds = {"hang"}
    MaxFaults = 1
    NoEventCursor = NoEventCursor
    Skews <- TheSkews
    Delays = {0, 1}
    Flaws = {"naive"}
    Refused = {}
    Overlap = 1
    Lookback = 2
    PageSize = 1
    MaxPages = 2
    Retention = 3
    LastTime = 5
    MaxEmitted = 3
    EventTypes = {v1, v2}
    HighAttention = {v1, v2}
    Severities = {"error"}
    Keywords = {TRUE}
    ScoreDeltas <- TheDeltas
    Editors = {poll, manual}
    NoRule = NoRule
    MaxScored = 1
    MaxFile = 1
    MaxRuleId = 2
    MaxOpen = 2
SYMMETRY Symmetry
INVARIANTS
    CollectionTypeOK
    OnlyOwnData
    RunStateIsTrue
    NoEventMissed
    ScoresFollowRules
