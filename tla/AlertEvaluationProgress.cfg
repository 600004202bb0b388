SPECIFICATION FairSpec
CONSTANTS
    Rules = {r1, r2}
    EventTypes = {login}
    Hosts = {h1}
    Levels = {1}
    Deltas <- LoweringDeltas
    RuleTypes = {"event_score", "metric_threshold"}
    Lookback = 0
    Cooldown = 1
    Staleness = 0
    Operators = {o1}
    BadRules = {r2}
    MaxTime = 1
    MaxEdits = 2
    MaxFaults = 1
    Null = Null
INVARIANTS
    RecoveryFollowsFiring
PROPERTIES
    QualifyingEventTold
    MetricSettles
