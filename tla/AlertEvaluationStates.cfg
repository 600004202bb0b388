SPECIFICATION Spec
CONSTANTS
    Rules = {r1}
    EventTypes = {login}
    Hosts = {h1}
    Levels = {1, 2}
    Deltas = {0}
    RuleTypes = {"event_score", "metric_threshold"}
    Lookback = 2
    Cooldown = 2
    Staleness = 1
    Operators = {}
    BadRules = {}
    MaxTime = 3
    MaxEdits = 1
    MaxFaults = 0
    Null = Null
INVARIANTS
    TypeOK
    ToldInOrder
