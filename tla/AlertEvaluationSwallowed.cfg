SPECIFICATION Spec
CONSTANTS
    Rules = {r1}
    EventTypes = {login}
    Hosts = {}
    Levels = {1}
    Deltas = {0}
    RuleTypes = {"event_score"}
    Lookback = 2
    Cooldown = 2
    Staleness = 1
    Operators = {}
    BadRules = {}
    MaxTime = 5
    MaxEdits = 0
    MaxFaults = 0
    Null = Null
PROPERTY NewEventRenotified
