SPECIFICATION MCSpec
CONSTANTS
    Users = {u1, u2}
    Logins = {l1, l2}
    Requests = {}
    Changers = {c1, c2}
    Null = null
    Roles = {"admin", "viewer"}
    MaxSessions = 1
    MaxGen = 2
    MaxTime = 1
    MaxBusy = 2
    MaxFailed = 2
    Lockout = 1
    IdleTimeout = 2
    AbsoluteTimeout = 3
    TouchInterval = 1
    OneGuard = TRUE
    OneWriter = TRUE
    Scopes = {"sessions", "limits"}
    Slots = {}
    MaxOpened = 1
    Pending = {p1}
    Clients = {k1}
    LoginLimit = 1
    PluginsLimit = 2
    Window = 2
    LoginBody = 1
    DefaultBody = 2
    UploadBody = 3
    MaxBody = 4
    MaxTicks = 3
    MaxHits = 3
SYMMETRY MCSymmetry
INVARIANTS
    TypeOK
    OnlyPresentPassword
    NoneRevived
    FailuresLock
    AdminRemains
    RequestsBounded
PROPERTIES
    LockedNeverEnters
