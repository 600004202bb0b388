SPECIFICATION MCSpec
CONSTANTS
    Users = {u1}
    Logins = {l1}
    Requests = {r1, r2}
    Changers = {c1}
    Null = null
    Roles = {"admin"}
    MaxSessions = 1
    MaxGen = 2
    MaxTime = 4
    MaxBusy = 3
    MaxFailed = 1
    Lockout = 1
    IdleTimeout = 2
    AbsoluteTimeout = 3
    TouchInterval = 1
    OneGuard = TRUE
    OneWriter = FALSE
    Scopes = {"sessions", "tabs"}
    Slots = {r1, r2}
    MaxOpened = 3
    Pending = {}
    Clients = {k1}
    LoginLimit = 1
    PluginsLimit = 2
    Window = 2
    LoginBody = 1
    DefaultBody = 2
    UploadBody = 3
    MaxBody = 4
    MaxTicks = 3
    MaxHits = 3
SYMMETRY MCSymmetry
INVARIANTS
    TabsTrue
PROPERTIES
    UseNeverCutOff
