SPECIFICATION MCSpec
CONSTANTS
    Scopes = {"packages", "setup", "remote logs", "directory", "startup", "chat", "period", "digests"}
    Dists = {d1, d2}
    Jobs = {j1, j2}
    LastVersion = 1
    Processes = {1}
    NoPackage = NoPackage
    MaxRestarts = 1
    Apart = TRUE
    Dirs = {ad}
    Accounts = {a1}
    Groups = {g1}
    Logins = {l1, l2}
    Editors = {e1}
    Nobody = Nobody
    Configurations <- TheConfigurations
    MaxSaves = 2
    Procs = {p1, p2}
    Free = Free
    Secrets = {s1}
    NoSecret = NoSecret
    HeadRevision = 3
    Fingerprints = {1}
    Databases <- TheDatabases
    Settings <- TheSettings
    Generations = 1
    AdminName = "admin"
    Names = {"admin"}
    MaxStarts = 3
    MaxEntered = 1
    ChatUsers = {"u1", "u2"}
    Chats = {c1, c2}
    GlobalSlots = 2
    UserSlots = 1
    MaxSearches = 1
    MaxCalls = 2
    TokenBudget = 16
    SystemTokens = 1
    TurnOverhead = 1
    ImageTokens = 3
    CutSuffix = 1
    MaxTurns = 2
    Bodies <- TheBodies
    VcenterNames = {"vc"}
    ShortName <- FirstLabel
    EventTypes = {"disk", "link"}
    TypeScore <- TheScores
    ScoreThreshold = 1
    LastDay = 2
    MaxEvents = 2
    MaxAsked = 1
    Periods <- ThePeriods
    FoundDays = 1
    NothingDays = 1
    ErrorDays = 0
    LookbackDays = 1
    MaxPerCycle = 2
    MaxAttached = 1
    EventDays = 1
    DigestDays = 1
    NoResearch = NoResearch
    Null = Null
    Connections = {co1}
    Credentials = {k1}
    Hosts = {h1, h2}
    HostKeys = {hk1}
    Calls = {r1, r2}
    MaxDraft = 2
    MaxRevision = 6
    MaxVersion = 2
    EditsAlone = TRUE
    NoCursor = NoCursor
    LastInode = 3
    MaxBlurred = 1
    MaxRecord = 4
    MaxFiles = 3
    Budget = 2
    TailLength = 1
    Headed = TRUE
    HostSteps = {"rotate", "compress", "truncate", "delete"}
    SampleRows <- TheSampleRows
    EventRows <- TheEventRows
    LateRows <- TheLateRows
    Views <- TheViews
    AnyVcenter = 0
    KeysOf <- TheKeys
    Horizons <- TheHorizons
    BucketWidths <- TheWidths
    MaxBuckets = 4
    MaxHosts = 1
    MaxTypes = 2
    AlertTop = 2
    MaxVisible = 6
    MaxRows = 3
    MaxRaw = 4
    MaxGroups = 2
    MaxTop = 2
    Burst = 3
    BreachLevel = 90
SYMMETRY MCSymmetry
INVARIANTS
    ServicesTypeOK
    PackagesAccounted
    AccountsHold
    StartupSafe
    ChatPromises
    DigestPromises
    EveryRecordAccounted
    PeriodShownTrue
PROPERTIES
    ConfigurationInUse
CHECK_DEADLOCK FALSE
