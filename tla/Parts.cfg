CONSTANTS
    r1 = r1
    r2 = r2
    Request = {r1, r2}
    TTLMin = 1
    TTLMax = 3
    Timeout = 1
    MaxTime = 6
    Registration = {"r1", "r2"}
    LoginAttempt = {"l1", "l2"}
    PasswordChange = {"w1"}
    Password = {"p1", "p2"}
    Sent <- SentDef
    MaxSubjects = 3
    MaxEnds = 1
    c1 = c1
    c2 = c2
    Proc = {c1, c2}
    Command <- CommandDef
    Config <- ConfigDef
    Host = {"h1", "h2"}
    JobVersion = {1, 2}
    Infrastructure = {"i1", "i2"}
    MaxFailures = 1
    MaxKills = 1
    MaxAdmin = 1
    Files <- FilesDef
    Written <- WrittenDef
    ExtraVars <- ExtraVarsDef
    Secrets <- SecretsDef
    MaxEdits = 2
    MaxDeploys = 1
    Sources <- SourcesDef
    Wildcards <- WildcardsDef
    Lines <- LinesDef
    OutNames = {"p-1.zip", "bundle"}
    MaxLines = 3
    LabelText <- LabelTextDef
    JobTypes <- JobTypesDef
    UsesBase <- UsesBaseDef
    Wanted <- WantedDef
    Members = {"j1", "j2"}
    d1 = d1
    d2 = d2
    Deployments = {d1, d2}
    MaxSeconds = 2
    MaxChanges = 1
    MaxFaults = 1
    MaxStarts = 3
    MaxDisturbances = 2
    Core = {"lifecycle"}
    Jobs = {"a"}
    Environment = {"e1", "e2"}
    Spare = 1
    PerPage = 2
    MaxTag = 2
    MaxPushes = 1
    MaxBumps = 3
SPECIFICATION PartsSpec
INVARIANTS
    ServedIsRecent
    AccountsAreConsistent
    ConfigurationIsKept
    CommandEndsCleanly
    ManifestIsRespected
    FilesAreChosen
    BuildIsClean
    InstallationIsResumed
    MaintenanceIsSafe
PROPERTIES
    RecordIsKept
    RepositoryIsVerified
CHECK_DEADLOCK FALSE
CONSTRAINT InTurn
