CONSTANTS
    Targets = 1
    Kind = {"deploy", "redeploy"}
    Event = {"sync", "lose", "reconcile"}
    MaxDeps = 2
    MaxDeletes = 0
    MaxFaults = 1
    Worker = {"w1", "w2"}
    Statements <- StatementsDef
    Key = {"a", "b"}
    MaxSize = 2
    MaxOutages = 1
SPECIFICATION LifecycleSpec
INVARIANTS
    AnswerFitsEffect
PROPERTIES
    SyncConverges
    ResultStored
    UnhealthyHasCause
    HealthRecovers
CHECK_DEADLOCK FALSE
