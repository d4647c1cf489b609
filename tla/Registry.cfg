CONSTANTS
    t1 = t1
    t2 = t2
    Thread = {t1, t2}
    Name = {"a", "b"}
    Release = {1, 2}
    Scope = {"call_job"}
    MaxRecords = 8
    MaxRequests = 3
    MaxCrashes = 1
    LabelText <- LabelTextDef
    Catalogue <- CatalogueDef
    Patterns <- PatternsDef
    Declaring <- DeclaringDef
    MaxDays = 31
SPECIFICATION RecordsSpec
INVARIANTS
    FailureHasCause
    SubjectsAreWhole
    AccessIsExplained
    VersionsAreExplained
CHECK_DEADLOCK FALSE
SYMMETRY Symmetry
CONSTRAINT Bounded
