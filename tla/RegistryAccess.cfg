CONSTANTS
    t1 = t1
    t2 = t2
    Thread = {t1, t2}
    Name = {"a", "b"}
    Release = {1, 2}
    Scope = {"call_job"}
    MaxRecords = 9
    MaxRequests = 2
    MaxCrashes = 1
SPECIFICATION Spec
INVARIANT AccessIsToTheResource
CHECK_DEADLOCK FALSE
