CONSTANTS
    c1 = c1
    c2 = c2
    Call = {c1, c2}
    MaxConns = 2
    MaxFaults = 1
    p1 = p1
    p2 = p2
    Page = {p1, p2}
    MaxVersion = 2
    MaxChanges = 2
    MaxErrors = 1
    k1 = k1
    k2 = k2
    Client = {k1, k2}
    j1 = j1
    j2 = j2
    LogJob = {j1, j2}
    t1 = t1
    t2 = t2
    Thread = {t1, t2}
    MaxEvents = 4
    MaxStreamErrors = 1
SPECIFICATION Spec
INVARIANTS
    OwnAnswerUnlessShared
    ConnectionIsKept
    UnwatchedHasCause
    SettledPageIsCurrent
    SessionsAreClosed
PROPERTIES
    WaitEnds
CHECK_DEADLOCK FALSE
