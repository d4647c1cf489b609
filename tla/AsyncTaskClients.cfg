CONSTANTS
    r1 = r1
    r2 = r2
    c1 = c1
    c2 = c2
    NoAddr = NoAddr
    Replica = {r1, r2}
    Client = {c1, c2}
    Kind = {"poll"}
    Event = {}
    MaxAttempts = 2
    MaxRuns = 2
    MaxFaults = 1
SPECIFICATION ClientsSpec
SYMMETRY Symmetry
INVARIANTS
    DuplicateHasCause
PROPERTIES
    ImplementsService
CHECK_DEADLOCK FALSE
