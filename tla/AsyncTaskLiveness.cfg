CONSTANTS
    r1 = r1
    r2 = r2
    c1 = c1
    c2 = c2
    NoAddr = NoAddr
    Replica = {r1, r2}
    Client = {c1}
    Kind = {"poll"}
    Event = {"expire"}
    MaxAttempts = 2
    MaxRuns = 3
    MaxFaults = 1
SPECIFICATION LifeSpec
PROPERTIES
    PollerIsAnswered
    ExpiredIsRemoved
CHECK_DEADLOCK FALSE
