CONSTANTS
    r1 = r1
    r2 = r2
    c1 = c1
    c2 = c2
    NoAddr = NoAddr
    Replica = {r1, r2}
    Client = {c1}
    Kind = {"poll", "status"}
    Event = {"signal", "late"}
    MaxAttempts = 2
    MaxRuns = 3
    MaxFaults = 2
SPECIFICATION FaultsSpec
SYMMETRY Symmetry
CONSTRAINT WithinFaults
INVARIANTS
    AnswerIsGenuine
    ChannelClosedOnce
    WaiterIsServed
    KeptUntilAnswered
CHECK_DEADLOCK FALSE
