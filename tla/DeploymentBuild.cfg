CONSTANTS
    Targets = 2
    Kind = {"build"}
    Event = {}
    MaxDeps = 1
    MaxDeletes = 0
    MaxFaults = 0
SPECIFICATION FairSpec
PROPERTIES
    ResultStored
CHECK_DEADLOCK FALSE
