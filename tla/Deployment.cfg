CONSTANTS
    Targets = 2
    Kind = {"deploy", "force", "redeploy", "reprovision", "move", "build"}
    Event = {"slow", "lose", "edit", "sync"}
    MaxDeps = 2
    MaxDeletes = 1
    MaxFaults = 1
SPECIFICATION ScenarioSpec
CONSTRAINT Within
INVARIANTS
    DoneWasVerified
    AtOddsHasCause
    Keyed
PROPERTIES
    ClaimProtected
CHECK_DEADLOCK FALSE
