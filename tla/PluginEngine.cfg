CONSTANTS
    lifecycle = lifecycle
    builder = builder
    Process = {lifecycle, builder}
    Server = lifecycle
    r1 = r1
    r2 = r2
    Request = {r1, r2}
    Stem = {1, 2}
    MaxUploads = 2
    MaxDeletes = 1
    MaxRestarts = 1
    MaxTime = 3
SPECIFICATION PluginSpec
INVARIANTS
    LoadedIsUploaded
    PluginsAreWhole
CHECK_DEADLOCK FALSE
CONSTRAINT Unexcused
SYMMETRY Symmetry
