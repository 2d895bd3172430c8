SPECIFICATION FairSpec
CONSTANTS
    Order <- MCOrder
    Gated = {"bridge"}
    Threshold = 3
    Window = 5
    BackoffInitial = 1
    BackoffMax = 2
    GateTimeout = 2
    Grace = 1
    MaxCrashes = 5
    MaxDelays = 1
    MaxSpawnErrors = 1
INVARIANTS
    NoOrphans
    StoppedInReverse
    RestartsAreRare
PROPERTIES
    NoStartWhileStopping
    GivesUpOnlyOnLoops
    ShutdownCompletes
    ExitIsHandled
CHECK_DEADLOCK FALSE
