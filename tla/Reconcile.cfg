SPECIFICATION FairSpec
CONSTANTS
    None = None
    N = 3
    Faults = {"attach", "devices", "entities", "drop", "flip", "remove"}
    MaxFaults = 2
    MaxEvents = 2
INVARIANT TypeOK
INVARIANT NothingLost
INVARIANT RowsKept
INVARIANT StampsFollow
INVARIANT NoGhostDevice
PROPERTY ImplementsMigration
PROPERTY RootRuns
PROPERTY Converges
CHECK_DEADLOCK FALSE
