SPECIFICATION FairSpec
CONSTANTS
    None = None
    a = a
    b = b
    Ids <- TwoIds
    Configs <- BothConfigs
    Values <- OneReading
    Writes = {"create", "update", "delete", "options", "disable", "restart", "import", "export", "subscribe"}
    Faults = {"timeout"}
    Backups <- FullBackup
    MaxWrites = 2
INVARIANT TypeOK
INVARIANT NoWriteLost
INVARIANT LoadedIsComplete
INVARIANT SnapshotFollowsEntry
PROPERTY ImplementsService
PROPERTY Settles
CHECK_DEADLOCK FALSE
