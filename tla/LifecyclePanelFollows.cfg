SPECIFICATION Spec
CONSTANTS
    None = None
    a = a
    b = b
    Ids <- TwoIds
    Configs <- OnlyGuarded
    Values <- OneReading
    Writes = {"create", "subscribe"}
    Faults = {}
    Backups <- FullBackup
    MaxWrites = 2
INVARIANT PanelKeepsFollowing
CHECK_DEADLOCK FALSE
