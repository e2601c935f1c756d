SPECIFICATION Spec
CONSTANTS
    None = None
    a = a
    b = b
    Ids <- TwoIds
    Configs <- BothConfigs
    Values <- TwoReadings
    Writes = {"create", "update", "options", "disable", "subscribe"}
    Faults = {}
    Backups <- FullBackup
    MaxWrites = 2
PROPERTY GuardHoldsAcrossReloads
CHECK_DEADLOCK FALSE
