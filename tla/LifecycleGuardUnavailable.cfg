SPECIFICATION Spec
CONSTANTS
    None = None
    a = a
    b = b
    Ids <- OneId
    Configs <- OnlyGuarded
    Values <- TwoReadings
    Writes = {"options"}
    Faults = {"unavailable"}
    Backups <- FullBackup
    MaxWrites = 1
PROPERTY GuardHoldsAcrossReloads
CHECK_DEADLOCK FALSE
