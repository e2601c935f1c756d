SPECIFICATION Spec
CONSTANTS
    None = None
    Sensors = {s1, s2, s3}
    OtherDomain = {s3}
    MaxEdits = 5
    MaxFaults = 1
INVARIANT TypeOK
INVARIANT RowsOwned
INVARIANT RowsKept
INVARIANT InPlace
INVARIANT NoGhostDevice
CHECK_DEADLOCK FALSE
