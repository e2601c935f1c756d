SPECIFICATION Spec
CONSTANTS
    None = None
    Sensors = {s1, s2}
    OtherDomain = {}
    MaxEdits = 2
    MaxFaults = 0
CHECK_DEADLOCK FALSE
PROPERTY MoveKeepsRow
