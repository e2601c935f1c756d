SPECIFICATION Spec
CONSTANTS
    None = None
    N = 2
    Faults = {"attach", "remove"}
    MaxFaults = 2
    MaxEvents = 2
CHECK_DEADLOCK FALSE
PROPERTY EditsSurvive
