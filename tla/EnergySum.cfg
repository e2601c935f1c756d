SPECIFICATION Spec
CONSTANTS
    None = None
    Powers = {1, 3}
    Low = 1
    High = 3
    Grain = 4
    Jumps <- Corrections
    MaxTicks = 4
    MaxEvents = 3
INVARIANT TypeOK
INVARIANT EveryMomentOnce
PROPERTY TotalNeverFalls
