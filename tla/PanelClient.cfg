SPECIFICATION FairSpec
CONSTANTS
    None = None
    MaxWrites = 2
    MaxSetups = 2
    MaxSubscribes = 2
    MaxFaults = 2
    MaxChanges = 3
    MaxWaiting = 2
INVARIANT TypeOK
INVARIANT ListensOnce
PROPERTY ShownNeverOlder
PROPERTY OwnWritesShown
PROPERTY CatchesUp
CHECK_DEADLOCK FALSE
