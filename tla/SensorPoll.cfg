SPECIFICATION Spec
CONSTANTS
    None = None
    Unavailable = Unavailable
    NonNumeric = NonNumeric
    NonFinite = NonFinite
    Configs <- AllConfigs
    Samples <- SamplesFor
    Seeds <- AllSeeds
    MaxPolls <- PollsOf
INVARIANT TypeOK
INVARIANT FailsClosedOrSoft
INVARIANT DeadChannelNeverWins
INVARIANT OrderIrrelevant
PROPERTY NeverDrops
PROPERTY NoRepeatedNotice
