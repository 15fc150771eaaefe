SPECIFICATION FairSpec
CONSTANTS
    MaxEvents = 2
    MaxTriggers = 1
    Rejects = TRUE
    Threshold = 1
    MaxErrors = 1
    MaxCrashes = 1
    Targets = {0, 1}
    MaxMoves = 2
INVARIANTS
    NothingBehindTheCursor
    OneRunPerKey
PROPERTIES
    EveryEventIsOffered
CHECK_DEADLOCK FALSE
