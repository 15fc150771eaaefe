SPECIFICATION Spec
CONSTANTS
    Budget = 2
    MaxLaunches = 2
    GraceFits = TRUE
    MaxToken = 2
    MaxBoots = 1
    MaxFaults = 1
    MaxErrors = 1
INVARIANTS
    OneJobAtATime
    SucceededRan
PROPERTIES
    SpooledVerdictIsItsOwn
    StartupKeepsKnownResults
CHECK_DEADLOCK FALSE
