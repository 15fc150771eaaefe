SPECIFICATION FairSpec
CONSTANTS
    Hosts = {h1, h2}
    Schedules = {s1}
    Unreadable = {}
    Recorders = {}
    Horizon = 3
    Fires <- Every
    Dst <- NoDst
    Catchup <- Skip
    CatchupLimit = 1
    Window = 1
    ChunkSize = 1
    MaxFailures = 1
    MaxCrashes = 1
    MaxEdits = 2
INVARIANTS
    NothingPassedInSilence
PROPERTIES
    NoRunWhilePaused
    LedgerHolds
    EveryFireTimeIsAccounted
CHECK_DEADLOCK FALSE
