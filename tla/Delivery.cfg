SPECIFICATION FairSpec
CONSTANTS
    Runs = {"r1"}
    Targets = {"relay"}
    Configured = {"relay"}
    GroupOf <- OneGroup
    MaxAttempts = 2
    Batch = 2
    MaxEpisodes = 2
    MaxTroubles = 1
INVARIANTS
    RepeatsAreAccounted
PROPERTIES
    EveryAlertSettles
    DiskEpisodeIsTold
