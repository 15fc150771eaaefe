SPECIFICATION FairSpec
CONSTANTS
    MaxDay = 3
    MaxFaults = 1
    RunsDays = 0
    RunsKeepMin = 1
    TicksSkippedDays = 0
    TicksDays = 0
    TicksKeepMin = 1
    SessionsDays = 0
    SessionsKeepMin = 1
    RunKeysDays = 1
    LogShardDays = 1
    KeepMinShards = 1
    BackupRetain = 1
INVARIANTS
    NeverTwiceWithinHorizon
    LogPathNamesAFile
    VerifiedBackupStays
PROPERTIES
    LastNightIsWorked
CHECK_DEADLOCK FALSE
