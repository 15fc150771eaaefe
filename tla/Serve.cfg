SPECIFICATION FairSpec
CONSTANTS
    Runs = {r1, r2}
    Target = r1
    Workers = 1
    Migrations = 1
    MaxStarts = 2
INVARIANTS
    CleanMeansQuiet
PROPERTIES
    EveryRunEnds
CHECK_DEADLOCK FALSE
