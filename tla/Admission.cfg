SPECIFICATION FairSpec
CONSTANTS
    Jobs = {j1}
    j1 = j1
    v = v
    Values <- MCValues
    NoKey = NoKey
    Ceiling <- MCCeiling
    Overlap <- MCOverlap
    OnConflict <- MCOnConflict
    Ceilings = {1}
    Batches = {2}
    MaxRuns = 3
    MaxReturns = 1
INVARIANTS
    OneHolderPerKey
PROPERTIES
    EveryQueuedRunLeaves
    ClaimStaysUnderCeiling
CHECK_DEADLOCK FALSE
