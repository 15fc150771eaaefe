SPECIFICATION FairRepairSpec
CONSTANTS
    NSteps = 2
    Needs <- ChainNeeds
    Budget <- ChainBudget
    e1 = e1
    Executors <- OneExecutor
    NoOne = NoOne
    MaxCrashCount = 1
    MaxInterrupts = 0
    StoreFails = FALSE
    MaxDamage = 1
    Scopes <- AllOrOne
PROPERTIES
    RepairAddsNoFinding
    RepairedRunEnds
CHECK_DEADLOCK FALSE
