SPECIFICATION GuaranteeSpec
CONSTANTS
    NSteps = 2
    Needs <- ChainNeeds
    Budget <- ChainBudget
    e1 = e1
    e2 = e2
    Executors <- TwoExecutors
    NoOne = NoOne
    MaxCrashCount = 1
    MaxInterrupts = 1
    StoreFails = TRUE
SYMMETRY Symmetry
INVARIANTS
    VerdictMatchesSteps
    UpstreamSucceeded
    AttemptBudget
    WhatTheHolderReadStands
    AtMostOneLateStart
    OneExecution
PROPERTIES
    OnlyTheHolderWrites
CHECK_DEADLOCK FALSE
