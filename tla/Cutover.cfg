SPECIFICATION CutoverSpec
CONSTANTS
    Imported <- ThreeJobs
    Origin <- Origins
    Texts <- Sayings
    Crontabs <- Tabs
    Extra <- Additions
    o1 = o1
    o2 = o2
    Operators <- TwoOperators
    NoOne = NoOne
    MaxCommands = 3
    MaxEdits = 1
SYMMETRY Symmetry
INVARIANTS
    RollbackRestores
    TrailTellsTheTruth
CHECK_DEADLOCK FALSE
