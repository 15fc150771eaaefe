SPECIFICATION ApplySpec
CONSTANTS
    j1 = j1
    j2 = j2
    n1 = n1
    s1 = s1
    d1 = d1
    d2 = d2
    p1 = p1
    p2 = p2
    NoDef = NoDef
    NoJob = NoJob
    NoDocument = NoDocument
    Jobs = {j1, j2}
    Schedules = {n1}
    Sensors = {s1}
    Definitions = {d1, d2}
    Documents <- Few
    Commands = {p1, p2}
    MaxFiles = 2
    MaxDrift = 1
INVARIANTS
    OneApplyOrTwo
PROPERTIES
    CatalogIsTheBatch
    DriftSurvives
SYMMETRY Symmetry
CHECK_DEADLOCK FALSE
