SPECIFICATION CronSpec
CONSTANTS
    Years = 3
    Months = 2
    HoursPerDay = 3
    WeekLen = 2
    LastDay <- Calendar
    MaxDay = 2
    Reach = 1
    Expressions <- Some
    Zones <- Changes
    SpringForward = {"skip", "shift"}
    FallBack = {"first", "both"}
    End = 15
INVARIANTS
    JumpsAreExact
    TimetableIsExact
    CutsDoNotShow
CHECK_DEADLOCK FALSE
