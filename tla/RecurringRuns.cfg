SPECIFICATION FairSpec
CONSTANTS
    Schedules = {s1}
    Residents = {r1}
    Sweeps = {x1, x2}
    MonthLengths <- MCMonthLengths
    HoursPerDay = 1
    DaysPerWeek = 2
    MonthsPerQuarter = 2
    MonthsPerYear = 3
    Offered = {"MONTHLY", "QUARTERLY"}
    DaysOffered = {0, 1}
    Months = 3
    MaxHours = 1
    MaxFaults = 1
INVARIANTS
    TypeOK
    RunsWereCharged
    EveryMonthCharged
PROPERTIES
    DueRunsAreMade
CHECK_DEADLOCK FALSE
