SPECIFICATION Spec
CONSTANTS
    n1 = n1
    a1 = a1
    d1 = d1
    Years = {1, 2}
    DayHours = 8
    DefaultDays = 2
    NoAssignment = NoAssignment
    VacationName = n1
    InitialFiles <- FirstFiles
    Names = {n1}
    Assignments = {a1}
    Budgets = {0}
    Windows <- ReversedWindow
    DayCounts = {1}
    Dates = {d1}
    HourValues = {0, 8}
    Absent = Absent
    MaxCreated = 1
    MaxFailures = 0
INVARIANT DocumentAsDescribed
CHECK_DEADLOCK FALSE
