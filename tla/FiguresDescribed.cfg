SPECIFICATION Spec
CONSTANTS
    a1 = a1
    a2 = a2
    NoAssignment = NoAssignment
    Years <- ReviewedYears
    StartMonths <- JulyOrJanuary
    Days <- BorderDays
    Todays <- RunDays
    Amounts = {70}
    Budgets = {50, 200}
    Assignments = {a1}
    Windows <- BookingWindows
    Holidays <- PublicHolidays
    HourConfig <- HourConfigs
    FirstProjects <- ProjectList
    Offsets <- HorizonShifts
    MaxEdits = 4
INVARIANT FiguresAsDescribed
CHECK_DEADLOCK FALSE
