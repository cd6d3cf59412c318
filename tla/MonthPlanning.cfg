SPECIFICATION LiveSpec
CONSTANTS
    a = a
    b = b
    holiday = holiday
    Generators = {g1, g2}
    Savers = {s1}
    None = None
    Projects = {a, b, holiday}
    Vacation = holiday
    LastDay = 7
    FiscalDays = {1, 2, 3, 4, 5, 6}
    Closed = {6}
    MonthOf <- FourMonths
    WeekOf <- TwoWeeks
    HistoryLength = 3
    FullDay = 1
    HourValues = {0, 1}
    Batches <- Requests
    Windows = {3}
    FirstHours <- Entries
    TicksPerDay = 1
    TTL = 1
    MaxPreviews = 1
    MaxClock = 2
    MaxEdits = 1
    MaxRestarts = 1
INVARIANTS
    PreviewSavedOnce
    PreviewsBounded
    OneGenerationAtATime
PROPERTIES
    SavePreservesWeekTotals
    SaveKeepsTheRest
    GenerationEnds
    PreviewIsWhatIsSaved
CHECK_DEADLOCK FALSE
