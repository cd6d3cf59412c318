SPECIFICATION Spec
CONSTANTS
    Days <- WorkWeek
    Weekend <- Saturday
    Projects <- PlannedProjects
    Assignment <- Assignments
    HistoryWeeks <- PastWeeks
    Recency <- HalvedByMonth
    NoWeek = NoWeek
    FullEvidence = 2
    Histories <- PastBookings
    Weeks <- PlannedWeeks
INVARIANTS
    HoursAreKept
    PendingMeansFull
    NarrowWindowsFirst
    AbsenceIsNoHabit
CHECK_DEADLOCK FALSE
