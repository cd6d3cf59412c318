SPECIFICATION Spec
CONSTANTS
    MaxBytes = 2
    MaxBackups = 3
    Lengths = {1, 3}
    Missing = Missing
    MaxLines = 7
    MaxFailures = 2
    MaxRestarts = 1
INVARIANTS
    LogInOrder
    OnlyOldestLinesGo
    SizeIsCounted
    WithinLimit
CHECK_DEADLOCK FALSE
