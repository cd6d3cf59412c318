SPECIFICATION Spec
CONSTANTS
    MaxBytes = 2
    MaxBackups = 3
    Lengths = {1, 3}
    Missing = Missing
    MaxLines = 4
    MaxFailures = 1
    MaxRestarts = 0
INVARIANT NoLineDropped
CHECK_DEADLOCK FALSE
