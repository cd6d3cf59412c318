SPECIFICATION Spec
CONSTANTS
    Mutators = {m1}
    Updaters = {u1}
    Readers = {}
    Unencodable = {}
    Boot = Boot
    None = None
    MaxCrashes = 0
    MaxPowerLosses = 0
INVARIANT NoHalfChangedDocument
CHECK_DEADLOCK FALSE
