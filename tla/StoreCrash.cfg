SPECIFICATION LiveSpec
CONSTANTS
    Mutators = {m1, m2}
    Updaters = {u1, u2}
    Readers = {c1}
    Unencodable = {u2}
    Boot = Boot
    None = None
    MaxCrashes = 1
    MaxPowerLosses = 1
INVARIANTS
    NoDirtyRead
    FileNeverTorn
    RefusedMutateLeavesNothing
    AcceptedIsInFile
    DivergenceIsFailedUpdate
PROPERTIES
    EveryWriteAnswered
    ImplementsDurableDocument
