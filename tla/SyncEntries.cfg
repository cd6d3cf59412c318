SPECIFICATION SyncSpec
CONSTANTS
    Keys = {k1, k2}
    Unknown = {u1}
    Hours <- ItemHours
    MaxBatch = 4
    MaxEntries = 2
INVARIANTS
    IndexFindsLiveEntries
PROPERTY ImplementsEntryBook
CHECK_DEADLOCK FALSE
