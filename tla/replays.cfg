SPECIFICATION FairSpec
CONSTANTS
    Scores = {1, 2, 3, 4}
    Total <- MCTotal
    Failed = {1}
    Imported = {4}
    Workers = {w1, w2}
    NoOne = NoOne
    MaxDeletes = 1
    MaxFaults = 1
    MaxCrashes = 1
INVARIANTS TypeOK OfferedReplaysExist NoFilesLeaked
PROPERTIES FailedReplaysVanish KeepsSlot
CHECK_DEADLOCK FALSE
