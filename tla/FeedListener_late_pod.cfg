SPECIFICATION Spec
CONSTANTS
    None = None
    Hashes <- MCHashes
    MaxConsumers = 1
    Schedules = {FALSE}
    Retentions = {FALSE}
    MayRevert = FALSE
    MayDelete = TRUE
    MaxEdits = 0
    MaxErrors = 0
    MaxRestarts = 0
    MaxLate = 1
INVARIANT NoOrphanedIndexes
CHECK_DEADLOCK FALSE
