SPECIFICATION FairSpec
CONSTANTS
    None = None
    Hashes <- MCHashes
    MaxConsumers = 2
    Schedules = {TRUE}
    Retentions = {TRUE, FALSE}
    MayRevert = FALSE
    MayDelete = TRUE
    MaxEdits = 1
    MaxErrors = 1
    MaxRestarts = 0
    MaxLate = 0
INVARIANTS FinalizerGuardsChildren PurgeRunsAlone NoOrphanedIndexes
PROPERTY DeletionCompletes
CHECK_DEADLOCK FALSE
