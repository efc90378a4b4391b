SPECIFICATION FairSpec
CONSTANTS
    None = None
    Hashes <- MCHashes
    MaxConsumers = 1
    Schedules = {FALSE}
    Retentions = {FALSE}
    MayRevert = FALSE
    MayDelete = TRUE
    MaxEdits = 0
    MaxErrors = 1
    MaxRestarts = 0
    MaxLate = 0
PROPERTY DeletionNeverWedges
CHECK_DEADLOCK FALSE
