SPECIFICATION Spec
CONSTANTS
    None = None
    Hashes <- MCHashes
    MaxConsumers = 2
    Schedules = {FALSE}
    Retentions = {FALSE}
    MayRevert = TRUE
    MayDelete = FALSE
    MaxEdits = 2
    MaxErrors = 0
    MaxRestarts = 0
    MaxLate = 0
INVARIANT SettledPartition
