SPECIFICATION FairSpec
CONSTANTS
    None = None
    Hashes <- MCHashes
    MaxConsumers = 2
    Schedules = {TRUE, FALSE}
    Retentions = {FALSE}
    MayRevert = FALSE
    MayDelete = FALSE
    MaxEdits = 1
    MaxErrors = 1
    MaxRestarts = 1
    MaxLate = 0
INVARIANTS TypeOK SettledPartition
PROPERTY Settles
