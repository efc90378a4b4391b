SPECIFICATION Spec
CONSTANTS
    None = None
    Hashes <- MCHashes
    MaxConsumers = 2
    Schedules = {FALSE}
    Retentions = {FALSE}
    MayRevert = FALSE
    MayDelete = FALSE
    MaxEdits = 1
    MaxErrors = 0
    MaxRestarts = 0
    MaxLate = 0
INVARIANT NeverHandledTwice
