SPECIFICATION Spec
CONSTANTS
    Systems = {s1}
    Carriers = {}
    Writers = {w1}
    None = None
    Periodic = FALSE
    ChunkSize = 1
    MaxDocks = 1
    MaxFaults = 0
PROPERTY NeverRemovesLiveName
