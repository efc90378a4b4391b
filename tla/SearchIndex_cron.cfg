SPECIFICATION FairSpec
CONSTANTS
    Systems = {s1}
    Carriers = {c1}
    Writers = {w1}
    None = None
    Periodic = FALSE
    ChunkSize = 1
    MaxDocks = 1
    MaxFaults = 1
PROPERTY Converges
