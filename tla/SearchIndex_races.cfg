SPECIFICATION Spec
CONSTANTS
    Systems = {s1, s2}
    Carriers = {}
    Writers = {w1}
    None = None
    Periodic = FALSE
    ChunkSize = 1
    MaxDocks = 2
    MaxFaults = 1
INVARIANTS TypeOK RemovalJustified UndisturbedPassIsExact
SYMMETRY Symmetry
