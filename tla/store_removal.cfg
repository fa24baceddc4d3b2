SPECIFICATION Spec
CONSTANTS
    Symbols = {s1}
    Prices = {1, 2}
    Clients = {c1}
    None = None
    MaxLots = 1
    MaxBatch = 1
    MaxFaults = 0
    MaxCrashes = 0
    Overlapping = FALSE
INVARIANT
    RemovalWrittenThrough
