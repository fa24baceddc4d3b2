SPECIFICATION FairSpec
CONSTANTS
    Symbols = {s1}
    Prices = {1, 2}
    Clients = {c1, c2}
    None = None
    MaxLots = 2
    MaxBatch = 1
    MaxFaults = 1
    MaxCrashes = 1
    Overlapping = TRUE
PROPERTIES
    StoredPeakNeverFalls
    ScanConverges
