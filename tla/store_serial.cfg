SPECIFICATION Spec
CONSTANTS
    Symbols = {s1, s2}
    Prices = {1, 2}
    Clients = {c1, c2}
    None = None
    MaxLots = 3
    MaxBatch = 2
    MaxFaults = 1
    MaxCrashes = 1
    Overlapping = FALSE
SYMMETRY Symmetry
INVARIANTS
    TypeOK
    CachedIsStored
PROPERTIES
    StoredPeakNeverFalls
