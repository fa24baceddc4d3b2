SPECIFICATION Spec
CONSTANTS
    Symbols = {s1, s2}
    Watchlist = {w1}
    Requests = {r1}
    Values = {1, 3}
    LimitPct = 50
    MaxConcurrent = 2
    None = None
    MaxFaults = 0
    MaxCrashes = 1
PROPERTY
    NoBuyInDrawdown
