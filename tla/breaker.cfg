SPECIFICATION FairSpec
CONSTANTS
    Symbols = {s1, s2, s3}
    Watchlist = {w1}
    Requests = {r1}
    Values = {1, 3}
    LimitPct = 50
    MaxConcurrent = 2
    None = None
    MaxFaults = 1
    MaxCrashes = 1
INVARIANTS
    TypeOK
    TotalAddsUp
    ScannerBuysGated
    BreakerIsCurrent
    AlertsAlternate
PROPERTIES
    BreakerCatchesUp
