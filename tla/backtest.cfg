SPECIFICATION Spec
CONSTANTS
    Whole = 4
    Absent = Absent
    Configs <- SweepConfigs
    Prices = {7, 10, 13, 16, 21}
    EntryPrice = 10
    MaxPrices = 5
INVARIANTS
    TypeOK
    ReturnInRange
    NeverHeldPastStop
    WorstIsWorst
CHECK_DEADLOCK FALSE
