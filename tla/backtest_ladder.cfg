SPECIFICATION Spec
CONSTANTS
    Whole = 4
    Absent = Absent
    Configs <- DocConfigs
    Prices = {7, 10, 13, 16, 21}
    EntryPrice = 10
    MaxPrices = 5
INVARIANT
    RungsFireOnce
CHECK_DEADLOCK FALSE
