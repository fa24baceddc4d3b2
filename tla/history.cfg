SPECIFICATION Spec
CONSTANTS
    RsiPeriod = 2
    SmaPeriod = 6
    Fast = 2
    Slow = 5
    SignalPeriod = 2
    Unit = 1000
    Prices = {1, 4}
    Bars <- QuietAndGap
    Day = 1
    HistoryLimit = 5
    AtrPeriod = 1
    Spare = 1
    MaxTime = 1
    MaxRows = 5
    MaxLive = 2
    MaxDays = 2
    MaxImports = 1
CHECK_DEADLOCK FALSE
INVARIANTS
    TypeOK
    ImportsKeepOrder
    RsiFollowsPrice
    MacdFollowsTrend
    TechnicalsNeedRsi
    AtrSeesGaps
PROPERTIES
    LiveStaysLatest
