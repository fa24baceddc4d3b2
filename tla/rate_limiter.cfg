SPECIFICATION ClientFairSpec
CONSTANTS
    Callers = {a, b}
    MaxCalls = 2
    Window = 1
    MaxAcquires = 6
    Attempts = 3
    MaxOps = 2
INVARIANTS
    ClientTypeOK
    WindowBound
    QueueBounded
    SendsPaid
    SendsBounded
PROPERTIES
    ImplementsLimit
    QuoteReturns
CHECK_DEADLOCK FALSE
