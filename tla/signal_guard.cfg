SPECIFICATION Spec
CONSTANTS
    Workers = {w1, w2}
    Signals = {s1}
    Visits = {v1, v2}
CHECK_DEADLOCK FALSE
PROPERTIES
    ThreadsAreFreed
