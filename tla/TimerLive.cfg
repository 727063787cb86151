\* Fair threads and a clock that runs to its horizon and may be set back once.
SPECIFICATION FairSpec
CONSTANTS
    Timers = {t1, t2}
    Workers = {w1}
    Delays = {1}
    MAX_TIMEOUT = 4
    HOUR = 1
    IntHalf = 16
    MaxTime = 2
    ClockSets = {0}
    MaxUpdates = 1
CHECK_DEADLOCK FALSE
PROPERTY TimersExpire
