\* A delay that does not fit an int.
SPECIFICATION Spec
CONSTANTS
    Timers = {t1}
    Workers = {w1}
    Delays = {1, 5}
    MAX_TIMEOUT = 2
    HOUR = 2
    IntHalf = 4
    MaxTime = 2
    ClockSets = {}
    MaxUpdates = 0
CHECK_DEADLOCK FALSE
INVARIANT SleepBounded
