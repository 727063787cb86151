\* Two idle threads, two timers, no clock changes.
SPECIFICATION Spec
CONSTANTS
    Timers = {t1, t2}
    Workers = {w1, w2}
    Delays = {1, 3}
    MAX_TIMEOUT = 2
    HOUR = 2
    IntHalf = 16
    MaxTime = 2
    ClockSets = {}
    MaxUpdates = 1
CHECK_DEADLOCK FALSE
SYMMETRY TimerSymmetry
INVARIANTS
    QueuedIffArmed
    OneShotFate
    SleepCovers
