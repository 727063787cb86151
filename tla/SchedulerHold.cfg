\* One pool thread; every body may register itself and yield to HOLD.
SPECIFICATION Spec
CONSTANTS
    Threads = {w1}
    Caller = None
    Fibers = {f1}
    Callbacks = {c1, c2}
    ReadyYielders = {f1}
    HoldYielders = {f1, c1, c2}
    Twice = {f1}
    CrossPins = FALSE
    MaxYields = 2
    None = None
    AnyThread = AnyThread
SYMMETRY PoolSymmetry
INVARIANT NoAssertFails
