\* Two pool threads; client fibers yield to READY, callbacks do not yield.
SPECIFICATION Spec
CONSTANTS
    Threads = {w1, w2}
    Caller = None
    Fibers = {f1}
    Callbacks = {c1, c2}
    ReadyYielders = {f1}
    HoldYielders = {}
    Twice = {}
    CrossPins = FALSE
    MaxYields = 2
    None = None
    AnyThread = AnyThread
SYMMETRY PoolSymmetry
INVARIANTS
    CountersExact
    OneThreadPerFiber
    NoAssertFails
    CallbackConserved
    StopDrains
    PinRespected
PROPERTY NoEarlyExit
