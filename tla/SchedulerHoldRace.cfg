\* Two pool threads and one fiber that registers itself and yields to HOLD.
SPECIFICATION Spec
CONSTANTS
    Threads = {w1, w2}
    Caller = None
    Fibers = {f1}
    Callbacks = {}
    ReadyYielders = {}
    HoldYielders = {f1}
    Twice = {}
    CrossPins = FALSE
    MaxYields = 1
    None = None
    AnyThread = AnyThread
INVARIANT OneThreadPerFiber
