\* use_caller: the client thread main runs the root fiber inside stop().
SPECIFICATION FairSpec
CONSTANTS
    Threads = {w1, main}
    Caller = main
    Fibers = {f1}
    Callbacks = {c1}
    ReadyYielders = {f1, c1}
    HoldYielders = {}
    Twice = {}
    CrossPins = FALSE
    MaxYields = 1
    None = None
    AnyThread = AnyThread
PROPERTIES
    StopReturns
    EveryTaskRuns
