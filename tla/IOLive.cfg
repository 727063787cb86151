\* Liveness of waiting tasks and of stop().
SPECIFICATION FairSpec
CONSTANTS
    Threads = {w1, w2}
    Fds = {fd1}
    Fibers = {f1}
    Callbacks = {c1}
    Uses <- ReadOnly
    Cancels = FALSE
    Closes = FALSE
    MaxOps = 1
    None = None
PROPERTIES
    EveryTaskRuns
    StopReturns
