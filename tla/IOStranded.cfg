\* A thread whose idle fiber has ended executes a task that waits.
SPECIFICATION Spec
CONSTANTS
    Threads = {w1, w2}
    Fds = {fd1}
    Fibers = {f1}
    Callbacks = {}
    Uses <- ReadOnly
    Cancels = FALSE
    Closes = FALSE
    MaxOps = 3
    None = None
INVARIANT NoneStranded
