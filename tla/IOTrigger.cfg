\* A second thread cancels one of two events reported together.
SPECIFICATION Spec
CONSTANTS
    Threads = {w1, w2}
    Fds = {fd1}
    Fibers = {f1}
    Callbacks = {c1, c2}
    Uses <- ReadWrite
    Cancels = TRUE
    Closes = FALSE
    MaxOps = 3
    None = None
INVARIANT NoAssertFails
