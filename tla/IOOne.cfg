\* One thread, both events of a descriptor, which is closed and reopened.
SPECIFICATION Spec
CONSTANTS
    Threads = {w1}
    Fds = {fd1}
    Fibers = {f1}
    Callbacks = {c1, c2}
    Uses <- ReadWrite
    Cancels = TRUE
    Closes = TRUE
    MaxOps = 4
    None = None
SYMMETRY IOSymmetry
INVARIANTS
    PendingExact
    EdgeNotLost
    AssertOnlyOnReuse
    NoneStranded
