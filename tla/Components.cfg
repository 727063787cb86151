\* The parsers and the services, one at a time.
SPECIFICATION Spec
CONSTANTS
    Clients = {f1, f2, f3}
    Owner = f1
    Jobs = {j1, j2, j3}
    m_batchSize = 2
    Timeout = 2
    MaxCalls = 3
    Fds = {3, 4}
    MaxStarts = 2
    BuffSize = 3
    MaxBody = 4
    MaxBytes = 9
    Users = {u1, u2}
    Conns = {c1, c2}
    NoConn = none
    m_maxAliveTime = 1
    m_maxRequest = 2
    Clock = {2}
    Setters = {t1, t2}
    Values = {0, 1, 2}
    Default = 0
    Listeners = 2
    m_baseSize = 2
    MaxLength = 4
    MaxPosition = 7
    Width = 7
    Group = 3
    Room = 3
INVARIANTS
    UriSplit
    ReqElements
    ReqFinished
    RspElements
    RspFinished
    BodyExact
    TimeoutNotEarly
    ConnectIsMade
    NeverBlocksThread
    PoolExclusive
    TotalExact
    PoolAnswered
    ListenersFollow
    ReadsBack
    NullOnlyAtEnd
    VarintRoundTrip
PROPERTIES
    ImplementsBatch
    WaitAllReturns
    TimedCallReturns
    StopEndsAccept
\* A parser at the end of its input stops, and so do the bounded services.
CHECK_DEADLOCK FALSE
