\* A flag of either kind; a queue with one waiter; three guest threads on a read-write lock,
\* on a mutex and a condition variable, or on a POSIX semaphore; and two that wait for a word.
CONSTANTS
    a = a
    b = b
    Calls = {c1, c2, c3}
    Bits <- MCBits
    InitBits = {}
    Waits <- MCSomeWaits
    SetPatterns <- MCAllPatterns
    ClearPatterns <- MCAllPatterns
    CancelPatterns <- MCAllPatterns
    user = user
    ampr = ampr
    w1 = w1
    w2 = w2
    Level = {}
    Edge = {}
    Queued = {ampr}
    Periodic = {timer}
    OneShot = {hrtimer}
    Waiters = {w1}
    Nums = {1}
    Delays = {0, 1}
    Timeouts = {1}
    MaxNow = 3
    MaxSent = 2
    Threads = {t1, t2, t3}
    SemThreads = {t1, t2, t3}
    MaxValue = 2
    AddressThreads = {t1, t2}
    WaitCalls <- MCWaitCalls
    Watched = t1
    None = None
    MaxReads = 2
    MaxCalls = 6
    MaxDepth = 2
    MaxLocks = 6
    MaxPosts = 3
SPECIFICATION AllSpec
\* A freed flag, a deleted queue with nobody in it, and threads that wait for a signal nobody
\* sends are the end.
CHECK_DEADLOCK FALSE
INVARIANTS
    FlagConsistent
    NoSatisfiedSleeper
    CanceledAllLeave
    TriggersArriveInOrder
    NoSleeperMissesEvent
    TimersKeepTime
    OtherQueuesTell
    RwlockConsistent
    WakesAreKept
    PosixSemConsistent
PROPERTIES
    MonitorImplements
    CallsEnd
