\* Every call of two threads, three requests, lists that need one another.  The
\* thread that has exited, or the program that has, is the end.
CONSTANTS
    a = a
    Threads = {t1, t2}
    Labels = {a}
    ComputeQueues = 1
    Lists <- ThreeLists
    MaxRequests = 3
SPECIFICATION LiveSpec
CHECK_DEADLOCK FALSE
INVARIANTS
    InOrder
    OneSuspendPoint
PROPERTIES
    IdleMeansDone
    CallsEnd
