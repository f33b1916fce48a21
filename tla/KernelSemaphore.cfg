CONSTANTS
    first = first
    second = second
    urgent = urgent
    Calls <- MCCalls
    Priority <- MCPriority
    InitCount = 1
    MaxCount = 2
    NeedCounts <- MCNeedCounts
    SignalCounts <- MCSignalCounts
    CancelCounts <- MCCancelCounts
    MinCount <- MCMinCount
SPECIFICATION FairSpec
\* A freed semaphore is the end.
CHECK_DEADLOCK FALSE
INVARIANTS SemaphoreConsistent
PROPERTIES Implements DeleteFinishes
