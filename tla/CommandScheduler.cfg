\* One other thread; the pool grows by two.
SPECIFICATION LiveSpec
CONSTANTS
    t1 = t1
    Others <- MCOthers
    GrowStep = 2
    MaxTick = 3
    MaxOps = 3
INVARIANTS
    RunsAfterGpu
    PriorityFirst
    NotInFlight
    NothingLeft
PROPERTIES
    PriorityRuns
    CallsEnd
\* A scheduler that is closed is the end.
CHECK_DEADLOCK FALSE
