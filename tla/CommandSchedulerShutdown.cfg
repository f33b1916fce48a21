\* No operation is needed: the runner is about to sleep when it is stopped.
SPECIFICATION LiveSpec
CONSTANTS
    t1 = t1
    Others <- MCOthers
    GrowStep = 1
    MaxTick = 2
    MaxOps = 0
PROPERTIES
    ShutdownFinishes
\* A scheduler that is closed is the end.
CHECK_DEADLOCK FALSE
