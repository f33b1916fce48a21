\* Two threads: one unmaps memory, the other shuts the GPU down.
CONSTANTS
    a = a
    Threads = {t1, t2}
    Labels = {a}
    ComputeQueues = 1
    Lists <- ThreeLists
    MaxRequests = 2
SPECIFICATION Spec
CHECK_DEADLOCK FALSE
INVARIANT UnmapSurvivesShutdown
