CONSTANTS
    m = m
    w1 = w1
    w2 = w2
    a = a
    b = b
    c = c
    NULL = NULL
    Threads <- MCThreads
    main <- MCMain
    Workers <- MCWorkers
    Adders <- OnlyMain
    Tasks <- MCTasks
    QueSize = 2
SPECIFICATION FairSpec
\* After stop() has returned nothing is left to do.
CHECK_DEADLOCK FALSE
INVARIANTS
    TasksAccountedFor
    StopDrains
PROPERTIES
    PoolProgress
    StopReturnsUnlessMissed
