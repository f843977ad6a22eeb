CONSTANTS
    m = m
    w1 = w1
    w2 = w2
    a = a
    b = b
    c = c
    NULL = NULL
    Threads <- MCThreads
    main <- MCMain
    Workers <- MCWorkers
    Adders <- OnlyMain
    Tasks <- TwoTasks
    QueSize = 1
SPECIFICATION FairSpec
CHECK_DEADLOCK FALSE
PROPERTY StopReturns
