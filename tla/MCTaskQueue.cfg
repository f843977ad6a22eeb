CONSTANTS
    t1 = t1
    t2 = t2
    t3 = t3
    a = a
    b = b
    NULL = NULL
    Threads <- MCThreads
    Tasks <- MCTasks
    QueSize = 2
SPECIFICATION Spec
INVARIANTS
    TypeOK
    ExitConditionStands
    SignalsSuffice
PROPERTY ImplementsBoundedQueue
