SPECIFICATION ProgramsSpec
CONSTANTS
    p1 = p1
    p2 = p2
    c1 = c1
    c2 = c2
    NULL = NULL
    Producers <- MCProducers
    Consumers <- MCConsumers
    Loops = 2
    QueSize = 2
    MaxWakeups = 4
    MaxExpiries = 4
    MaxLines = 2
    NUM_THREAD = 3
    Rounds = 2
    MaxKeys = 4
INVARIANTS
    NothingForgotten
    OneMachineSafe
PROPERTIES
    ImplementsBoundedQueue
    NobodyStuck
\* Each of the programs ends.
CHECK_DEADLOCK FALSE
