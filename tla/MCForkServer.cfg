SPECIFICATION Spec
CONSTANTS
    c1 = c1
    c2 = c2
    STORER = STORER
    NULL = NULL
    OPEN = OPEN
    QUIT = QUIT
    Clients <- MCClients
    MaxTexts = 2
    PipeCap = 2
    SockCap = 1
    MaxReads = 1
INVARIANTS
    ZombiesAreOfMergedSignals
    ConnectionEndsWithItsChild
    TextsConserved
PROPERTIES
    EveryoneIsServed
\* All clients may have been served.
CHECK_DEADLOCK FALSE
