CONSTANTS
    c1 = c1
    c2 = c2
    c3 = c3
    w1 = w1
    w2 = w2
    MCio = MCio
    NULL = NULL
    io <- MCio
    Conns <- ThreeConns
    Workers <- TwoWorkers
    MaxFd = 2
    QueSize = 1
    MaxLines = 1
    Patient = FALSE
SPECIFICATION Spec
SYMMETRY MCSymmetry3
CHECK_DEADLOCK FALSE
INVARIANTS
    DescriptorsAgree
    OwnershipSound
    PendingAnnounced
    KnownEndings
    StraysAreOfTheGone
