CONSTANTS
    Jobs = {j1, j2, j3, j4, j5}
    Workers = {w1, w2}
    Sz = 2
    NULL = NULL
SPECIFICATION FairSpec
INVARIANTS
    QueueConsistent
PROPERTIES
    ImplementsHandoff
    AcceptedEventuallyRuns
CHECK_DEADLOCK FALSE
