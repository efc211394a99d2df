\* One pool thread: the ring may wrap as often as it likes.
CONSTANTS
    Jobs = {j1, j2, j3, j4}
    Threads = {t1, t2}
    Workers = {w1}
    Sz = 2
    NULL = NULL
SPECIFICATION FairSpec
INVARIANTS
    TypeOK
    SlotConservation
PROPERTIES
    ImplementsHandoff
    AcceptedEventuallyRuns
CHECK_DEADLOCK FALSE
