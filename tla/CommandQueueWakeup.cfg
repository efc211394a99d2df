\* One enqueuer, one command, and nobody else to wake the service thread.
CONSTANTS
    NULL = NULL
    c1 = c1  c2 = c2  c3 = c3  t1 = t1  t2 = t2
    Owner <- OnlyC1
    Loop = loop
    Threads = {loop, t1}
    Cmds = {c1}
    Dummies = {d0, d1}
    Dummy0 = d0
    Objs = {c1, d0, d1}
    IntEpoch = 2
    IntDestroy = 4
    EpochMod = 8
    ResGarbage = {7}
SPECIFICATION FairSpec
PROPERTIES
    ScheduledEventuallyRuns
