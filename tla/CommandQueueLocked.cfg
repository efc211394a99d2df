CONSTANTS
    Cmds = {c1, c2, c3, c4}
    Threads = {t1, t2}
SPECIFICATION FairSpec
INVARIANTS
    IInv
    NoLostWakeup
PROPERTIES
    ImplementsRunOnThread
    ScheduledEventuallyRuns
