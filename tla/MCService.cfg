\* Every part of a service on its own instance, see MCService.
CONSTANTS
    \* Event: raises nest three deep
    Handlers = {"h1", "h2", "h3"}
    IdOf <- Ids3
    NoEntry = NoEntry
    MaxDepth = 3
    \* ThreadPool
    PoolJobs = {"j1", "j2"}
    PoolThreads = {"w1", "w2"}
    Scenarios <- Programs
    Unset = Unset
    \* JobQueue: two enqueuers and two pool threads
    Jobs = {"j1", "j2", "j3"}
    Threads = {"t1", "t2"}
    Workers = {"w1", "w2"}
    Sz = 2
    NULL = NULL
    \* Service
    SvcWorkers = {0, 1}
    MaxLocks = 2
    MaxTerms = 2
    Settled = TRUE
    \* Watch: descriptors with a gap, and less room for events than descriptors
    Fds = {0, 2}
    MaxEvents = 1
    MaxChanges = 1
    EndIsHup = {}
    Readiness = {"idle", "ready"}
    Backends = {"epoll", "kqueue", "evports", "poll", "select"}
    \* Timer
    Timers = {"t1", "t2"}
    Uses = {"destroy"}
    MaxTimes = 2
    \* Process
    Procs = {"p1", "p2"}
    Pids = {1, 2}
    PipeSets <- Pipes
    ReusePids = FALSE
    \* Daemon: three starts in sequence, or two that overlap in any way
    Starts = {1, 2, 3}
    Crowd = {1, 2}
    Nothing = Nothing
SPECIFICATION MCSpec
INVARIANTS
    RaiseSafe RaiseReachesAll
    PoolMemorySafe TakenOnce
    EndsInOrder
    EventsAsAsked
    TimersExact
    ProcessSafe
    PidfileExcludes
PROPERTIES
    EveryJobFinishes
    EndsWhenAsked
    ReadyIsServed
    ProcessEnds
    StartEnds
CHECK_DEADLOCK FALSE
