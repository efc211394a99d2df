\* Two timers, one destroyed while it runs, and a new one in the same record.
CONSTANTS
    Timers = {"t1", "t2"}
    Uses = {"destroy"}
    MaxTimes = 2
SPECIFICATION TimerSpec
INVARIANT StoppedWhenDestroyed
CHECK_DEADLOCK FALSE
