\* Two pool threads and one more job than the ring has slots.
CONSTANTS
    Jobs = {j1, j2, j3}
    Threads = {t1}
    Workers = {w1, w2}
    Sz = 2
    NULL = NULL
SPECIFICATION Spec
INVARIANT NoJobLost
CHECK_DEADLOCK FALSE
