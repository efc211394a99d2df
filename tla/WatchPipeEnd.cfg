\* epoll, with the end of a pipe reported the way Linux does it.
CONSTANTS
    Fds = {0, 2}
    Backends = {"epoll"}
    MaxEvents = 1
    MaxChanges = 1
    Readiness = {"idle", "ready", "end"}
    EndIsHup = {"epoll"}
SPECIFICATION WatchFairSpec
PROPERTY ReadyIsRaised
CHECK_DEADLOCK FALSE
