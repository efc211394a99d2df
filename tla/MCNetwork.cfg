\* Every part of network servers and clients on its own instance, see MCNetwork.
CONSTANTS
    \* Connection
    WRBUFSZ = 2
    NWRITERECS = 2
    RDBUFSZ = 3
    Scenarios <- Scs
    \* Server: three workers; the server is destroyed between accepts
    Conns = {"c1", "c2", "c3"}
    NThr = 3
    Settled = TRUE
    Timeouts = {0, 1}
    Quits = TRUE
    \* Client: two requests, and a blacklist of two
    Requests = {1, 2}
    Addrs = {"a", "b"}
    Results <- BothOrders
    ProtoOf <- Protos
    Options <- SomeOptions
    BLACKLISTSIZE = 2
    NoAddr = "none"
    \* Resolver
    MaxAddrs = 2
    PoolActive = TRUE
    InHandler = {}
    \* RateLimit: one thread; slots wrap around, with gaps of up to Wrap - 1 slots
    Checkers = {"t1"}
    Seconds = 5
    Limit = 2
    MAXCOUNTS = 3
    Wrap = 8
    Spin = TRUE
    Cleanup = TRUE
    MaxClock = 24
    MaxGap = 14
    \* Dictionary
    Keys = {"a", "b", "c", "d"}
    Digits <- Hashes
    MaxNest = 3
    Threads = {"t1", "t2"}
    MaxObjs = 3
    Matchers <- Matched
    Kinds <- DictKinds
SPECIFICATION MCSpec
INVARIANTS
    WrittenInOrder ReadInOrder
    ConnectionsCounted
    HeldWhileNeeded AddressesTried
    ResolverNotFreed
    LimitExact
    DictionaryIsMap DeletedSafely
PROPERTIES
    WritesEnd
    ServerEnds
    RequestsAnswered
CHECK_DEADLOCK FALSE
