\* Two enqueuers, an epoch and a scan per two nodes.
CONSTANTS
    NULL = NULL
    c1 = c1  c2 = c2  c3 = c3  t1 = t1  t2 = t2
    Owner <- OneByT1
    Loop = loop
    Threads = {loop, t1, t2}
    Cmds = {c1, c2, c3}
    Dummies = {d0, d1, d2, d3}
    Dummy0 = d0
    Objs = {c1, c2, c3, d0, d1, d2, d3}
    IntEpoch = 2
    IntDestroy = 2
    EpochMod = 8
    ResGarbage = {7}
SPECIFICATION Spec
VIEW MemoryView
INVARIANTS
    NoUseAfterFree
    ExecutedInOrder
