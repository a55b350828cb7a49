\* Two threads, ordo clock: a reader against a commit in flight.
CONSTANTS
    t1 = t1
    t2 = t2
    t3 = t3
    x = x
    y = y
    NULL = NULL
    OrdoClock = TRUE
    Threads = {t1, t2}
    Writers = {t1, t2}
    Objects = {x, y}
    MaxTxns = 2
    MaxOps = 1
    LogSize = 4
SPECIFICATION Spec
INVARIANT SnapshotRead
SYMMETRY Symmetry
