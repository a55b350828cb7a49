CONSTANTS
    t1 = t1
    t2 = t2
    t3 = t3
    x = x
    y = y
    NULL = NULL
    Threads = {t1, t2}
    Writers = {t1}
    Objects = {x}
    MaxTxns = 2
    MaxRounds = 2
    TvlogSize = 1
    OplogSize = 4
SPECIFICATION DSpec

INVARIANT CommitsRecoverable
