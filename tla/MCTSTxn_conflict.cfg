\* Two writers over two objects: write-write conflicts, chain order, and
\* the end of the get_wrt_clk spin under per-thread weak fairness (no
\* symmetry: TLC does not check liveness soundly under symmetry).
CONSTANTS
    t1 = t1
    t2 = t2
    t3 = t3
    x = x
    y = y
    NULL = NULL
    OrdoClock = TRUE
    Threads = {t1, t2}
    Writers = {t1, t2}
    Objects = {x, y}
    MaxTxns = 2
    MaxOps = 1
    LogSize = 4
SPECIFICATION LiveSpec
INVARIANTS TypeOK ReadYourCommits FirstCommitterWins ChainLinear
PROPERTIES WaitEnds
