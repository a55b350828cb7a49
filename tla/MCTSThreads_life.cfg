\* Two threads, each committing one transaction, through the whole
\* life of their structs and the QP thread's stop.
CONSTANTS
    t1 = t1
    t2 = t2
    Threads <- MCThreads
    MaxCommits = 1
    NoThread = NoThread
    FlushThreads = {t1}
    TvlogLowMark = 0
    TvlogHighMark = 1
    CkptlogLowMark = 0
    CkptlogHighMark = 1
SPECIFICATION Spec
INVARIANT TypeOK ExitClean
PROPERTY StopTerminates
