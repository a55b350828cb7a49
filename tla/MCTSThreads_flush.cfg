\* One thread that commits and then calls flush_log: under weak fairness
\* of every thread, the QP thread's help can serve each request before the
\* flushing thread's spin sees it, so the flush need not return.
CONSTANTS
    t1 = t1
    t2 = t2
    Threads = {t1}
    MaxCommits = 1
    NoThread = NoThread
    FlushThreads = {t1}
    TvlogLowMark = 0
    TvlogHighMark = 1
    CkptlogLowMark = 0
    CkptlogHighMark = 1
SPECIFICATION Spec
PROPERTY FlushTerminates
