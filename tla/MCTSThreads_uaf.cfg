\* One thread committing one transaction, finishing while the QP thread
\* reaps zombies: ts_thread_free and qp_reap_zombie_threads both free it.
CONSTANTS
    t1 = t1
    t2 = t2
    Threads = {t1}
    MaxCommits = 1
    NoThread = NoThread
    FlushThreads = {}
    TvlogLowMark = 0
    TvlogHighMark = 1
    CkptlogLowMark = 0
    CkptlogHighMark = 1
SPECIFICATION Spec
INVARIANT NoUseAfterFree
