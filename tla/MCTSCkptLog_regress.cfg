CONSTANTS
    t1 = t1
    t2 = t2
    x = x
    y = y
    ORG = ORG
    Threads = {t1, t2}
    Objects = {x}
    MaxCommits = 2
    MaxRounds = 5
    CkptlogSize = 8
    EntrySize = 2
SPECIFICATION Spec

INVARIANT CkptRecoverable
