CONSTANTS
    c1 = c1
    c2 = c2
    Clients = {c1}
    Keys = {1, 2}
    MaxOps = 3
    ActiveMax = 1
    InactiveMax = 1
    ReclaimPages = 2
SPECIFICATION Spec
INVARIANT LookupReadsLive
