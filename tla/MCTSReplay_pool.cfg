\* Five operations, a fresh pool whose unwritten slots happen to be zero
\* (NULL), and an int wide enough that no clock difference wraps: the
\* ptrset_pop off-by-one alone hands a thread in use to a second operation.
CONSTANTS
    o1 = o1
    o2 = o2
    o3 = o3
    o4 = o4
    o5 = o5
    NULL = NULL
    Garbage = Garbage
    Ops = {o1, o2, o3, o4, o5}
    UninitValues = {NULL}
    LastCkpt = 0
    IntBits = 16
SPECIFICATION Spec
INVARIANT PoolHandsOutFreeThreads
SYMMETRY Symmetry
