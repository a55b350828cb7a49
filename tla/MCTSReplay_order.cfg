\* comp_replay_entries with the int scaled down to 3 bits: two clocks that
\* differ by half the int's range or more compare in the wrong order (with
\* 32 bits and TSC clocks, about 0.7 s apart at 3 GHz).  Three operations.
CONSTANTS
    o1 = o1
    o2 = o2
    o3 = o3
    o4 = o4
    o5 = o5
    NULL = NULL
    Garbage = Garbage
    Ops = {o1, o2, o3}
    UninitValues = {NULL}
    LastCkpt = 0
    IntBits = 3
SPECIFICATION Spec
INVARIANT ReplayInClockOrder
