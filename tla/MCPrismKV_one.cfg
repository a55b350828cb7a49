CONSTANTS
    c1 = c1
    c2 = c2
    Clients = {c1}
    Keys = {1, 2, 3}
    OplogCap = 2
    EntriesPerChunk = 1
    ChunkNum = 3
    VsHighMark = 1
    VsLowMark = 1
    MaxOps = 6
    RemoveKeys = {}
SPECIFICATION Spec

INVARIANTS TypeOK OplogPathFresh
