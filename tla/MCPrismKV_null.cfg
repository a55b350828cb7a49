CONSTANTS
    c1 = c1
    c2 = c2
    Clients = {c1}
    Keys = {1}
    OplogCap = 1
    EntriesPerChunk = 1
    ChunkNum = 4
    VsHighMark = 3
    VsLowMark = 2
    MaxOps = 3
    RemoveKeys = {}
SPECIFICATION Spec

INVARIANT EnqNeverNull
