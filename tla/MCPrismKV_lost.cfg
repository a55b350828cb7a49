CONSTANTS
    c1 = c1
    c2 = c2
    Clients = {c1}
    Keys = {1, 2}
    OplogCap = 2
    EntriesPerChunk = 2
    ChunkNum = 4
    VsHighMark = 3
    VsLowMark = 2
    MaxOps = 6
    RemoveKeys = {}
SPECIFICATION Spec

INVARIANT LookupFresh
