CONSTANTS
    c1 = c1
    c2 = c2
    Clients = {c1}
    Keys = {1, 2, 3}
    OplogCap = 3
    EntriesPerChunk = 2
    ChunkNum = 4
    VsHighMark = 3
    VsLowMark = 2
    MaxOps = 7
    RemoveKeys = {}
SPECIFICATION Spec

INVARIANT VsEntryOwnKey
