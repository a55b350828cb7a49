CONSTANTS
    c1 = c1
    c2 = c2
    Clients = {c1}
    Keys = {1, 2, 3, 4}
    OplogCap = 1
    EntriesPerChunk = 2
    ChunkNum = 4
    VsHighMark = 2
    VsLowMark = 2
    MaxOps = 5
    RemoveKeys = {}
SPECIFICATION Spec

INVARIANTS TypeOK
PROPERTIES GcLinksOwnEntry
