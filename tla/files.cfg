SPECIFICATION Spec
CONSTANTS
    Procs = {p1, p2}
    NFILE = 2
    NOFILE = 2
    NINODE = 2
    BSIZE = 2
    NDIRECT = 1
    NINDIRECT = 3
    NBLOCKS = 10
    UINT = 16
    MAXOPBLOCKS = 6
    Vals = {1}
    Faults = {1}
    WriteSizes = {1, 7}
    ReadSizes = {15}
    MaxCalls = 4
SYMMETRY Symmetric
INVARIANTS  BitmapExact  ChunkFits
