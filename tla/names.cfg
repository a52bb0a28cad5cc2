SPECIFICATION Spec
CONSTANTS
    Procs = {p1, p2}
    NINODES = 3
    DIRSIZ = 2
    Names <- SmallNames
    MaxLinks = 2
    Calls <- RaceCalls
SYMMETRY Symmetric
INVARIANTS PathSplit RefsCounted PutNeverBlocks  LinkCounts
