CONSTANTS
    p1 = p1
    p2 = p2
    Procs = {p1, p2}
    First = p1
    NPAGES = 25
    KernelTables = 3
    PGSIZE = 4
    FANOUT = 2
    MaxPage = 5
    MaxBudget = 13
    UINT = 64
    Increments <- SmallIncrements
    Programs <- SmallPrograms
    ArgCounts = {1, 2}
    ArgSize = 1
SPECIFICATION Spec
INVARIANTS PagesConserved ImageMatchesSize CopyExact
PROPERTY FailureUndone
