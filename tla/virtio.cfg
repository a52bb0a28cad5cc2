SPECIFICATION Spec
CONSTANTS
    Procs = {1, 2, 3}
    NBUF = 3
    Blocks = {1, 2, 3}
    Vals = {x}
    None = None
    NUM = 7
    W = 14
INVARIANTS Descriptors CompletionsMatch
PROPERTY RequestReturns
