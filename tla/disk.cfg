SPECIFICATION EvenSpec
CONSTANTS
    Procs = {p1, p2}
    NBUF = 3
    Blocks = {k1, k2, k3, k4}
    Changed = {k1}
    Vals = {x, y}
    None = None
    NUM = 3
    W = 3
    MaxPins = 1
SYMMETRY Symmetric
 
PROPERTY IsStore
