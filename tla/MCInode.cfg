SPECIFICATION Spec
CONSTANTS
    Threads = {t1, t2}
    Names = {a, b}
    Inums = {i1, i2, i3}
    Blocks = {k1, k2}
    NINODE = 2
    None = None
    MaxLink = 4
SYMMETRY Symmetry
INVARIANTS
    TypeOK
    TreeConsistent
PROPERTIES
    OnlyFullPanics
