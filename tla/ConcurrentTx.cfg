SPECIFICATION Spec
CONSTANTS
    a = a
    b = b
    c = c
    t1 = t1
    t2 = t2
    Node = {a, b, c}
    Link <- MCLink
    Tx = {t1, t2}
    WriteSet <- Anything
    DeleteSet <- Anything
    Rebuilder = {t1, t2}
    NoEdge = NoEdge
SYMMETRY Symmetry
INVARIANTS
    TypeOK
    DirectRows
    NoExtraRows
    RebuildDuringWrite
CHECK_DEADLOCK FALSE
