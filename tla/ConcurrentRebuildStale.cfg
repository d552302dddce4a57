SPECIFICATION Spec
CONSTANTS
    a = a
    b = b
    c = c
    t1 = t1
    t2 = t2
    Node = {a, b, c}
    Link <- MCLink
    Tx = {t1, t2}
    WriteSet <- Nothing
    DeleteSet <- OfTheFirst
    Rebuilder = {t2}
    NoEdge = NoEdge
INVARIANTS
    ExactWhenIdle
CHECK_DEADLOCK FALSE
