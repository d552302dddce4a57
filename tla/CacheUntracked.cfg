SPECIFICATION Spec
CONSTANTS
    s1 = s1
    s2 = s2
    t1 = t1
    t2 = t2
    c1 = c1
    c2 = c2
    Server = {s1}
    Tx = {t1}
    Check = {c1, c2}
    BaseId = 1
    Replicated = TRUE
    TrackedOnly = FALSE
    Window = 2
    MaxLag = 1
    MaxTime = 3
    RefreshTTL = 4
    CacheTTL = 0
    MaxReads = 2
    MaxEval = 1
    MaxRestarts = 0
SYMMETRY Symmetry
CHECK_DEADLOCK FALSE
INVARIANTS
    ReadYourWrites
