SPECIFICATION Spec
CONSTANTS
    s1 = s1
    s2 = s2
    t1 = t1
    t2 = t2
    c1 = c1
    c2 = c2
    Server = {s1}
    Tx = {t1, t2}
    Check = {c1, c2}
    BaseId = 0
    Replicated = FALSE
    TrackedOnly = TRUE
    Window = 2
    MaxLag = 0
    MaxTime = 1
    RefreshTTL = 0
    CacheTTL = 0
    MaxReads = 1
    MaxEval = 1
    MaxRestarts = 0
SYMMETRY Symmetry
CHECK_DEADLOCK FALSE
INVARIANTS
    CoversToken
    ServesNotified
