SPECIFICATION Spec
CONSTANTS
    Key = {"tiny", "small", "large", "huge"}
    Value = {v1, v2}
    TTL = {0, 1}
    Miss = Miss
    SizeOf <- MCSizeOf
    MaxSize = 4
    MaxTime = 2
INVARIANTS
    TypeOK
    ListMatchesItems
    SizeExact
    WithinLimit
    LeastRecentlyUsed
PROPERTIES
    NewEntryStays
    ImplementsStore
