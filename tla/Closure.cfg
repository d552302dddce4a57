SPECIFICATION Spec
CONSTANTS
    a = a
    b = b
    c = c
    d = d
    Node = {a, b, c, d}
    Relation <- MCRelation
    Excluded = {"viewer"}
    SubjectRelation = {"member"}
    NoSubjectRelation = ""
    Vocabulary <- KeyedOrAny
    Filter <- MCFilter
    MaxBatch = 2
    MaxIterations = 4
INVARIANTS
    TypeOK
    ClosureExact
    DepthsShortest
    ClosureTransitive
    RebuildRepairs
    RebuildShortest
