SPECIFICATION Spec
CONSTANTS
    a = a
    b = b
    c = c
    d = d
    Node = {a, b, c, d}
    Relation <- MCRelation
    Excluded = {"viewer"}
    SubjectRelation = {"member"}
    NoSubjectRelation = ""
    Vocabulary <- OnlyParallel
    Filter <- MCFilter
    MaxBatch = 2
    MaxIterations = 4
INVARIANTS
    ClosureComplete
