SPECIFICATION Spec
CONSTANTS
    Object <- MCObject
    TypeOf <- MCTypeOf
    RelationsOf <- MCRelationsOf
    PermissionsOf <- MCPermissionsOf
    OwnType <- MCOwnType
    RuleDefs <- MCRuleDefs
    Tuple <- MCTuple
    Volatile <- MCVolatile
    Scenario <- MCScenario
    Schema <- MCSchema
    Question <- Questions
    Meaning <- Settled
    CallsOf <- CallsWithin
    MaxDepth = 6
    MaxTuplesPerQuery = 6
    MaxCommits = 2
INVARIANTS
    TypeOK
    AnswerBounded
    DepthErrorIsReal
    ExpandAgrees
    ValidNeverFails
PROPERTIES
    Answered
CHECK_DEADLOCK FALSE
