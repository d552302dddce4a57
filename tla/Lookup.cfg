SPECIFICATION Spec
CONSTANTS
    Object <- MCObject
    TypeOf <- MCTypeOf
    RelationsOf <- MCRelationsOf
    PermissionsOf <- MCPermissionsOf
    TargetsOf <- MCTargetsOf
    MaxDepth = 8
    maxUsersetDepth = 2
    IdOf <- MCIdOf
    IdsOfType <- ListedIds
    Optimized <- UseOptimized
    QueriedIds <- AccessibleIds
    RelatedIds <- RelationIds
    AttributedIds <- AttributeIds
    ContextualIds <- ContextIds
    Verified <- Allowed
    Followed <- AllFollowed
    Tuple <- MCTuple
    Volatile <- MCVolatile
    Scenario <- MCScenario
    defaultLookupLimit = 2
    defaultBatchSize = 1
    maxBatchSize = 2
    MaxFailures = 1
    MaxCommits = 1
INVARIANTS
    TypeOK
    PagesAscend
    QueryCovers
    Complete
PROPERTIES
    Finished
CHECK_DEADLOCK FALSE
