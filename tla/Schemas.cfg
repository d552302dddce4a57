SPECIFICATION Spec
CONSTANTS
    Server <- Servers
    Request <- Requests
    Dsl <- MCDsl
    Scenario <- MCScenario
    Window = 2
    MaxLag = 1
    MaxRetries = 1
    PageSize = 1
    Prefix <- MCPrefix
    FrameSchema <- MCFrameSchema
INVARIANTS
    TypeOK
    StoredOnce
    OneVersion
    OwnSchemaServed
    ListsAll
    ReadsAsMeant
PROPERTIES
    AllAnswered
CHECK_DEADLOCK FALSE
