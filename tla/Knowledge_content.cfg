SPECIFICATION MCSpec
CONSTANTS
    ada = ada
    ben = ben
    None = None
    Ws = ws
    SchemaIds = {1, 2, 3, 4}
    EntityIds = {1, 2, 3}
    RelationIds = {1, 2}
    JobIds = {1, 2, 3}
    Callers = {ada, ben}
    MaxRevision = 3
    MaxEntities = 2
    MaxRelations = 2
    MaxDepth = 2
    Scope <- MCScope
    Names = {"note", "log"}
    Defs <- MCDefs
    Datas <- MCDatas
    Files <- MCFiles
    Limits = {1, 2}
    Budgets <- Scenarios
INVARIANTS
    QuotaRespected
    OneActiveVersion
    ReferencedVersionsStay
    
    SnapshotOnce
    
    RecallFinds
    ExportRoundTrips
PROPERTIES
    NoLostEdit
CHECK_DEADLOCK FALSE
