SPECIFICATION MCSpec
CONSTANTS
    ada = ada
    ben = ben
    None = None
    Ws = ws
    SchemaIds = {1, 2, 3}
    EntityIds = {1, 2}
    RelationIds = {1}
    JobIds = {1, 2, 3}
    Callers = {ada, ben}
    MaxRevision = 3
    MaxEntities = 2
    MaxAttempt = 3
    Backend = "postgres"
    Guesses <- MCGuesses
    Scope <- MCScope
    Names = {"note"}
    Defs <- MCDefs
    Datas <- MCDatas
    Budgets <- Scenarios
SYMMETRY Twins
INVARIANTS
    OneInferenceRuns
    ConfirmedIsSaved
CHECK_DEADLOCK FALSE
