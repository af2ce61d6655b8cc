SPECIFICATION FairSpec
CONSTANTS
    q1 = q1
    w1 = w1
    w2 = w2
    Requests = {q1}
    Workers = {w1, w2}
    Permits = 1
    MaxCopies = 2
    MayRetire = TRUE
    None = None
PROPERTIES
    KeepsPromise
    SearchReturns
CHECK_DEADLOCK FALSE
