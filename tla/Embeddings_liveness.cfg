SPECIFICATION FairSpec
CONSTANTS
    e1 = e1
    e2 = e2
    t1 = t1
    t2 = t2
    own = own
    other = other
    w1 = w1
    w2 = w2
    r1 = r1
    r2 = r2
    m1 = m1
    m2 = m2
    Entities = {e1}
    Texts = {t1, t2}
    NoText = NoText
    Absent = Absent
    Providers = {own, other}
    ModelOf <- TwoModels
    Deployments = {own}
    Disabled = Disabled
    TenantModel = None
    None = None
    SessionLock = TRUE
    Syncers = {w1}
    Reindexers = {r1, r2}
    Budgets <- LivenessSteps
PROPERTY Converges
CHECK_DEADLOCK FALSE
