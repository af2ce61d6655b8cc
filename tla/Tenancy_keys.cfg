SPECIFICATION MCSpec
SYMMETRY Symmetry
CONSTANTS
    ada = ada
    ben = ben
    cyd = cyd
    r1 = r1
    r2 = r2
    c1 = c1
    c2 = c2
    h1 = h1
    h2 = h2
    p1 = p1
    p2 = p2
    g1 = g1
    g2 = g2
    a1 = a1
    a2 = a2
    Tenants = {1, 2, 3}
    Users = {1, 2, 3, 4}
    Workspaces = {1, 2, 3}
    Keys = {1, 2, 3, 4, 5}
    Invites = {1}
    Jobs = {1}
    Requests = {r1, r2}
    Email <- EmailOf
    Sqlite = FALSE
    MaxTenants = 2
    PlanWorkspaces = 2
    Expiries = {1}
    None = None
    Gone = Gone
    Budgets <- Scenarios
    RolesGiven = {"owner", "member"}
    ScopesGiven = {2, 4}
    CapsGiven = {1}
    Events <- MCEvents
    Hooks = {h1, h2}
    Replicas = {p1, p2}
    MinInterval = 2
    Intervals = {1, 2, 3}
    Guards = {g1, g2}
    Sustain = 2
    AutoReason = AutoReason
    Reasons = {"planned"}
    Clients = {a1, a2}
    Costs = {0, 1, 4}
    MaxRequests = 2
    Window = 2
    GcThreshold = 1
    MaxU32 = 5
    Chores <- MCChores
INVARIANTS
    AccessFollowsMembership
    DelegationNeverWidens
    ReindexesSpaced
    WindowBudget
PROPERTIES
    NeverStranded
    AuthorityIsCurrent
    PlanIsNewest
    DispatchesActive
    OperatorPrevails
    SwitchesAreSustained
CHECK_DEADLOCK FALSE
