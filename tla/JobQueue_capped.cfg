SPECIFICATION Spec
CONSTANTS
    j1 = j1
    j2 = j2
    w1 = w1
    w2 = w2
    w3 = w3
    r1 = r1
    r2 = r2
    c1 = c1
    c2 = c2
    c3 = c3
    k1 = k1
    Jobs = {j1, j2}
    Embedding = {}
    Capped = {j1, j2}
    Keys = {k1}
    KeyOf <- SharedKey
    LimitOf <- LimitOne
    Retiring = {j1}
    Workers = {w1, w2}
    Relays = {r1}
    Copies = {c1, c2, c3}
    None = None
    Faults <- BaseFaults
    MaxFaults = 3
SYMMETRY Symmetry
INVARIANTS
    RunningHasLease
    CapacityRespected
    WaitingHasCarrier
    RunIsRecoverable
PROPERTIES
    TerminalIsFinal
CHECK_DEADLOCK FALSE
