SPECIFICATION Spec
INVARIANT CompletedIsWhole
CONSTRAINT Orderly
SYMMETRY Symmetry
CHECK_DEADLOCK FALSE
CONSTANTS
    a1 = a1
    a2 = a2
    b = b
    family = family
    single = single
    Items <- Two
    Parents <- MCParents
    ParentOf <- MCParentOf
    Workers = {w1, w2, w3}
    Clients = {c1}
    MaxJobs = 2
    PageSize = 1
    BatchSize = 1
    MaxRetries = 1
    FaultKinds = {}
    MaxFaults = 0
    MaxChanges = 1
    MaxNotices = 0
    w1 = w1
    w2 = w2
    w3 = w3
    c1 = c1
