SPECIFICATION Spec
PROPERTY KeepsListed
SYMMETRY Symmetry
CHECK_DEADLOCK FALSE
CONSTANTS
    a1 = a1
    a2 = a2
    b = b
    family = family
    single = single
    Items <- Two
    Parents <- MCParents
    ParentOf <- MCParentOf
    Workers = {w1, w2}
    Clients = {c1}
    MaxJobs = 1
    PageSize = 1
    BatchSize = 1
    MaxRetries = 1
    FaultKinds = {"error"}
    MaxFaults = 1
    MaxChanges = 1
    MaxNotices = 0
    w1 = w1
    w2 = w2
    c1 = c1
