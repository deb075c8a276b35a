SPECIFICATION Spec
CONSTANTS
    Keys = {k1}
    Workers = {w1, w2}
    NoKey = NoKey
    NoWorker = NoWorker
    Situations = {"fresh", "foreign", "linked", "pending", "unconfirmed", "released"}
    ResumeModes = {"CONTINUE", "SINGLE_ITEM"}
    ErrorKinds = {"definitive", "auth", "temporary", "conflict"}
    FaultKinds = {"crash", "error", "lost", "late", "redeliver", "unsent", "page"}
    TestLimits = {0}
    RetryBudget = 2
    ReconcileBudget = 2
    SlowWorkers = TRUE
    MaxResumes = 1
    MaxFaults = 2
SYMMETRY Symmetry
CHECK_DEADLOCK FALSE
INVARIANTS
    AtMostOnePost
    PostedKeepsReservation
    ForeignNeverPosted
    ApprovedIsPublished
PROPERTIES
    VerdictIsFinal
    PublishesOnce
