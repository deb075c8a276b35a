SPECIFICATION FairSpec
CONSTANTS
    Keys = {k1, k2}
    Workers = {w1, w2}
    NoKey = NoKey
    NoWorker = NoWorker
    Situations = {"failed", "foreign"}
    ResumeModes = {"CONTINUE"}
    ErrorKinds = {"auth", "temporary"}
    FaultKinds = {"crash", "error", "late", "redeliver", "unsent"}
    TestLimits = {0, 1}
    RetryBudget = 2
    ReconcileBudget = 2
    SlowWorkers = FALSE
    MaxResumes = 1
    MaxFaults = 2
CHECK_DEADLOCK FALSE
INVARIANTS
    PostedNeverRejected
    NothingSkipped
    ProgressIsTrue
PROPERTIES
    CompletedIsFinal
    ResumeRevokesCreation
    ExecutionSettles
