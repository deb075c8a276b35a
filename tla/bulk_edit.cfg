SPECIFICATION FairSpec
INVARIANT CompletedIsSettled
INVARIANT SuccessIsApplied
INVARIANT AttemptsAreBounded
PROPERTY VerdictStands
PROPERTY JobSettles
CHECK_DEADLOCK FALSE
CONSTANTS
    Items = {i1, i2}
    Workers = {w1, w2}
    Batch = 1
    MaxAttempts = 2
    MaxTokens = 2
    MaxSlow = 1
    MaxFaults = 1
    i1 = i1
    i2 = i2
    w1 = w1
    w2 = w2
