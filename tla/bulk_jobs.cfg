SPECIFICATION FairSpec
INVARIANT CompletedIsSettled
INVARIANT SuccessIsSent
INVARIANT OneHolder
PROPERTY JobSettles
CHECK_DEADLOCK FALSE
CONSTANTS
    N = 2
    Workers = {w1, w2}
    Kinds = {"stock", "promotion"}
    MaxAttempts = 2
    MaxRetries = 1
    MaxTakeovers = 1
    MaxFaults = 1
    w1 = w1
    w2 = w2
