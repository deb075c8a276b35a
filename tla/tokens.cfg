SPECIFICATION FairSpec
INVARIANT PairIsKept
INVARIANT TokenOfSeller
PROPERTY OwnSaveIsRecognised
PROPERTY WaitersAreAnswered
CHECK_DEADLOCK FALSE
CONSTANTS
    r1 = r1
    r2 = r2
    r3 = r3
    here = here
    there = there
    Requests = {r1, r2, r3}
    Processes = {here, there}
    ProcessOf <- MCProcessOf
    Sellers = {"sA", "sB"}
    MaxPairs = 3
    MaxChanges = 1
    MaxFaults = 1
    SaveTries = 2
    LookupTries = 2
