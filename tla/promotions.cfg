SPECIFICATION Spec
INVARIANT RefusedIsUntouched
INVARIANT WritesAreNotRepeated
INVARIANT LeavesOneStarted
PROPERTY SuccessWasShown
CHECK_DEADLOCK FALSE
CONSTANTS
    Items = {i1, i2}
    Promos = {p, q}
    Requests = {r1, r2}
    ItemsOf <- MCItemsOf
    Prices = {1, 2}
    Unpriced = {q}
    Campaigns = {p}
    Flexible = {p}
    Others = {}
    Asks <- MCAsks
    Starts <- MCStarts
    MaxTrouble = 1
    i1 = i1
    i2 = i2
    r1 = r1
    r2 = r2
    p = p
    q = q
