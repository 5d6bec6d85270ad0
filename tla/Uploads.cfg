SPECIFICATION Spec
CHECK_DEADLOCK FALSE
CONSTANTS
    r1 = r1
    r2 = r2
    t1 = t1
    small = small
    large = large
    wide = wide
    bad = bad
    Contents = {small, large, wide, bad}
    Size <- Sizes
    Refused = {bad}
    Requests = {r1, r2}
    TenantOf <- Pair
    Limit = 2
    MaxBatch = 2
INVARIANTS
    OverrunBounded
    ResultsMatchRows
