SPECIFICATION AnySpec
CHECK_DEADLOCK FALSE
CONSTANTS
    Requests = {l1, l2, l3}
    Window = 3
    Slack = 1
    Limit = 1
    MaxDelay = 1
    MaxTime = 6
    Faults = {"refused", "lost", "crash"}
    MaxFaults = 1
    Fetches = {r1, p1}
    Posts = {p1}
    TTL = 4
    Margin = 2
    MaxLatency = 1
    FetchTime = 4
    MaxRotations = 1
    FetchFaults = {"network", "throttle"}
    Docs = {d1}
    Relapses = TRUE
    Streams = {s1, s2}
    MaxPolls = 3
SYMMETRY CheckSymmetry
INVARIANTS
    WindowLimit
    NoImmortalBucket
    NeverExpiresInUse
    RefreshHeals
    AtMostOnce
    StreamIsTrue
