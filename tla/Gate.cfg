SPECIFICATION GateSpec
CHECK_DEADLOCK FALSE
CONSTANTS
    Credentials = {c1, c2}
    Exchanges = {e1, e2}
    Requests = {q1, q2}
    TTL = 2
    MaxTime = 3
    Window = 3
    Slack = 1
    Limit = 1
    MaxDelay = 1
    Faults = {"refused", "lost", "crash"}
    MaxFaults = 1
SYMMETRY RequestSymmetry
INVARIANTS
    RevocationIsImmediate
    QuotaIsTheTenants
