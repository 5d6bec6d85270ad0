SPECIFICATION FairSpec
CONSTANTS
    NoDoc = NoDoc
    Docs = {good, bad}
    Corrupt = {bad}
    Workers = {w1, w2}
    Clis = {}
    MaxRetries = 2
    Faults = {}
    MaxFaults = 0
INVARIANTS
    OneAttempt
    ErrorExactlyWhenFailed
PROPERTY
    KeepsStrictLifecycle
