SPECIFICATION FairSpec
CONSTANTS
    NoDoc = NoDoc
    Docs = {good}
    Corrupt = {}
    Workers = {w1, w2}
    Clis = {}
    MaxRetries = 2
    Faults = {"host_crash", "redelivery", "ambiguous_publish"}
    MaxFaults = 2
INVARIANT
    NoOrphan
PROPERTIES
    EventuallySettled
    KeepsLooseLifecycle
