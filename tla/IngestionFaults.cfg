SPECIFICATION Spec
CONSTANTS
    NoDoc = NoDoc
    Docs = {good, bad}
    Corrupt = {bad}
    Workers = {w1, w2}
    Clis = {c1}
    MaxRetries = 1
    Faults = {"host_crash", "late_crash", "child_killed", "redelivery", "broker_restart", "ambiguous_publish", "retry_refused", "mark_error", "api_crash"}
    MaxFaults = 2
SYMMETRY WorkerSymmetry
INVARIANTS
    TypeOK
    ChunksMatchRow
PROPERTIES
    SearchableStays
    LossesAreNamed
