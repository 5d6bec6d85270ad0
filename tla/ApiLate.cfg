SPECIFICATION Spec
CHECK_DEADLOCK FALSE
CONSTANTS
    NoOne = NoOne
    Searches = {s1}
    Answers = {a1}
    Watches = {}
    Probes = {p1}
    Models = {"embedder"}
    Capacity = 2
    MaxPolls = 1
    Closings = {"early", "late"}
INVARIANT
    StreamsHoldNothing
