SPECIFICATION Spec
CONSTANTS
    NoDoc = NoDoc
    Docs = {good, bad}
    Corrupt = {bad}
    Workers = {w1, w2}
    Clis = {}
    MaxRetries = 1
    Faults = {"host_crash"}
    MaxFaults = 1
PROPERTY
    TerminalIsFinal
