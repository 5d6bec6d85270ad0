SPECIFICATION FairSpec
CHECK_DEADLOCK FALSE
CONSTANTS
    Questions = {q1}
    Calls = {c1}
    MaxDeltas = 4
    Faults = {"llm", "database", "network", "leave"}
INVARIANTS
    DoneIsMetered
    WholeAnswer
PROPERTY
    NeverStuck
