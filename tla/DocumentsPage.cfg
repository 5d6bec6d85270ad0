SPECIFICATION FairSpec
CHECK_DEADLOCK FALSE
CONSTANTS
    NoDoc = NoDoc
    Docs = {d1}
    MaxLoads = 3
INVARIANT
    PollsWhilePending
PROPERTY
    CatchesUp
