SPECIFICATION AnySpec
CHECK_DEADLOCK FALSE
CONSTANTS
    Target = 5
    Overlap = 3
    MaxWords = 12
    Levels = {1, 2, 3}
    Fences <- SomeFences
    MaxLines = 5
    Ids = {1, 2, 3, 4}
    K = 3
    RrfK = 2
    TopN = 2
    MaxScore = 1
    Models = {m1, m2}
    MaxCost = 2
    MaxRows = 3
    Window = 1
    MaxDays = 2
    TagLevels = {1, 2}
    MaxElements = 4
    MaxParts = 3
    MaxSentences = 2
    MaxPassages = 2
    MaxMarkers = 2
    Runs = {r1, r2}
    Files = {f1, f2}
    Questions = 2
    MaxSizes = 2
    Shown = 5
INVARIANTS
    ChunkFits
    NothingLost
    Progress
    SentencesKept
    PathsAreEnclosing
    TextIsKept
    CitedIsUsed
    LocationIsTrue
    FusionIsFair
    BestAreReturned
    NoPartialTotal
    ScoresMeanSomething
