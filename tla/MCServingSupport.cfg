SPECIFICATION Spec
CONSTANTS
    Callers = {c1, c2, c3}
    WindowSize = 3
    LatencyWindow = 2
    ErrorPercent = 40
    Cooldown = 1
    MaxFailures = 4
    Prompts <- MCPrompts
    BlockSize = 2
    MaxEntries = 3
    Modulus = 4
    MaxInserts = 3
    SeqIds = {s1, s2, s3}
    MaxCrashes = 2
    Reports <- MCReports
    HasMiddleware = {TRUE, FALSE}
    Chats <- MCChats
    Texts = {"a", "b"}
    Tokens <- MCTokens
    MaxRequests = 2
    KVRequests = {r1, r2, r3}
    Hashes = {1, 2, 3}
    Scores <- MCScores
    NumTokens = 5
    Ids = {i1, i2}
    Priorities = {0, 10}
    MaxJobs = 3
INVARIANTS
    FoundHoldsThePrompt
    SavedIsDurable
    
    
    StreamIsSound
    WaitersToldTrue
PROPERTIES
    BreakerRecovers
    EndIsToldOnce
    ResponseEnds
    EveryJobSignalled
CHECK_DEADLOCK FALSE
