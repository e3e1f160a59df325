SPECIFICATION NativeSpec
CONSTANTS
    Requests = {r1, r2, r3}
    Prompt <- MCPrompt
    NumGpu = 3
    NumCpu = 2
    BlockSize = 2
    MaxSeqs = 2
    MaxTokens = 5
    Other = other
    UseCP = TRUE
    GenPrompts = {3}
    GenLimits = {0, 3}
    MaxSeqLength = 3
    MaxCalls = 1
INVARIANTS
    
    CachedBlocksAreTheirs
    TokensKeepTheirSlots

    
