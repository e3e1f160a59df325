SPECIFICATION KVSpec
CONSTANTS
    Seqs = {s1, s2}
    NumBlocks = 3
    BlockSize = 2
    Data = {zero, kv}
    Zero = zero
    None = none
    MaxTokens = 4
INVARIANT
    BlockOwnership
PROPERTY
    ImplementsStore
