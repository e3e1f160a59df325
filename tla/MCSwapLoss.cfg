SPECIFICATION EngineSpec
CONSTANTS
    Requests <- MCRequests
    Seqs <- MCSeqs
    SeqsOf <- MCSeqsOf
    Data = {zero}
    Zero = zero
    None = none
    MaxTokens = 9
    Settings <- SwapSettings
    NumBlocks = 3
    BlockSize = 2
    MaxBatch = 3
    MaxStepTokens = 8
INVARIANT
    SwappedIsRecoverable
