SPECIFICATION EngineSpec
CONSTANTS
    Requests <- MCRequests
    Seqs <- MCSeqs
    SeqsOf <- MCSeqsOf
    Data = {zero}
    Zero = zero
    None = none
    MaxTokens = 9
    Settings <- ContentionSettings
    NumBlocks = 3
    BlockSize = 2
    MaxBatch = 3
    MaxStepTokens = 8
INVARIANTS
    QueuesMatchStatuses
    NoBlockLost
    BatchIsRunnable
    EndsAreReported
PROPERTIES
    TransitionsAllowed
    KeepsCacheProtocol
