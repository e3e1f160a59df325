SPECIFICATION Spec
CONSTANTS
    Setups <- MCSetups
    NumLayers = 2
    Memory <- MCMemory
INVARIANTS
    KernelReadsItsExpert
    LayerIsExact
    RanksLoadAlike
PROPERTY
    LayersComplete
CHECK_DEADLOCK FALSE
