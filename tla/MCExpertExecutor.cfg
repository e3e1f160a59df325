SPECIFICATION Spec
CONSTANTS
    NumLayers = 2
    Experts = {1, 2}
    Capacity = 1
    Blocks <- MCBlocks
    Selections <- MCSelections
INVARIANTS
    
    GpuAccounted
PROPERTY
    PrefillCompletes
CHECK_DEADLOCK FALSE
