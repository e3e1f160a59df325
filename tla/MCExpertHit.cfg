SPECIFICATION Spec
CONSTANTS
    NumLayers = 1
    Experts = {1, 2}
    Capacity = 1
    Blocks <- MCBlocks
    Selections <- MCSelections
INVARIANT
    HitIsOnGpu
CHECK_DEADLOCK FALSE
