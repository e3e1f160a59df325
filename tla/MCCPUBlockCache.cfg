SPECIFICATION Spec
CONSTANTS
    Keys = {k1, k2, k3, k4}
    NumBlocks = 3
    Capacities = {2, 3}
SYMMETRY Symmetry
INVARIANTS
    BlocksAccounted
    PolicyWithinCapacity
CHECK_DEADLOCK FALSE
