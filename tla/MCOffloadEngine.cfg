SPECIFICATION Spec
CONSTANTS
    Models = {"dense", "awq", "mx", "mxd", "tied", "other"}
    Info <- MCInfo
    MaxLoads = 2
    Tensors <- MCTensors
    Leaves <- MCLeaves
    DenseRoom = 1
    MaxForwards = 2
INVARIANTS
    ReadsOwnWeights
    
    ModulesFindTheirTensors
PROPERTY
    ForwardEnds
CHECK_DEADLOCK FALSE
