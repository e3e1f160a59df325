SPECIFICATION Spec
CONSTANTS
    Clients = {"c1", "c2", "c3"}
    Shapes <- MCShapes
    Key <- MCKey
    Rpm = 1
    Window = 1
    MaxTime = 2
    MaxWaiting = 1
    MaxN = 2
    MaxSeqLength = 4
    Arrivals <- MCArrivals
    Modes = {"cli", "serve"}
INVARIANTS
    AdmissionBounded
    
PROPERTIES
    HealthIsHonest
    NobodyWaitsForever
CHECK_DEADLOCK FALSE
