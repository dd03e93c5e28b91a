SPECIFICATION Spec
CONSTANTS
    Capacity = 2
    NULL = NULL
    Client = {c1, c2}
    Worker = {w1, w2}
    k1 = k1
    k2 = k2
    k3 = k3
    Task = {k1, k2, k3}
    Capturing = {k1}
    Fault = {"lock", "wait", "signal", "spurious", "create"}
SYMMETRY PoolSymmetry
INVARIANTS
    TasksAccounted
    ReferencesAccounted
    NoTaskOverlooked
    NoSleeperMissesClose
PROPERTY ImplementsExecutor
