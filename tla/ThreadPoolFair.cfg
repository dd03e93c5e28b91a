SPECIFICATION FairSpec
CONSTANTS
    Capacity = 1
    NULL = NULL
    Client = {c1, c2}
    Worker = {w1}
    k1 = k1
    k2 = k2
    k3 = k3
    Task = {k1, k2, k3}
    Capturing = {k1}
    Fault = {}
PROPERTIES
    ImplementsFairExecutor
    CallsReturn
    AbandonedPoolIsFreed
