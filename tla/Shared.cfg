SPECIFICATION SharedSpec
CONSTANTS
    WgThread = {t1, t2, t3}
    MaxCount = 2
    Delta <- Deltas
    WgFault = {"lock", "wait", "signal", "spurious"}
    AtomicThread = {a1, a2}
    Half = 2
CHECK_DEADLOCK FALSE
INVARIANTS
    CountIsBalance
    NoSleeperMissesZero
    OrdersExact
PROPERTIES
    RefinesRegister
    ZeroReleases
