SPECIFICATION LocksSpec
CONSTANTS
    Thread = {t1, t2}
    NoThread = NoThread
    Fault = {"lock", "wait", "signal", "spurious"}
    RwThread = {r1, r2, r3}
    RwFault = {"lock", "unlock"}
CHECK_DEADLOCK FALSE
INVARIANTS
    OwnerCheckExact
    HeldWhileCritical
    GuardsAccounted
    CallbacksExclude
PROPERTY WokenReacquires
