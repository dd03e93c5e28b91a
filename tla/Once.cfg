SPECIFICATION OnceFairSpec
CONSTANTS
    OnceThread = {t1, t2, t3}
    OnceFault = {"lock", "wait", "signal", "spurious"}
CHECK_DEADLOCK FALSE
INVARIANTS
    OutcomesTrue
    SleepersHaveRunner
PROPERTY CallersReturn
