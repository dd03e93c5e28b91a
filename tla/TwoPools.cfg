SPECIFICATION FairSpec
CONSTANTS
    Capacity = 1
    NULL = NULL
    main = main
    left = left
    right = right
    LeftTask = {l1, l2}
    RightTask = {r1, r2, r3}
CHECK_DEADLOCK FALSE
PROPERTY CrossCallsReturn
