SPECIFICATION Spec
CONSTANTS
    Capacity = 2
    NULL = NULL
    Sender = {s1, s2}
    Receiver = Receiver
    Message = {m1, m2, m3}
    Fault = {"lock", "wait", "signal", "spurious"}
SYMMETRY ChannelSymmetry
INVARIANTS
    MessagesOwnedOnce
    HandlesAccounted
PROPERTY RefinesFifo
