SPECIFICATION Spec
CONSTANTS
    Capacity = 2
    NULL = NULL
    Sender = {s1, s2}
    Receiver = Receiver
    p1 = p1
    p2 = p2
    p3 = p3
    Payload = {p1, p2, p3}
    Length <- MixedLength
    MaxMessageBytes = 2
    MaxQueuedBytes = 3
    Fault = {"lock", "wait", "signal", "spurious"}
SYMMETRY SenderSymmetry
INVARIANTS
    RingIntegrity
    BytesAccounted
    CopiesAccounted
    HandlesAccounted
PROPERTY RefinesFifo
