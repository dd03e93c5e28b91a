SPECIFICATION FairSpec
CONSTANTS
    Capacity = 1
    NULL = NULL
    Sender = {s1, s2}
    Receiver = Receiver
    Message = {m1, m2, m3}
    Fault = {}
PROPERTY CallsUnblock
