SPECIFICATION FairSpec
CONSTANTS
    Capacity = 3
    NULL = NULL
    Sender = {s1, s2}
    Receiver = Receiver
    p1 = p1
    p2 = p2
    p3 = p3
    Payload = {p1, p2}
    Length <- MixedLength
    MaxMessageBytes = 2
    MaxQueuedBytes = 3
    Fault = {}
PROPERTY FittingSendReturns
