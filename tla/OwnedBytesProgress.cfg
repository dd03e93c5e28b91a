SPECIFICATION WorkloadSpec
CONSTANTS
    Capacity = 2
    NULL = NULL
    Sender = {s1, s2}
    Receiver = Receiver
    p1 = p1
    p2 = p2
    Payload = {p1, p2}
    Length <- MixedLength
    MaxMessageBytes = 2
    MaxQueuedBytes = 3
    Fault = {}
INVARIANT NoSleeperMissesEvent
PROPERTIES
    OneLengthSendReturns
    CloseUnblocks
    ReturnsOrOvertaken
