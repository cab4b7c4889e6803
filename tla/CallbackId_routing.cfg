SPECIFICATION DeliverySpec
CHECK_DEADLOCK FALSE
CONSTANTS
    SampleBytes = {0, 1, 200}
    SampleTexts <- MCSampleTexts
    Other = Other
    Absent = Absent
    Chunk = {1, 2, 3}
    Slash = Slash
    Requests <- MCRequests
INVARIANTS
    OwnCallbackAccepted
    ClearedFromLastZero
    AcceptedTextIsCanonical
    CompleteIsSigned
    SignedIsDelivered
    NotMisattributed
