SPECIFICATION Spec
CONSTANTS
    FrameTable <- CodeFrameTable
    Payload <- MCPayload
    NoFrame = NoFrame
    Channels = {"HMI", "MAIN"}
    Lines <- MCLines
    UINT8_MAX = 3
    MaxRequestId = 3
    MaxGiveUps = 1
    MaxReboots = 1
INVARIANTS
    TypeOK
    CopiesKnowChecksum
PROPERTIES
    CycleOrder
    ErrorIsTheRequestedOne
    ErrorOnlyOnce
