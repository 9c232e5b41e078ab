SPECIFICATION Spec
CONSTANTS
    FrameTable <- CodeFrameTable
    Payload <- MCPayload
    NoFrame = NoFrame
    Channels = {"HMI", "MAIN"}
    Lines <- MCLines
    UINT8_MAX = 2
    MaxRequestId = 2
    MaxGiveUps = 0
    MaxReboots = 0
PROPERTIES
    RequestReachesController
    AvailableErrorReachesHmi
