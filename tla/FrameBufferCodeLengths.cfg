SPECIFICATION ErrorFrameFirst
CONSTANTS
    FrameTable <- CodeFrameTable
    HEATPUMP_MAX_FRAME_LENGTH = 70
    Byte <- CodeByte
    XorChecksum <- MCXorChecksum
    Crc16 <- MCCrc16
INVARIANTS
    AwaitedHeaderNeverDropped
