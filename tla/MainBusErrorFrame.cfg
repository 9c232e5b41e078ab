SPECIFICATION Spec
CONSTANTS
    FrameTable <- CodeFrameTable
    HEATPUMP_MAX_FRAME_LENGTH = 70
    Byte <- MCByte
    XorChecksum <- MCXorChecksum
    Crc16 <- MCCrc16
    Buses <- MCBuses
    Where194 <- InErrorFrame
    Noise = {}
    FirstBytes <- FromTheStart
    MaxFaults = 0
    MaxErrors = 2
    MaxMissed = 5
PROPERTIES
    NeverTalksOver
