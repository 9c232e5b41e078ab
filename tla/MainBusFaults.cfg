SPECIFICATION Spec
CONSTANTS
    FrameTable <- CodeFrameTable
    HEATPUMP_MAX_FRAME_LENGTH = 70
    Byte <- MCByte
    XorChecksum <- MCXorChecksum
    Crc16 <- MCCrc16
    Buses <- MCBuses
    Where194 <- InFrames67And193
    Noise = {0, 194}
    FirstBytes <- FromTheStart
    MaxFaults = 1
    MaxErrors = 2
    MaxMissed = 6
INVARIANTS
    TypeOK
    RecoversInTime
PROPERTIES
    StaysInSync
    NeverTalksOver
