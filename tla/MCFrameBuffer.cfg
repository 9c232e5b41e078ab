SPECIFICATION FBSpec
CONSTANTS
    FrameTable <- MCFrameTable
    HEATPUMP_MAX_FRAME_LENGTH = 6
    Byte <- MCByte
    XorChecksum <- MCXorChecksum
    Crc16 <- MCCrc16
INVARIANTS
    FBTypeOK
    LocksAgree
    NoUnderrun
    LockedHeaderNeverDropped
PROPERTIES
    LocksArePermanent
