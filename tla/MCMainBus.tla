------------------------------ MODULE MCMainBus ------------------------------
(* ControllerTask on a bus with the frame lengths of the code.              *)
EXTENDS MainBus, Bitwise, SequencesExt

MCByte == 0 .. 255

\* A function, not an operator: TLC then evaluates the arguments once.
MCXorChecksum(payload) ==
    FoldLeft(LAMBDA a, b : [x, y \in MCByte |-> x ^^ y][a, b], 0, payload)

\* Stands for the CCITT CRC of the FastCRC library; any function will do.
MCCrc16(payload) ==
    LET sum == FoldLeft(LAMBDA a, b : a + b, 1, payload)
    IN <<(3 * sum) % 256, sum % 256>>

\* Data bytes other than 0: where(id) is the set of places of a frame's payload
\* that hold the byte 194.
CONSTANT Where194(_)

LengthOf(protocol, id) == (CHOOSE f \in FrameTable[protocol] : f[1] = id)[2]

FrameOf(protocol, crc, id) ==
    LET length  == LengthOf(protocol, id)
        payload == [i \in 1 .. length |-> IF i = 1 THEN length
                                       ELSE IF i \in Where194(id) THEN 194 ELSE 0]
    IN <<id>> \o payload
         \o (IF crc THEN MCCrc16(payload) ELSE <<MCXorChecksum(payload)>>)

CycleOf(protocol, crc, ids) ==
    << <<HMI_MESSAGE_IDENTIFIER>> >>
    \o [i \in DOMAIN ids |-> FrameOf(protocol, crc, ids[i])]

Bus(protocol, crc, plain, error) ==
    [version |-> protocol, checksum |-> IF crc THEN "CRC16" ELSE "XOR",
     plain |-> CycleOf(protocol, crc, plain), error |-> CycleOf(protocol, crc, error)]

\* The frames of a cycle in the order of task/MITM.md.
LegacyBus(protocol, crc) == Bus(protocol, crc, <<67, 193>>, <<67, 193, 74>>)

OdysseeBus == Bus("ODYSSEE", FALSE, <<67, 217, 193>>, <<74, 67, 217, 193>>)

MCBuses == { LegacyBus("LEGACY", FALSE), LegacyBus("LEGACY", TRUE),
             LegacyBus("NEXT", FALSE), OdysseeBus }

FromTheStart == { <<1, 1>> }

\* The theorems on sync hold for the buses without such an error frame.
ASSUME MCQuiet == Where194(ERROR_MESSAGE_IDENTIFIER) = {} => QuietBuses

\* The theorem on finding the frames again holds for the buses without a byte 194.
ASSUME MCClear == (\A id \in FrameIds : Where194(id) = {}) => ClearBuses /\ LongCycles

AnyByte == (1 .. 5) \X (1 .. 75)

Nowhere(id) == {}

InFrames67And193(id) == IF id \in {67, 193} THEN {5, 9} ELSE {}

InErrorFrame(id) == IF id = 74 THEN {20} ELSE {}

=============================================================================
