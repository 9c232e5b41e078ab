----------------------------- MODULE FrameBuffer -----------------------------
(***************************************************************************)
(* buffer/FrameBuffer.cpp: the byte-wise frame parser each serial task     *)
(* owns.  A ring of received bytes, and two locks, the protocol version    *)
(* and the checksum kind, learnt from the first frame whose checksum is    *)
(* good and used from then on to find frames and to size their tails.      *)
(*                                                                         *)
(* The checksum functions are parameters: what is proved here holds for    *)
(* every pair of them.  Counters and the debug copies are left out, they   *)
(* are only reported.                                                      *)
(*                                                                         *)
(* Here and in the other modules, Mutant... is a wrong variant of the      *)
(* definition that follows it, of the kind a slip in the code would give:  *)
(* the mutation runs put it in that definition's place.                    *)
(***************************************************************************)
EXTENDS MessageConstants, Sequences

CONSTANTS
    HEATPUMP_MAX_FRAME_LENGTH,  \* capacity of the ring
    Byte,                       \* the byte values the line can carry
    XorChecksum(_),             \* one byte checksum of a payload
    Crc16(_)                    \* <<high byte, low byte>> of a payload's CRC

\* A frame that is awaited once the checksum kind is locked fits the ring.
ASSUME FrameBufferAssumption ==
    /\ Byte \subseteq 0 .. 255
    /\ HEATPUMP_MAX_FRAME_LENGTH \in Nat \ {0}
    /\ \A p \in Protocols : \A f \in FrameTable[p] :
          f[2] + (IF p \in XorOnlyProtocols THEN 2 ELSE 3) <= HEATPUMP_MAX_FRAME_LENGTH

VARIABLES
    mBuffer,          \* the ring, oldest byte first
    mLockedProtocol,
    mLockedChecksum,
    returned          \* what the last pushByte returned: a frame id, or 0

fbVars == <<mBuffer, mLockedProtocol, mLockedChecksum, returned>>

FBInit ==
    /\ mBuffer = <<>>
    /\ mLockedProtocol = "UNKNOWN"
    /\ mLockedChecksum = "UNKNOWN"
    /\ returned = 0

-----------------------------------------------------------------------------
(* The ring after a byte was pushed, the oldest byte dropped if it was full *)

MutantNeverDrop(val) == Append(mBuffer, val)

MutantDropNewest(val) ==
    IF Len(mBuffer) = HEATPUMP_MAX_FRAME_LENGTH THEN mBuffer ELSE Append(mBuffer, val)

AfterPush(val) ==
    Append(IF Len(mBuffer) = HEATPUMP_MAX_FRAME_LENGTH
           THEN Tail(mBuffer) ELSE mBuffer, val)

-----------------------------------------------------------------------------
(* handleFrame, on a ring b *)

SyncTable == IF mLockedProtocol = "UNKNOWN" THEN AnyFrame
                                            ELSE FrameTable[mLockedProtocol]

IsSync(b) == /\ Len(b) >= 2
             /\ <<b[1], b[2]>> \in SyncTable

MutantCrcLenOne == 1
MutantCrcLenTwo == 2

\* Checksum bytes to wait for: two as long as the kind is not known.
CrcLen == IF mLockedChecksum = "XOR" THEN 1 ELSE 2

Complete(b) == IsSync(b) /\ Len(b) >= 1 + b[2] + CrcLen

Payload(b) == SubSeq(b, 2, b[2] + 1)

Version(b) == IF mLockedProtocol # "UNKNOWN"
              THEN mLockedProtocol
              ELSE GetVersionByIdentifier(b[1], b[2])

MutantTriesXor(b) == TRUE

TriesXor(b) == \/ Version(b) \in XorOnlyProtocols
               \/ mLockedChecksum \in {"UNKNOWN", "XOR"}

MutantTriesCrc16(b) == mLockedChecksum \in {"UNKNOWN", "CRC16"}

TriesCrc16(b) == /\ Version(b) \notin XorOnlyProtocols
                 /\ mLockedChecksum \in {"UNKNOWN", "CRC16"}

XorMatches(b) == TriesXor(b) /\ b[b[2] + 2] = XorChecksum(Payload(b))

\* The second checksum byte is only taken when the first is no XOR checksum.
TakesTwo(b) == TriesCrc16(b) /\ ~XorMatches(b)

Crc16Matches(b) == TakesTwo(b) /\ <<b[b[2] + 2], b[b[2] + 3]>> = Crc16(Payload(b))

Consumed(b) == 1 + b[2] + (IF TakesTwo(b) THEN 2 ELSE 1)

Rest(b) == SubSeq(b, Consumed(b) + 1, Len(b))

\* No frame yet: not in sync, or not all of it is here.
Await(b) ==
    /\ ~Complete(b)
    /\ mBuffer' = b
    /\ returned' = 0
    /\ UNCHANGED <<mLockedProtocol, mLockedChecksum>>

\* The checksum is good: the frame goes on, protocol and checksum are locked.
Accept(b) ==
    /\ Complete(b)
    /\ XorMatches(b) \/ Crc16Matches(b)
    /\ mBuffer' = Rest(b)
    /\ returned' = b[1]
    /\ mLockedProtocol' = Version(b)
    /\ mLockedChecksum' = IF XorMatches(b) THEN "XOR" ELSE "CRC16"

\* The checksum is wrong: the bytes of the frame are gone.
Reject(b) ==
    /\ Complete(b)
    /\ ~XorMatches(b) /\ ~Crc16Matches(b)
    /\ mBuffer' = Rest(b)
    /\ returned' = 0
    /\ UNCHANGED <<mLockedProtocol, mLockedChecksum>>

PushByte(val) ==
    LET b == AfterPush(val) IN Await(b) \/ Accept(b) \/ Reject(b)

FBNext == \E val \in Byte : PushByte(val)

FBSpec == FBInit /\ [][FBNext]_fbVars

-----------------------------------------------------------------------------
(* Properties *)

\* Types of the parser's state; the ring never outgrows its capacity.
FBTypeOK ==
    /\ mBuffer \in Seq(Byte)
    /\ Len(mBuffer) <= HEATPUMP_MAX_FRAME_LENGTH
    /\ mLockedProtocol \in ProtocolVersion
    /\ mLockedChecksum \in ProtocolChecksum
    /\ returned \in FrameIds \cup {0}

\* The two locks are taken together, and a version that only knows XOR is
\* never combined with CRC16 (handleFrame sets them in different branches).
LocksAgree ==
    /\ (mLockedProtocol = "UNKNOWN") <=> (mLockedChecksum = "UNKNOWN")
    /\ mLockedProtocol \in XorOnlyProtocols => mLockedChecksum = "XOR"

\* Whatever byte comes next, handleFrame never pops more bytes than the ring
\* holds: the wait is sized by the locked checksum, the pops by the branch the
\* version leads to.
NoUnderrun ==
    \A val \in Byte :
        LET b == AfterPush(val) IN Complete(b) => Consumed(b) <= Len(b)

\* Once the locks are taken, making room never throws away the header of a
\* frame of the locked protocol: such a frame always fits and is taken whole.
LockedHeaderNeverDropped ==
    /\ mLockedProtocol # "UNKNOWN"
    /\ Len(mBuffer) = HEATPUMP_MAX_FRAME_LENGTH
    => ~IsSync(mBuffer)

\* The locks are never changed once they are taken.
LocksArePermanent ==
    [][mLockedProtocol # "UNKNOWN"
        => UNCHANGED <<mLockedProtocol, mLockedChecksum>>]_fbVars

\* The comment in handleFrame, "wait until buffer holds a complete frame":
\* making room never throws away the header of an awaited frame, locked or not.
AwaitedHeaderNeverDropped ==
    Len(mBuffer) = HEATPUMP_MAX_FRAME_LENGTH => ~IsSync(mBuffer)

=============================================================================
