-------------------------- MODULE FrameBuffer_proofs --------------------------
(***************************************************************************)
(* The parser's safety properties, for every capacity, table of frame      *)
(* lengths, alphabet and pair of checksum functions that satisfy the       *)
(* assumptions of MessageConstants and FrameBuffer.                        *)
(***************************************************************************)
EXTENDS FrameBuffer, SequenceTheorems, TLAPS

\* A pair that isSync knows leads to a version, and is a frame of it: the
\* tables of isSync and of getVersionByIdentifier agree.
LEMMA VersionOfKnownFrame ==
    ASSUME NEW i, NEW l, <<i, l>> \in AnyFrame
    PROVE  /\ GetVersionByIdentifier(i, l) \in Protocols
           /\ <<i, l>> \in FrameTable[GetVersionByIdentifier(i, l)]
  <1>1. PICK p \in Protocols : <<i, l>> \in FrameTable[p]
    BY DEF AnyFrame
  <1>2. QED
    BY <1>1 DEF GetVersionByIdentifier

\* The frame at the head of a synchronised ring is a frame of the version
\* handleFrame goes on with, and has an identifier and a positive length.
LEMMA SyncedHead ==
    ASSUME mLockedProtocol \in ProtocolVersion, NEW b, IsSync(b)
    PROVE  /\ Version(b) \in Protocols
           /\ <<b[1], b[2]>> \in FrameTable[Version(b)]
           /\ b[1] \in FrameIds
           /\ b[2] \in 1 .. 255
  <1>1. /\ Version(b) \in Protocols
        /\ <<b[1], b[2]>> \in FrameTable[Version(b)]
    <2>1. CASE mLockedProtocol = "UNKNOWN"
      BY <2>1, VersionOfKnownFrame DEF IsSync, SyncTable, Version
    <2>2. CASE mLockedProtocol # "UNKNOWN"
      BY <2>2 DEF IsSync, SyncTable, Version, ProtocolVersion
    <2>3. QED
      BY <2>1, <2>2
  <1>2. FrameTable[Version(b)] \in SUBSET (FrameIds \X (1 .. 255))
    BY <1>1, FrameTableAssumption
  <1>3. <<b[1], b[2]>> \in FrameIds \X (1 .. 255)
    BY <1>1, <1>2
  <1>4. QED
    BY <1>1, <1>3

\* Pushing a byte leaves a ring of bytes within the capacity.
LEMMA AfterPushType ==
    ASSUME FBTypeOK, NEW val \in Byte
    PROVE  /\ AfterPush(val) \in Seq(Byte)
           /\ Len(AfterPush(val)) \in 1 .. HEATPUMP_MAX_FRAME_LENGTH
  <1>1. CASE Len(mBuffer) = HEATPUMP_MAX_FRAME_LENGTH
    <2>1. mBuffer # <<>>
      BY <1>1, FrameBufferAssumption, EmptySeq DEF FBTypeOK
    <2>2. /\ Tail(mBuffer) \in Seq(Byte)
          /\ Len(Tail(mBuffer)) = Len(mBuffer) - 1
      BY <2>1, HeadTailProperties DEF FBTypeOK
    <2>3. QED
      BY <1>1, <2>2, FrameBufferAssumption DEF AfterPush
  <1>2. CASE Len(mBuffer) # HEATPUMP_MAX_FRAME_LENGTH
    BY <1>2, FrameBufferAssumption DEF AfterPush, FBTypeOK
  <1>3. QED
    BY <1>1, <1>2

\* The wait is long enough for every branch: a complete frame holds all the
\* bytes its branch pops.
LEMMA EnoughBytes ==
    ASSUME FBTypeOK, NEW b \in Seq(Byte), Complete(b)
    PROVE  /\ Consumed(b) \in 2 .. Len(b)
           /\ Rest(b) \in Seq(Byte)
           /\ Len(Rest(b)) < Len(b)
  <1>1. b[2] \in 1 .. 255
    BY SyncedHead DEF Complete, FBTypeOK
  <1>2. TakesTwo(b) => CrcLen = 2
    BY DEF TakesTwo, TriesCrc16, CrcLen
  <1>3. CrcLen \in 1 .. 2
    BY DEF CrcLen
  <1>4. Consumed(b) \in 2 .. Len(b)
    <2>1. PICK n \in 1 .. 255 : n = b[2]
      BY <1>1
    <2>2. PICK c \in 1 .. 2 : c = CrcLen
      BY <1>3
    <2>3. Len(b) \in Nat /\ Len(b) >= 1 + n + c
      BY <2>1, <2>2, LenProperties DEF Complete
    <2>4. PICK t \in 1 .. 2 : Consumed(b) = 1 + n + t /\ t <= c
      <3>1. CASE TakesTwo(b)
        BY <1>2, <2>1, <2>2, <3>1 DEF Consumed
      <3>2. CASE ~TakesTwo(b)
        BY <2>1, <2>2, <3>2 DEF Consumed
      <3>3. QED
        BY <3>1, <3>2
    <2>5. QED
      BY <2>3, <2>4
  <1>5. /\ Rest(b) \in Seq(Byte)
        /\ Len(Rest(b)) = Len(b) - Consumed(b)
    BY <1>4, SubSeqProperties DEF Rest
  <1>6. QED
    BY <1>4, <1>5

-----------------------------------------------------------------------------
(* Type correctness *)

LEMMA FBInitTypeOK == FBInit => FBTypeOK
  BY EmptySeq, FrameBufferAssumption
  DEF FBInit, FBTypeOK, ProtocolVersion, ProtocolChecksum

LEMMA FBPushTypeOK ==
    ASSUME FBTypeOK, NEW val \in Byte, PushByte(val)
    PROVE  FBTypeOK'
  <1> DEFINE b == AfterPush(val)
  <1>1. /\ b \in Seq(Byte)
        /\ Len(b) <= HEATPUMP_MAX_FRAME_LENGTH
    BY AfterPushType
  <1>2. CASE Await(b)
    BY <1>1, <1>2 DEF Await, FBTypeOK
  <1>3. ASSUME Complete(b), mBuffer' = Rest(b)
        PROVE  mBuffer' \in Seq(Byte) /\ Len(mBuffer') <= HEATPUMP_MAX_FRAME_LENGTH
    <2>1. Rest(b) \in Seq(Byte) /\ Len(Rest(b)) < Len(b)
      BY <1>1, <1>3, EnoughBytes
    <2>2. QED
      BY <1>1, <1>3, <2>1, FrameBufferAssumption
  <1>4. CASE Accept(b)
    <2>1. Version(b) \in Protocols /\ b[1] \in FrameIds
      BY <1>4, SyncedHead DEF Accept, Complete, FBTypeOK
    <2>2. QED
      BY <1>3, <1>4, <2>1 DEF Accept, FBTypeOK, ProtocolVersion, ProtocolChecksum
  <1>5. CASE Reject(b)
    BY <1>3, <1>5 DEF Reject, FBTypeOK
  <1>6. QED
    BY <1>2, <1>4, <1>5 DEF PushByte

\* The ring holds bytes only and never outgrows its capacity; the locks and
\* the value pushByte returns stay in their types.
THEOREM FBTypeCorrect == FBSpec => []FBTypeOK
  <1>1. FBInit => FBTypeOK
    BY FBInitTypeOK
  <1>2. FBTypeOK /\ [FBNext]_fbVars => FBTypeOK'
    <2> SUFFICES ASSUME FBTypeOK, [FBNext]_fbVars
                 PROVE  FBTypeOK'
      OBVIOUS
    <2>1. CASE FBNext
      BY <2>1, FBPushTypeOK DEF FBNext
    <2>2. CASE UNCHANGED fbVars
      BY <2>2 DEF fbVars, FBTypeOK
    <2>3. QED
      BY <2>1, <2>2
  <1>3. QED
    BY <1>1, <1>2, PTL DEF FBSpec

-----------------------------------------------------------------------------
(* The locks *)

LEMMA FBPushLocksAgree ==
    ASSUME FBTypeOK, LocksAgree, NEW val \in Byte, PushByte(val)
    PROVE  LocksAgree'
  <1> DEFINE b == AfterPush(val)
  <1>1. CASE Await(b)
    BY <1>1 DEF Await, LocksAgree
  <1>2. CASE Reject(b)
    BY <1>2 DEF Reject, LocksAgree
  <1>3. CASE Accept(b)
    <2>1. Version(b) \in Protocols
      BY <1>3, SyncedHead DEF Accept, Complete, FBTypeOK
    <2>2. Version(b) \in XorOnlyProtocols => XorMatches(b)
      BY <1>3 DEF Accept, Crc16Matches, TakesTwo, TriesCrc16
    <2>3. QED
      BY <1>3, <2>1, <2>2 DEF Accept, LocksAgree, Protocols
  <1>4. QED
    BY <1>1, <1>2, <1>3 DEF PushByte

\* An accepted frame leaves locks that were taken as they are.
LEMMA FBPushKeepsLocks ==
    ASSUME FBTypeOK, LocksAgree, NEW val \in Byte, PushByte(val),
           mLockedProtocol # "UNKNOWN"
    PROVE  UNCHANGED <<mLockedProtocol, mLockedChecksum>>
  <1> DEFINE b == AfterPush(val)
  <1>1. CASE Accept(b)
    <2>1. Version(b) = mLockedProtocol
      BY DEF Version
    <2>2. mLockedChecksum \in {"XOR", "CRC16"}
      BY DEF LocksAgree, FBTypeOK, ProtocolChecksum
    <2>3. CASE mLockedChecksum = "XOR"
      <3>1. XorMatches(b)
        BY <1>1, <2>3 DEF Accept, Crc16Matches, TakesTwo, TriesCrc16
      <3>2. QED
        BY <1>1, <2>1, <2>3, <3>1 DEF Accept
    <2>4. CASE mLockedChecksum = "CRC16"
      <3>1. mLockedProtocol \notin XorOnlyProtocols
        BY <2>4 DEF LocksAgree
      <3>2. ~XorMatches(b)
        BY <2>1, <2>4, <3>1 DEF XorMatches, TriesXor
      <3>3. QED
        BY <1>1, <2>1, <2>4, <3>2 DEF Accept
    <2>5. QED
      BY <2>2, <2>3, <2>4
  <1>2. CASE Await(b)
    BY <1>2 DEF Await
  <1>3. CASE Reject(b)
    BY <1>3 DEF Reject
  <1>4. QED
    BY <1>1, <1>2, <1>3 DEF PushByte

-----------------------------------------------------------------------------
(* The inductive invariant: the two locks agree, and a full ring does not  *)
(* start with a header of the locked protocol.                             *)

FBInv == FBTypeOK /\ LocksAgree /\ LockedHeaderNeverDropped

\* A header of the locked protocol in a full ring would be a complete frame,
\* which handleFrame takes out in the very push that completes it.
LEMMA FBPushHeader ==
    ASSUME FBTypeOK, FBTypeOK', LocksAgree', NEW val \in Byte, PushByte(val)
    PROVE  LockedHeaderNeverDropped'
  <1> DEFINE b == AfterPush(val)
  <1>1. /\ b \in Seq(Byte)
        /\ Len(b) \in 1 .. HEATPUMP_MAX_FRAME_LENGTH
    BY AfterPushType
  <1>2. HEATPUMP_MAX_FRAME_LENGTH \in Nat
    BY FrameBufferAssumption
  <1>3. CASE Await(b)
    <2> SUFFICES ASSUME mLockedProtocol # "UNKNOWN",
                        Len(b) = HEATPUMP_MAX_FRAME_LENGTH,
                        IsSync(b)
                 PROVE  FALSE
      BY <1>3 DEF Await, LockedHeaderNeverDropped, IsSync, SyncTable
    <2>1. /\ mLockedProtocol \in Protocols
          /\ <<b[1], b[2]>> \in FrameTable[mLockedProtocol]
          /\ b[2] \in 1 .. 255
      BY SyncedHead DEF FBTypeOK, Version
    <2>2. b[2] + (IF mLockedProtocol \in XorOnlyProtocols THEN 2 ELSE 3)
            <= HEATPUMP_MAX_FRAME_LENGTH
      <3>1. <<b[1], b[2]>>[2] = b[2]
        OBVIOUS
      <3>2. QED
        BY <2>1, <3>1, FrameBufferAssumption
    <2>3. mLockedProtocol \in XorOnlyProtocols => CrcLen = 1
      BY <1>3 DEF Await, LocksAgree, CrcLen
    <2>4. CrcLen \in 1 .. 2
      BY DEF CrcLen
    <2>5. 1 + b[2] + CrcLen <= HEATPUMP_MAX_FRAME_LENGTH
      <3>1. PICK n \in 1 .. 255 : n = b[2]
        BY <2>1
      <3>2. PICK c \in 1 .. 2 : c = CrcLen
        BY <2>4
      <3>3. CASE mLockedProtocol \in XorOnlyProtocols
        <4>1. n + 2 <= HEATPUMP_MAX_FRAME_LENGTH
          BY <2>2, <3>1, <3>3
        <4>2. QED
          BY <1>2, <2>3, <3>1, <3>2, <3>3, <4>1
      <3>4. CASE mLockedProtocol \notin XorOnlyProtocols
        <4>1. n + 3 <= HEATPUMP_MAX_FRAME_LENGTH
          BY <2>2, <3>1, <3>4
        <4>2. QED
          BY <1>2, <3>1, <3>2, <4>1
      <3>5. QED
        BY <3>3, <3>4
    <2>6. Complete(b)
      BY <2>5 DEF Complete
    <2>7. QED
      BY <1>3, <2>6 DEF Await
  <1>4. CASE Accept(b) \/ Reject(b)
    <2>1. Complete(b) /\ mBuffer' = Rest(b)
      BY <1>4 DEF Accept, Reject
    <2>2. Len(mBuffer') < Len(b) /\ Rest(b) \in Seq(Byte)
      BY <1>1, <2>1, EnoughBytes
    <2>3. Len(mBuffer') # HEATPUMP_MAX_FRAME_LENGTH
      BY <1>1, <1>2, <2>1, <2>2
    <2>4. QED
      BY <2>3 DEF LockedHeaderNeverDropped
  <1>5. QED
    BY <1>3, <1>4 DEF PushByte

LEMMA FBInvInit == FBInit => FBInv
  <1> SUFFICES ASSUME FBInit PROVE FBInv
    OBVIOUS
  <1>1. FBTypeOK
    BY FBInitTypeOK
  <1>2. LocksAgree
    BY DEF FBInit, LocksAgree, XorOnlyProtocols
  <1>3. LockedHeaderNeverDropped
    BY DEF FBInit, LockedHeaderNeverDropped
  <1>4. QED
    BY <1>1, <1>2, <1>3 DEF FBInv

\* One pushByte preserves the invariant: used here and by the tasks that own
\* a FrameBuffer.
LEMMA FBInvPush ==
    ASSUME FBInv, NEW val \in Byte, PushByte(val)
    PROVE  FBInv'
  <1>1. FBTypeOK'
    BY FBPushTypeOK DEF FBInv
  <1>2. LocksAgree'
    BY FBPushLocksAgree DEF FBInv
  <1>3. LockedHeaderNeverDropped'
    BY <1>1, <1>2, FBPushHeader DEF FBInv
  <1>4. QED
    BY <1>1, <1>2, <1>3 DEF FBInv

LEMMA FBInvStutter == FBInv /\ UNCHANGED fbVars => FBInv'
  BY DEF FBInv, FBTypeOK, LocksAgree, LockedHeaderNeverDropped, IsSync, SyncTable,
         fbVars

LEMMA FBInductive == FBSpec => []FBInv
  <1>1. FBInv /\ [FBNext]_fbVars => FBInv'
    BY FBInvPush, FBInvStutter DEF FBNext
  <1>2. QED
    BY <1>1, FBInvInit, PTL DEF FBSpec

-----------------------------------------------------------------------------

\* The two locks are always taken together and fit each other.
THEOREM FBLocksAgree == FBSpec => []LocksAgree
  BY FBInductive, PTL DEF FBInv

\* Making room in a full ring never throws away a header of the locked protocol.
THEOREM FBLockedHeader == FBSpec => []LockedHeaderNeverDropped
  BY FBInductive, PTL DEF FBInv

\* handleFrame never pops from an empty ring.
THEOREM FBNoUnderrun == FBSpec => []NoUnderrun
  <1>1. FBTypeOK => NoUnderrun
    BY AfterPushType, EnoughBytes DEF NoUnderrun
  <1>2. QED
    BY <1>1, FBTypeCorrect, PTL

\* A lock that was taken is kept for ever.
THEOREM FBLocksPermanent == FBSpec => LocksArePermanent
  <1>1. FBInv /\ [FBNext]_fbVars
          => [mLockedProtocol # "UNKNOWN"
                => UNCHANGED <<mLockedProtocol, mLockedChecksum>>]_fbVars
    BY FBPushKeepsLocks DEF FBInv, FBNext
  <1>2. QED
    BY <1>1, FBInductive, PTL DEF FBSpec, LocksArePermanent

=============================================================================
