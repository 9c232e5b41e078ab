---------------------------- MODULE MainBus_proofs ----------------------------
(***************************************************************************)
(* ControllerTask on the main controller's line, for any buses whose       *)
(* cycles have the shape MainBusAssumption says, any lengths, checksum     *)
(* functions and noise, and any number of faults.                          *)
(*                                                                         *)
(* Types first; then, what being in sync means: with the locks of the heat *)
(* pump, the ring holds the part of the frame on the line that was read    *)
(* (InStep), whatever the frames hold.  It rests on one lemma about        *)
(* handleFrame: a frame pushed byte by byte is taken with its last byte,   *)
(* and nothing is left in the ring.                                        *)
(*                                                                         *)
(* Last, that a task out of step finds the frames again in time (RecInv):  *)
(* the ring and the receive buffer are, behind some bytes of whatever, the *)
(* last bytes of the line (Known).  Once a request is pushed into the ring *)
(* nothing but bytes of the line is behind it, and when the next one is    *)
(* pushed nothing but bytes of the line is in the ring; from there the     *)
(* frames of that cycle are taken one by one (Recovering).                 *)
(***************************************************************************)
EXTENDS MainBus, FrameBuffer_proofs, FiniteSetTheorems, TLAPS

-----------------------------------------------------------------------------
(* A frame pushed byte by byte *)

\* A frame starts with its identifier and its length, and fits the ring.
LEMMA FrameShape ==
    ASSUME NEW version \in Protocols,
           NEW checksum \in IF version \in XorOnlyProtocols THEN {"XOR"} ELSE {"XOR", "CRC16"},
           NEW frame, IsFrame(frame, version, checksum)
    PROVE  /\ frame \in Seq(Byte) /\ Len(frame) \in Nat
           /\ frame[1] \in FrameIds
           /\ frame[2] \in 1 .. 255
           /\ Len(frame) = 1 + frame[2] + (IF checksum = "XOR" THEN 1 ELSE 2)
           /\ Len(frame) <= HEATPUMP_MAX_FRAME_LENGTH
  <1>1. <<frame[1], frame[2]>> \in FrameTable[version]
    BY DEF IsFrame
  <1>2. <<frame[1], frame[2]>> \in FrameIds \X (1 .. 255)
    BY <1>1, FrameTableAssumption
  <1>3. frame[1] \in FrameIds /\ frame[2] \in 1 .. 255
    BY <1>2
  <1>4. frame[2] + (IF version \in XorOnlyProtocols THEN 2 ELSE 3)
          <= HEATPUMP_MAX_FRAME_LENGTH
    <2>1. <<frame[1], frame[2]>>[2] = frame[2]
      OBVIOUS
    <2>2. QED
      BY <1>1, <2>1, FrameBufferAssumption
  <1>5. PICK n \in 1 .. 255 : n = frame[2]
    BY <1>3
  <1>6. HEATPUMP_MAX_FRAME_LENGTH \in Nat
    BY FrameBufferAssumption
  <1>7. CASE checksum = "XOR"
    <2>1. Len(frame) = n + 2
      BY <1>5, <1>7 DEF IsFrame
    <2>2. n + 2 <= HEATPUMP_MAX_FRAME_LENGTH
      <3>1. CASE version \in XorOnlyProtocols
        BY <1>4, <1>5, <3>1
      <3>2. CASE version \notin XorOnlyProtocols
        <4>1. n + 3 <= HEATPUMP_MAX_FRAME_LENGTH
          BY <1>4, <1>5, <3>2
        <4>2. QED
          BY <1>6, <4>1
      <3>3. QED
        BY <3>1, <3>2
    <2>3. QED
      BY <1>3, <1>5, <1>7, <2>1, <2>2 DEF IsFrame
  <1>8. CASE checksum # "XOR"
    <2>1. Len(frame) = n + 3
      BY <1>5, <1>8 DEF IsFrame
    <2>2. version \notin XorOnlyProtocols
      BY <1>8
    <2>3. n + 3 <= HEATPUMP_MAX_FRAME_LENGTH
      BY <1>4, <1>5, <2>2
    <2>4. QED
      BY <1>3, <1>5, <1>8, <2>1, <2>3 DEF IsFrame
  <1>9. QED
    BY <1>7, <1>8

\* The first bytes of a sequence, and the next one.
LEMMA PrefixPush ==
    ASSUME NEW s \in Seq(Byte), NEW i \in 1 .. Len(s)
    PROVE  /\ Len(SubSeq(s, 1, i)) = i
           /\ Len(SubSeq(s, 1, i - 1)) = i - 1
           /\ SubSeq(s, 1, i) \in Seq(Byte)
           /\ \A j \in 1 .. i : SubSeq(s, 1, i)[j] = s[j]
           /\ Append(SubSeq(s, 1, i - 1), s[i]) = SubSeq(s, 1, i)
  <1>1. Len(s) \in Nat /\ \A j \in 1 .. Len(s) : s[j] \in Byte
    BY LenProperties, ElementOfSeq
  <1>2. i \in Int /\ i - 1 \in Int /\ 1 \in Int
    BY <1>1
  <1>3. \A j \in 1 .. i : s[j] \in Byte
    BY <1>1
  <1>4. /\ SubSeq(s, 1, i) \in Seq(Byte)
        /\ Len(SubSeq(s, 1, i)) = IF 1 <= i THEN i - 1 + 1 ELSE 0
        /\ \A j \in 1 .. i - 1 + 1 : SubSeq(s, 1, i)[j] = s[1 + j - 1]
    BY <1>2, <1>3, SubSeqProperties
  <1>5. /\ SubSeq(s, 1, i - 1) \in Seq(Byte)
        /\ Len(SubSeq(s, 1, i - 1)) = IF 1 <= i - 1 THEN i - 1 - 1 + 1 ELSE 0
    BY <1>2, <1>3, SubSeqProperties
  <1>6. SubSeq(s, 1, i) = SubSeq(s, 1, i - 1) \o << s[i] >>
    BY <1>1, SubSeqRecursiveSecond
  <1>7. Append(SubSeq(s, 1, i - 1), s[i]) = SubSeq(s, 1, i - 1) \o << s[i] >>
    BY <1>3, <1>5, AppendIsConcat
  <1>8. QED
    BY <1>4, <1>5, <1>6, <1>7

\* The payload of a complete ring is that of the frame it holds.
LEMMA PrefixPayload ==
    ASSUME NEW s \in Seq(Byte), NEW i \in 1 .. Len(s), NEW n \in 1 .. 255, n + 1 <= i
    PROVE  SubSeq(SubSeq(s, 1, i), 2, n + 1) = SubSeq(s, 2, n + 1)
  <1>1. Len(s) \in Nat
    BY LenProperties
  <1>2. SubSeq(SubSeq(s, 1, i), 2, n + 1) = SubSeq(s, 1 + 2 - 1, 1 + (n + 1) - 1)
    BY <1>1, SubSeqOfSubSeq
  <1>3. QED
    BY <1>2

\* handleFrame on a frame of the heat pump, with the right locks: before its last
\* byte it is awaited, with the last one it is taken and the ring is empty.
LEMMA PushFrameByte ==
    ASSUME FBInv, LocksFit,
           bus.version \in Protocols,
           bus.checksum \in IF bus.version \in XorOnlyProtocols THEN {"XOR"}
                                                                ELSE {"XOR", "CRC16"},
           NEW frame, IsFrame(frame, bus.version, bus.checksum),
           NEW i \in 1 .. Len(frame),
           mBuffer = SubSeq(frame, 1, i - 1),
           PushByte(frame[i])
    PROVE  /\ UNCHANGED <<mLockedProtocol, mLockedChecksum>>
           /\ i < Len(frame) => mBuffer' = SubSeq(frame, 1, i) /\ returned' = 0
           /\ i = Len(frame) => mBuffer' = <<>> /\ returned' = frame[1]
  <1> DEFINE b == AfterPush(frame[i])
  <1>1. /\ frame \in Seq(Byte) /\ Len(frame) \in Nat
        /\ frame[1] \in FrameIds
        /\ frame[2] \in 1 .. 255
        /\ Len(frame) = 1 + frame[2] + (IF bus.checksum = "XOR" THEN 1 ELSE 2)
        /\ Len(frame) <= HEATPUMP_MAX_FRAME_LENGTH
    BY FrameShape
  <1>2. HEATPUMP_MAX_FRAME_LENGTH \in Nat
    BY FrameBufferAssumption
  <1>3. frame[i] \in Byte
    BY <1>1, ElementOfSeq
  <1>4. /\ Len(SubSeq(frame, 1, i)) = i
        /\ Len(mBuffer) = i - 1
        /\ SubSeq(frame, 1, i) \in Seq(Byte)
        /\ \A j \in 1 .. i : SubSeq(frame, 1, i)[j] = frame[j]
        /\ Append(mBuffer, frame[i]) = SubSeq(frame, 1, i)
    BY <1>1, PrefixPush
  <1>5. b = SubSeq(frame, 1, i)
    <2>1. Len(mBuffer) # HEATPUMP_MAX_FRAME_LENGTH
      BY <1>1, <1>2, <1>4
    <2>2. QED
      BY <1>4, <2>1 DEF AfterPush
  <1>6. UNCHANGED <<mLockedProtocol, mLockedChecksum>>
    <2>1. mLockedProtocol # "UNKNOWN"
      BY DEF LocksFit, Protocols
    <2>2. QED
      BY <1>3, <2>1, FBPushKeepsLocks DEF FBInv
  <1>7. CrcLen = IF bus.checksum = "XOR" THEN 1 ELSE 2
    BY DEF CrcLen, LocksFit
  <1>8. /\ b \in Seq(Byte) /\ Len(b) = i
        /\ \A j \in 1 .. i : b[j] = frame[j]
    BY <1>4, <1>5
  <1>9. CASE i < Len(frame)
    <2>1. ~Complete(b)
      <3>1. SUFFICES ASSUME Complete(b)
                     PROVE  FALSE
        OBVIOUS
      <3>2. Len(b) >= 2 /\ Len(b) >= 1 + b[2] + CrcLen
        BY <3>1 DEF Complete, IsSync
      <3>3. b[2] = frame[2]
        BY <1>8, <3>2
      <3>4. i >= Len(frame)
        BY <1>1, <1>7, <1>8, <3>2, <3>3
      <3>5. QED
        BY <1>1, <1>9, <3>4
    <2>2. Await(b)
      BY <2>1 DEF PushByte, Accept, Reject
    <2>3. QED
      BY <1>1, <1>5, <1>6, <1>9, <2>2 DEF Await
  <1>10. CASE i = Len(frame)
    <2>1. PICK n \in 1 .. 255 : n = frame[2]
      BY <1>1
    <2>2. b[1] = frame[1] /\ b[2] = n
      <3>1. 1 \in 1 .. i /\ 2 \in 1 .. i
        BY <1>1, <1>10, <2>1 DEF IsFrame
      <3>2. QED
        BY <1>8, <2>1, <3>1
    <2>3. Complete(b)
      <3>1. IsSync(b)
        BY <1>1, <1>8, <1>10, <2>1, <2>2 DEF IsSync, SyncTable, LocksFit, IsFrame, Protocols
      <3>2. QED
        BY <1>1, <1>7, <1>8, <1>10, <2>1, <2>2, <3>1 DEF Complete
    <2>4. Payload(b) = SubSeq(frame, 2, n + 1)
      <3>1. n + 1 <= i
        BY <1>1, <1>10, <2>1
      <3>2. SubSeq(SubSeq(frame, 1, i), 2, n + 1) = SubSeq(frame, 2, n + 1)
        BY <1>1, <3>1, PrefixPayload
      <3>3. QED
        BY <1>5, <2>2, <3>2 DEF Payload
    <2>5. Version(b) = bus.version
      BY DEF Version, LocksFit, Protocols
    <2>6. (XorMatches(b) \/ Crc16Matches(b)) /\ Consumed(b) = Len(b)
      <3>1. CASE bus.checksum = "XOR"
        <4>1. TriesXor(b) /\ ~TriesCrc16(b)
          BY <3>1 DEF TriesXor, TriesCrc16, LocksFit
        <4>2. i = n + 2
          BY <1>1, <1>10, <2>1, <3>1
        <4>3. b[n + 2] = XorChecksum(Payload(b))
          <5>1. n + 2 \in 1 .. i
            BY <4>2
          <5>2. frame[n + 2] = XorChecksum(SubSeq(frame, 2, n + 1))
            BY <2>1, <3>1 DEF IsFrame
          <5>3. QED
            BY <1>8, <2>4, <5>1, <5>2
        <4>4. XorMatches(b)
          BY <2>2, <4>1, <4>3 DEF XorMatches
        <4>5. Consumed(b) = 1 + n + 1
          BY <2>2, <4>1 DEF Consumed, TakesTwo
        <4>6. QED
          BY <1>8, <4>2, <4>4, <4>5
      <3>2. CASE bus.checksum # "XOR"
        <4>1. bus.checksum = "CRC16" /\ bus.version \notin XorOnlyProtocols
          BY <3>2
        <4>2. ~TriesXor(b) /\ TriesCrc16(b)
          BY <2>5, <4>1 DEF TriesXor, TriesCrc16, LocksFit
        <4>3. TakesTwo(b)
          BY <4>2 DEF TakesTwo, XorMatches
        <4>4. i = n + 3
          BY <1>1, <1>10, <2>1, <3>2
        <4>5. <<b[n + 2], b[n + 3]>> = Crc16(Payload(b))
          <5>1. n + 2 \in 1 .. i /\ n + 3 \in 1 .. i
            BY <4>4
          <5>2. <<frame[n + 2], frame[n + 3]>> = Crc16(SubSeq(frame, 2, n + 1))
            BY <2>1, <3>2 DEF IsFrame
          <5>3. QED
            BY <1>8, <2>4, <5>1, <5>2
        <4>6. Crc16Matches(b)
          BY <2>2, <4>3, <4>5 DEF Crc16Matches
        <4>7. Consumed(b) = 1 + n + 2
          BY <2>2, <4>3 DEF Consumed
        <4>8. QED
          BY <1>8, <4>4, <4>6, <4>7
      <3>3. QED
        BY <3>1, <3>2
    <2>7. Accept(b)
      BY <2>3, <2>6 DEF PushByte, Await, Reject
    <2>8. Rest(b) = <<>>
      <3>1. Rest(b) = SubSeq(b, Len(b) + 1, Len(b))
        BY <2>6 DEF Rest
      <3>2. QED
        BY <1>8, <3>1, SubSeqEmpty
    <2>9. QED
      BY <1>6, <1>10, <2>2, <2>7, <2>8 DEF Accept
  <1>11. QED
    BY <1>1, <1>6, <1>9, <1>10

-----------------------------------------------------------------------------
(* Type correctness *)

TypeInv == bus \in Buses /\ FBInv /\ TypeOK

\* What MainBusAssumption says of the two cycles of a bus.
LEMMA CyclesOfBus ==
    ASSUME NEW b \in Buses, NEW kind \in CycleKinds
    PROVE  /\ b.version \in Protocols
           /\ b.checksum \in IF b.version \in XorOnlyProtocols THEN {"XOR"}
                                                              ELSE {"XOR", "CRC16"}
           /\ IsCycle(b[kind], b.version, b.checksum)
           /\ b[kind] \in Seq(Seq(Byte))
           /\ Len(b[kind]) \in Nat /\ Len(b[kind]) >= 3
           /\ \A k \in 1 .. Len(b[kind]) :
                 /\ b[kind][k] \in Seq(Byte)
                 /\ Len(b[kind][k]) \in Nat /\ Len(b[kind][k]) >= 1
                 /\ k > 1 => IsFrame(b[kind][k], b.version, b.checksum)
           /\ b[kind][1] = <<HMI_MESSAGE_IDENTIFIER>> /\ Len(b[kind][1]) = 1
           /\ b[kind][1][1] = HMI_MESSAGE_IDENTIFIER
  <1>1. /\ b.version \in Protocols
        /\ b.checksum \in IF b.version \in XorOnlyProtocols THEN {"XOR"}
                                                           ELSE {"XOR", "CRC16"}
        /\ IsCycle(b[kind], b.version, b.checksum)
    BY MainBusAssumption
  <1>2. /\ b[kind] \in Seq(Seq(Byte))
        /\ Len(b[kind]) \in Nat /\ Len(b[kind]) >= 3
        /\ b[kind][1] = <<HMI_MESSAGE_IDENTIFIER>>
    BY <1>1, LenProperties DEF IsCycle
  <1>3. Len(b[kind][1]) = 1 /\ b[kind][1][1] = HMI_MESSAGE_IDENTIFIER
    BY <1>2
  <1>4. ASSUME NEW k \in 1 .. Len(b[kind])
        PROVE  /\ b[kind][k] \in Seq(Byte)
               /\ Len(b[kind][k]) \in Nat /\ Len(b[kind][k]) >= 1
               /\ k > 1 => IsFrame(b[kind][k], b.version, b.checksum)
    <2>1. b[kind][k] \in Seq(Byte) /\ Len(b[kind][k]) \in Nat
      BY <1>2, ElementOfSeq, LenProperties
    <2>2. CASE k = 1
      BY <1>3, <2>1, <2>2
    <2>3. CASE k > 1
      <3>1. IsFrame(b[kind][k], b.version, b.checksum)
        BY <1>1, <1>2, <2>3 DEF IsCycle
      <3>2. Len(b[kind][k]) >= 2
        BY <3>1 DEF IsFrame
      <3>3. QED
        BY <2>1, <3>1, <3>2
    <2>4. QED
      BY <1>2, <2>2, <2>3
  <1>5. QED
    BY <1>1, <1>2, <1>3, <1>4

\* The line stays within the frames of its cycles.
LEMMA AdvanceTyped ==
    ASSUME TypeInv, Advance
    PROVE  /\ bus' \in Buses /\ cycle' \in CycleKinds
           /\ slot' \in 1 .. Len(Frames') /\ pos' \in 1 .. Len(Frames'[slot'])
           /\ errors' \in 0 .. MaxErrors
  <1>1. /\ bus \in Buses /\ bus' = bus /\ cycle \in CycleKinds
        /\ slot \in 1 .. Len(Frames) /\ pos \in 1 .. Len(Frames[slot])
        /\ errors \in 0 .. MaxErrors
    BY DEF TypeInv, TypeOK, Advance
  <1>2. \A kind \in CycleKinds :
           /\ Len(bus[kind]) \in Nat /\ Len(bus[kind]) >= 3
           /\ \A k \in 1 .. Len(bus[kind]) :
                 Len(bus[kind][k]) \in Nat /\ Len(bus[kind][k]) >= 1
    BY <1>1, CyclesOfBus
  <1>3. CASE pos < Len(Frames[slot]) /\ pos' = pos + 1 /\ UNCHANGED <<slot, cycle, errors>>
    <2>1. Frames' = Frames
      BY <1>1, <1>3 DEF Frames
    <2>2. QED
      BY <1>1, <1>2, <1>3, <2>1 DEF Frames
  <1>4. CASE slot < Len(Frames) /\ slot' = slot + 1 /\ pos' = 1 /\ UNCHANGED <<cycle, errors>>
    <2>1. Frames' = Frames
      BY <1>1, <1>4 DEF Frames
    <2>2. slot' \in 1 .. Len(Frames)
      BY <1>1, <1>2, <1>4 DEF Frames
    <2>3. Len(Frames[slot']) \in Nat /\ Len(Frames[slot']) >= 1
      BY <1>1, <1>2, <2>2 DEF Frames
    <2>4. QED
      BY <1>1, <1>4, <2>1, <2>2, <2>3
  <1>5. CASE slot' = 1 /\ pos' = 1 /\ NextCycle
    <2>1. cycle' \in CycleKinds
      BY <1>5 DEF NextCycle, CycleKinds
    <2>2. errors' \in 0 .. MaxErrors
      BY <1>1, <1>5, MainBusAssumption DEF NextCycle
    <2>3. Frames' = bus[cycle']
      BY <1>1 DEF Frames
    <2>4. 1 \in 1 .. Len(bus[cycle'])
      BY <1>2, <2>1
    <2>5. Len(bus[cycle'][1]) \in Nat /\ Len(bus[cycle'][1]) >= 1
      BY <1>2, <2>1, <2>4
    <2>6. QED
      BY <1>1, <1>5, <2>1, <2>2, <2>3, <2>4, <2>5
  <1>6. QED
    BY <1>3, <1>4, <1>5 DEF Advance

\* The byte to come is a byte.
LEMMA NextByteTyped ==
    ASSUME TypeInv
    PROVE  Frames[slot][pos] \in Byte
  <1>1. Frames[slot] \in Seq(Byte)
    BY CyclesOfBus DEF TypeInv, TypeOK, Frames
  <1>2. QED
    BY <1>1, ElementOfSeq DEF TypeInv, TypeOK

\* A byte arrives: the parser and the task's own state are left alone.
LEMMA ArrivesTyped ==
    ASSUME TypeInv, NEW val \in Byte, NEW trigger \in BOOLEAN, Arrives(val, trigger)
    PROVE  FBInv' /\ FBTypeOK' /\ UNCHANGED <<mSequence, hasHmi, sending>> /\ rx' \in Seq(RxByte)
  <1>1. [val |-> val, trigger |-> trigger] \in RxByte
    BY DEF RxByte
  <1>2. rx' \in Seq(RxByte)
    BY <1>1, AppendProperties DEF Arrives, TypeInv, TypeOK
  <1>3. FBInv'
    BY FBInvStutter DEF Arrives, TypeInv
  <1>4. QED
    BY <1>2, <1>3 DEF Arrives, FBInv

\* The task's sequence holds at most two identifiers.
LEMMA PushOverwriteTyped ==
    ASSUME mSequence \in Seq(FrameIds), Len(mSequence) <= 2, NEW id \in FrameIds
    PROVE  PushOverwrite(id) \in Seq(FrameIds) /\ Len(PushOverwrite(id)) <= 2
  <1>1. Len(mSequence) \in Nat
    BY LenProperties
  <1>2. CASE Len(mSequence) = 2
    <2>1. mSequence[2] \in FrameIds
      BY <1>2, ElementOfSeq
    <2>2. QED
      BY <1>2, <2>1 DEF PushOverwrite
  <1>3. CASE Len(mSequence) # 2
    <2>1. /\ Append(mSequence, id) \in Seq(FrameIds)
          /\ Len(Append(mSequence, id)) = Len(mSequence) + 1
      BY AppendProperties
    <2>2. PushOverwrite(id) = Append(mSequence, id)
      BY <1>3 DEF PushOverwrite
    <2>3. Len(mSequence) + 1 <= 2
      <3>1. PICK n \in Nat : n = Len(mSequence)
        BY <1>1
      <3>2. n <= 2 /\ n # 2
        BY <1>3, <3>1
      <3>3. QED
        BY <3>1, <3>2
    <2>4. QED
      BY <2>1, <2>2, <2>3
  <1>4. QED
    BY <1>2, <1>3

\* The line starts within the frames of a plain cycle.
LEMMA MainBusTypeInit == Init => TypeInv
  <1> SUFFICES ASSUME Init PROVE TypeInv
    OBVIOUS
  <1>1. FBInv /\ FBTypeOK
    BY FBInvInit DEF Init, TaskInit, FBInv
  <1>2. /\ mSequence \in Seq(FrameIds) /\ Len(mSequence) <= 2
        /\ rx \in Seq(RxByte)
        /\ hasHmi \in BOOLEAN /\ sending \in BOOLEAN
    <2>1. mSequence = <<>> /\ rx = <<>> /\ hasHmi \in BOOLEAN /\ sending = FALSE
      BY DEF Init, TaskInit
    <2>2. Len(<<>>) <= 2
      BY EmptySeq
    <2>3. mSequence \in Seq(FrameIds) /\ rx \in Seq(RxByte)
      BY <2>1, EmptySeq
    <2>4. QED
      BY <2>1, <2>2, <2>3
  <1>3. missed \in 0 .. MaxMissed + 1 /\ faults \in 0 .. MaxFaults /\ errors \in 0 .. MaxErrors
    BY MainBusAssumption DEF Init, BusInit
  <1>4. /\ bus \in Buses /\ cycle \in CycleKinds /\ synced \in BOOLEAN
        /\ slot \in 1 .. Len(Frames) /\ pos \in 1 .. Len(Frames[slot])
    BY DEF Init, BusInit, CycleKinds
  <1>5. QED
    BY <1>1, <1>2, <1>3, <1>4 DEF TypeInv, TypeOK

\* The variables of the line, apart from what a fault resets.
lineVars == <<bus, cycle, slot, pos, errors>>

LineTyped ==
    /\ bus \in Buses /\ cycle \in CycleKinds
    /\ slot \in 1 .. Len(Frames) /\ pos \in 1 .. Len(Frames[slot])
    /\ errors \in 0 .. MaxErrors

\* LineTyped is about the line alone.
LEMMA LineTypedStutter == LineTyped /\ UNCHANGED lineVars => LineTyped'
  BY DEF LineTyped, lineVars, Frames

\* The types survive every byte and every turn of the task.
LEMMA MainBusTypeNext == TypeInv /\ [Next]_vars => TypeInv'
  <1> SUFFICES ASSUME TypeInv, [Next]_vars
               PROVE  TypeInv'
    OBVIOUS
  <1>1. /\ LineTyped /\ FBInv
        /\ mSequence \in Seq(FrameIds) /\ Len(mSequence) <= 2
        /\ rx \in Seq(RxByte) /\ hasHmi \in BOOLEAN /\ sending \in BOOLEAN
        /\ faults \in 0 .. MaxFaults
        /\ missed \in 0 .. MaxMissed + 1 /\ synced \in BOOLEAN
    BY DEF TypeInv, TypeOK, LineTyped
  <1>2. Advance => LineTyped'
    BY AdvanceTyped DEF LineTyped
  <1>3. Fault => /\ faults' \in 0 .. MaxFaults /\ missed' \in 0 .. MaxMissed + 1
                 /\ synced' \in BOOLEAN
    <2>1. Fault => faults' \in 0 .. MaxFaults /\ missed' \in 0 .. MaxMissed + 1
      BY <1>1, MainBusAssumption DEF Fault
    <2>2. Fault => synced' \in BOOLEAN
      BY DEF Fault
    <2>3. QED
      BY <2>1, <2>2
  <1>4. NextByteArrives => /\ FBInv' /\ FBTypeOK' /\ UNCHANGED <<mSequence, hasHmi, sending>>
                           /\ rx' \in Seq(RxByte)
    BY NextByteTyped, ArrivesTyped DEF NextByteArrives
  <1>5. CASE BusByte
    BY <1>1, <1>2, <1>4, <1>5 DEF BusByte, TypeInv, TypeOK, LineTyped
  <1>6. CASE LoseByte
    <2>1. FBInv' /\ FBTypeOK' /\ UNCHANGED <<mSequence, rx, hasHmi, sending>>
      BY <1>1, <1>6, FBInvStutter DEF LoseByte, taskVars, fbVars, FBInv
    <2>2. QED
      BY <1>1, <1>2, <1>3, <1>6, <2>1 DEF LoseByte, TypeInv, TypeOK, LineTyped
  <1>7. CASE AlterByte
    <2>1. PICK val \in Noise : Arrives(val, FALSE)
      BY <1>7 DEF AlterByte
    <2>2. /\ FBInv' /\ FBTypeOK' /\ UNCHANGED <<mSequence, hasHmi, sending>>
          /\ rx' \in Seq(RxByte)
      BY <2>1, ArrivesTyped, MainBusAssumption
    <2>3. QED
      BY <1>1, <1>2, <1>3, <1>7, <2>2 DEF AlterByte, TypeInv, TypeOK, LineTyped
  <1>8. CASE LateByte
    BY <1>1, <1>2, <1>3, <1>4, <1>8 DEF LateByte, TypeInv, TypeOK, LineTyped
  <1>9. CASE TaskAnswers
    <2>1. FBInv' /\ FBTypeOK' /\ hasHmi' = hasHmi
      BY <1>1, <1>9, FBInvStutter DEF TaskAnswers, Answer, FBInv
    <2>2. /\ mSequence' \in Seq(FrameIds) /\ Len(mSequence') <= 2
          /\ rx' \in Seq(RxByte) /\ sending' \in BOOLEAN
      BY <1>1, <1>9, HeadTailProperties DEF TaskAnswers, Answer
    <2>3. missed' \in 0 .. MaxMissed + 1
      BY <1>1, <1>9, MainBusAssumption DEF TaskAnswers
    <2>4. synced' \in BOOLEAN
      BY <1>1, <1>9 DEF TaskAnswers
    <2>5. LineTyped' /\ faults' = faults
      BY <1>1, <1>9, LineTypedStutter DEF TaskAnswers, lineVars
    <2>6. QED
      BY <1>1, <2>1, <2>2, <2>3, <2>4, <2>5 DEF TypeInv, TypeOK, LineTyped
  <1>10. CASE TaskParses
    <2>1. Parse
      BY <1>10 DEF TaskParses
    <2>2. Head(rx).val \in Byte /\ Tail(rx) \in Seq(RxByte)
      <3>1. rx # <<>>
        BY <2>1 DEF Parse
      <3>2. Head(rx) \in RxByte /\ Tail(rx) \in Seq(RxByte)
        BY <1>1, <3>1, HeadTailProperties
      <3>3. QED
        BY <3>2 DEF RxByte
    <2>3. FBInv' /\ FBTypeOK' /\ returned' \in FrameIds \cup {0}
      BY <1>1, <2>1, <2>2, FBInvPush DEF Parse, FBInv, FBTypeOK
    <2>4. mSequence' \in Seq(FrameIds) /\ Len(mSequence') <= 2
      <3>1. CASE returned' > 0
        <4>1. returned' \in FrameIds
          BY <2>3, <3>1
        <4>2. QED
          BY <1>1, <2>1, <3>1, <4>1, PushOverwriteTyped DEF Parse
      <3>2. CASE ~(returned' > 0)
        BY <1>1, <2>1, <3>2 DEF Parse
      <3>3. QED
        BY <3>1, <3>2
    <2>5. rx' \in Seq(RxByte) /\ hasHmi' \in BOOLEAN /\ sending' \in BOOLEAN
      BY <1>1, <2>1, <2>2 DEF Parse
    <2>6. missed' \in 0 .. MaxMissed + 1
      BY <1>1, <1>10, MainBusAssumption DEF TaskParses
    <2>7. synced' \in BOOLEAN
      BY <1>1, <1>10 DEF TaskParses
    <2>8. LineTyped' /\ faults' = faults
      BY <1>1, <1>10, LineTypedStutter DEF TaskParses, lineVars
    <2>9. QED
      BY <1>1, <2>3, <2>4, <2>5, <2>6, <2>7, <2>8 DEF TypeInv, TypeOK, LineTyped
  <1>11. CASE HmiReady
    <2>1. FBInv' /\ FBTypeOK' /\ UNCHANGED <<mSequence, rx, sending>> /\ hasHmi' \in BOOLEAN
      BY <1>1, <1>11, FBInvStutter DEF HmiReady, HmiFrameStored, FBInv
    <2>2. LineTyped' /\ UNCHANGED <<faults, missed, synced>>
      BY <1>1, <1>11, LineTypedStutter DEF HmiReady, busVars, lineVars
    <2>3. QED
      BY <1>1, <2>1, <2>2 DEF TypeInv, TypeOK, LineTyped
  <1>12. CASE UNCHANGED vars
    <2>1. FBInv' /\ FBTypeOK' /\ UNCHANGED <<mSequence, rx, hasHmi, sending>>
      BY <1>1, <1>12, FBInvStutter DEF vars, taskVars, fbVars, FBInv
    <2>2. LineTyped' /\ UNCHANGED <<faults, missed, synced>>
      BY <1>1, <1>12, LineTypedStutter DEF vars, busVars, lineVars
    <2>3. QED
      BY <1>1, <2>1, <2>2 DEF TypeInv, TypeOK, LineTyped
  <1>13. CASE TaskFlushes
    <2>1. FBInv' /\ FBTypeOK' /\ hasHmi' = hasHmi
      BY <1>1, <1>13, FBInvStutter DEF TaskFlushes, Flush, FBInv
    <2>2. /\ mSequence' = <<>> /\ rx' = <<>> /\ sending' = FALSE
          /\ LineTyped' /\ UNCHANGED <<faults, missed, synced>>
      BY <1>1, <1>13, LineTypedStutter DEF TaskFlushes, Flush, busVars, lineVars
    <2>3. <<>> \in Seq(FrameIds) /\ <<>> \in Seq(RxByte) /\ Len(<<>>) <= 2
      BY EmptySeq
    <2>4. QED
      BY <1>1, <2>1, <2>2, <2>3 DEF TypeInv, TypeOK, LineTyped
  <1>14. QED
    BY <1>5, <1>6, <1>7, <1>8, <1>9, <1>10, <1>11, <1>12, <1>13 DEF Next, TaskReads

\* The types hold in every state.
LEMMA MainBusTypeInductive == Spec => []TypeInv
  BY MainBusTypeInit, MainBusTypeNext, PTL DEF Spec

\* The parser, the sequence of identifiers, the receive buffer and the place on
\* the line stay in their types, whatever bytes are lost, altered or late.
THEOREM MainBusTypeCorrect == Spec => []TypeOK
  BY MainBusTypeInductive, PTL DEF TypeInv

-----------------------------------------------------------------------------
(* In step with the line *)

\* What the task holds before it reads byte i of frame k: before the request
\* nothing but the sequence that leads to it, in a frame the part of it that was
\* read and the identifiers of the frames before.
Expects(frames, k, i) ==
    IF k = 1 THEN mBuffer = <<>> /\ ExpectsRequest
    ELSE mBuffer = SubSeq(frames[k], 1, i - 1) /\ mSequence = Heard(frames, k)

\* The byte to come is the one after byte i of frame k.  After the last byte of a
\* cycle the kind of the next one is already decided.
Follows(frames, k, i) ==
    \/ i < Len(frames[k]) /\ frames = Frames /\ slot = k /\ pos = i + 1
    \/ i = Len(frames[k]) /\ k < Len(frames) /\ frames = Frames /\ slot = k + 1 /\ pos = 1
    \/ i = Len(frames[k]) /\ k = Len(frames) /\ slot = 1 /\ pos = 1

AllRead == rx = <<>> /\ Expects(Frames, slot, pos)

OneToRead ==
    \E kind \in CycleKinds :
        \E k \in 1 .. Len(bus[kind]) : \E i \in 1 .. Len(bus[kind][k]) :
            /\ rx = << [val |-> bus[kind][k][i], trigger |-> (k = 1)] >>
            /\ Expects(bus[kind], k, i)
            /\ Follows(bus[kind], k, i)

\* The controller waits for the answer it has asked for.
Replying == rx = <<>> /\ mBuffer = <<>> /\ slot = 2 /\ pos = 1

InStep == IF sending THEN Replying ELSE AllRead \/ OneToRead

\* If the last byte received is the request, its cycle has just begun.
RequestBegins == rx # <<>> /\ rx[Len(rx)].trigger => slot = 2 /\ pos = 1

SyncInv == RequestBegins /\ (synced => LocksFit /\ InStep)

\* The second of two identifiers is the one pushed last.
LEMMA AppendSecond ==
    ASSUME NEW x, NEW y
    PROVE  Append(<<x>>, y) = <<x, y>>
  <1>1. <<x>> \in Seq({x, y}) /\ Len(<<x>>) = 1 /\ <<x>>[1] = x
    OBVIOUS
  <1>2. <<x, y>> \in Seq({x, y}) /\ Len(<<x, y>>) = 2 /\ <<x, y>>[1] = x /\ <<x, y>>[2] = y
    OBVIOUS
  <1>3. /\ Append(<<x>>, y) \in Seq({x, y}) /\ Len(Append(<<x>>, y)) = 2
        /\ Append(<<x>>, y)[1] = x /\ Append(<<x>>, y)[2] = y
    BY <1>1, AppendProperties
  <1>4. \A i \in 1 .. 2 : Append(<<x>>, y)[i] = <<x, y>>[i]
    BY <1>2, <1>3
  <1>5. QED
    BY <1>2, <1>3, <1>4, SeqEqual

\* The task's sequence after frame k is the one before frame k + 1.
LEMMA HeardNext ==
    ASSUME NEW frames, NEW k \in Nat, k >= 2, mSequence = Heard(frames, k)
    PROVE  PushOverwrite(frames[k][1]) = Heard(frames, k + 1)
  <1>1. CASE k = 2
    <2>1. mSequence = <<>> /\ Heard(frames, k + 1) = <<frames[2][1]>>
      BY <1>1 DEF Heard
    <2>2. \A id : PushOverwrite(id) = <<id>>
      <3>1. Len(mSequence) # 2
        BY <2>1
      <3>2. \A id : Append(<<>>, id) = <<id>>
        OBVIOUS
      <3>3. QED
        BY <2>1, <3>1, <3>2 DEF PushOverwrite
    <2>3. QED
      BY <1>1, <2>1, <2>2
  <1>2. CASE k = 3
    <2>1. mSequence = <<frames[2][1]>> /\ Heard(frames, k + 1) = <<frames[2][1], frames[3][1]>>
      BY <1>2 DEF Heard
    <2>2. \A id : PushOverwrite(id) = <<frames[2][1], id>>
      <3>1. Len(mSequence) # 2
        BY <2>1
      <3>2. \A x, id : Append(<<x>>, id) = <<x, id>>
        BY AppendSecond
      <3>3. QED
        BY <2>1, <3>1, <3>2 DEF PushOverwrite
    <2>3. QED
      BY <1>2, <2>1, <2>2
  <1>3. CASE k > 3
    <2>1. mSequence = <<frames[k - 2][1], frames[k - 1][1]>>
      BY <1>3 DEF Heard
    <2>2. Heard(frames, k + 1) = <<frames[k - 1][1], frames[k][1]>>
      <3>1. \A j : j > 3 /\ j # 2 /\ j # 3
                   => Heard(frames, j) = <<frames[j - 2][1], frames[j - 1][1]>>
        BY Zenon DEF Heard
      <3>2. /\ k + 1 > 3 /\ k + 1 # 2 /\ k + 1 # 3
            /\ (k + 1) - 2 = k - 1 /\ (k + 1) - 1 = k
        BY <1>3
      <3>3. QED
        BY <3>1, <3>2
    <2>3. \A x, y : Len(<<x, y>>) = 2 /\ <<x, y>>[2] = y
      OBVIOUS
    <2>4. Len(mSequence) = 2 /\ mSequence[2] = frames[k - 1][1]
      BY <2>1, <2>3
    <2>5. PushOverwrite(frames[k][1]) = <<frames[k - 1][1], frames[k][1]>>
      BY <2>4 DEF PushOverwrite
    <2>6. QED
      BY <2>2, <2>5
  <1>4. QED
    BY <1>1, <1>2, <1>3

\* A byte comes in while the task is in step: it is the one the task expects.
LEMMA BusByteInStep ==
    ASSUME TypeInv, InStep, BusByte
    PROVE  InStep'
  <1>1. rx = <<>> /\ Expects(Frames, slot, pos) /\ ~sending
    <2>1. ~sending
      <3>1. sending => pos = 1
        BY DEF InStep, Replying
      <3>2. sending => pos # 1
        BY DEF BusByte, OutlastsAnswer
      <3>3. QED
        BY <3>1, <3>2
    <2>2. rx = <<>> /\ (AllRead \/ OneToRead)
      BY <2>1 DEF InStep, BusByte
    <2>3. ~OneToRead
      BY <2>2 DEF OneToRead
    <2>4. QED
      BY <2>1, <2>2, <2>3 DEF AllRead
  <1>2. /\ bus \in Buses /\ cycle \in CycleKinds
        /\ slot \in 1 .. Len(bus[cycle]) /\ pos \in 1 .. Len(bus[cycle][slot])
    BY DEF TypeInv, TypeOK, Frames
  <1>3. bus' = bus /\ UNCHANGED <<mBuffer, mSequence, sending>>
    BY DEF BusByte, NextByteArrives, Arrives, Advance, fbVars
  <1>4. rx' = << [val |-> bus[cycle][slot][pos], trigger |-> (slot = 1)] >>
    BY <1>1 DEF BusByte, NextByteArrives, Arrives, Frames
  <1>6. \E kind \in CycleKinds :
           \E k \in 1 .. Len(bus'[kind]) : \E i \in 1 .. Len(bus'[kind][k]) :
             /\ rx' = << [val |-> bus'[kind][k][i], trigger |-> (k = 1)] >>
             /\ IF k = 1 THEN mBuffer' = <<>> /\ ExpectsRequest'
                ELSE mBuffer' = SubSeq(bus'[kind][k], 1, i - 1)
                     /\ mSequence' = Heard(bus'[kind], k)
             /\ \/ i < Len(bus'[kind][k]) /\ bus'[kind] = Frames' /\ slot' = k /\ pos' = i + 1
                \/ /\ i = Len(bus'[kind][k]) /\ k < Len(bus'[kind]) /\ bus'[kind] = Frames'
                   /\ slot' = k + 1 /\ pos' = 1
                \/ i = Len(bus'[kind][k]) /\ k = Len(bus'[kind]) /\ slot' = 1 /\ pos' = 1
    <2>1. IF slot = 1 THEN mBuffer' = <<>> /\ ExpectsRequest'
          ELSE mBuffer' = SubSeq(bus'[cycle][slot], 1, pos - 1)
               /\ mSequence' = Heard(bus'[cycle], slot)
      BY <1>1, <1>3 DEF Expects, ExpectsRequest, Frames
    <2>2. \/ pos < Len(bus'[cycle][slot]) /\ bus'[cycle] = Frames' /\ slot' = slot /\ pos' = pos + 1
          \/ /\ pos = Len(bus'[cycle][slot]) /\ slot < Len(bus'[cycle]) /\ bus'[cycle] = Frames'
             /\ slot' = slot + 1 /\ pos' = 1
          \/ /\ pos = Len(bus'[cycle][slot]) /\ slot = Len(bus'[cycle])
             /\ slot' = 1 /\ pos' = 1
      BY <1>3 DEF BusByte, Advance, Frames
    <2>3. QED
      BY <1>2, <1>3, <1>4, <2>1, <2>2
  <1>7. OneToRead'
    BY <1>6 DEF OneToRead, Expects, Follows
  <1>8. QED
    BY <1>1, <1>3, <1>7 DEF InStep

\* The task reads the byte it expects: the request is answered, any other byte is
\* parsed, and the task is ready for the byte that follows.
LEMMA ReadInStep ==
    ASSUME TypeInv, QuietBuses, LocksFit, OneToRead, Answer \/ Parse, UNCHANGED lineVars
    PROVE  /\ LocksFit'
           /\ Answer => Head(rx).trigger /\ Replying'
           /\ Parse => ~Head(rx).trigger /\ AllRead'
  <1>1. PICK kind, k, i :
            /\ kind \in CycleKinds /\ k \in 1 .. Len(bus[kind]) /\ i \in 1 .. Len(bus[kind][k])
            /\ rx = << [val |-> bus[kind][k][i], trigger |-> (k = 1)] >>
            /\ Expects(bus[kind], k, i)
            /\ Follows(bus[kind], k, i)
    BY DEF OneToRead
  <1> DEFINE frames == bus[kind]
  <1>2. /\ bus \in Buses /\ bus' = bus /\ Frames' = Frames /\ slot' = slot /\ pos' = pos
        /\ FBInv
    BY DEF TypeInv, lineVars, Frames
  <1>3. /\ Head(rx).val = frames[k][i] /\ Head(rx).trigger = (k = 1)
        /\ Tail(rx) = <<>> /\ rx # <<>>
    BY <1>1
  <1>4. /\ bus.version \in Protocols
        /\ bus.checksum \in IF bus.version \in XorOnlyProtocols THEN {"XOR"}
                                                              ELSE {"XOR", "CRC16"}
        /\ IsCycle(frames, bus.version, bus.checksum)
        /\ Len(frames) \in Nat /\ Len(frames) >= 3
        /\ \A j \in 1 .. Len(frames) :
              /\ Len(frames[j]) \in Nat /\ Len(frames[j]) >= 1
              /\ j > 1 => IsFrame(frames[j], bus.version, bus.checksum)
        /\ frames[1] = <<HMI_MESSAGE_IDENTIFIER>> /\ Len(frames[1]) = 1
        /\ frames[1][1] = HMI_MESSAGE_IDENTIFIER
    BY <1>1, <1>2, CyclesOfBus
  <1>5. \A s : SubSeq(s, 1, 0) = <<>>
    BY SubSeqEmpty
  <1>6. CASE k = 1
    <2>1. i = 1 /\ Head(rx).val = HMI_MESSAGE_IDENTIFIER /\ Head(rx).trigger
      <3>1. i = 1
        <4>1. i \in 1 .. Len(frames[1])
          BY <1>1, <1>6
        <4>2. QED
          BY <1>4, <4>1
      <3>2. Head(rx).val = HMI_MESSAGE_IDENTIFIER
        BY <1>3, <1>4, <1>6, <3>1
      <3>3. Head(rx).trigger
        BY <1>3, <1>6
      <3>4. QED
        BY <3>1, <3>2, <3>3
    <2>2. mBuffer = <<>> /\ ExpectsRequest
      BY <1>1, <1>6 DEF Expects
    <2>3. Answer /\ ~Parse
      BY <2>1, <2>2 DEF Parse, IsRequest
    <2>4. slot = 2 /\ pos = 1
      <3>1. Len(frames[k]) = 1 /\ i = 1
        <4>1. Len(frames[1]) = 1
          BY <1>4
        <4>2. QED
          BY <1>6, <2>1, <4>1
      <3>2. k < Len(frames) /\ k # Len(frames)
        <4>1. Len(frames) \in Nat /\ Len(frames) >= 3
          BY <1>4
        <4>2. \A n \in Nat : n >= 3 => 1 < n /\ 1 # n
          OBVIOUS
        <4>3. 1 < Len(frames) /\ 1 # Len(frames)
          BY <4>1, <4>2, Zenon
        <4>4. QED
          BY <1>6, <4>3
      <3>3. slot = k + 1 /\ pos = 1
        BY <1>1, <3>1, <3>2 DEF Follows
      <3>4. QED
        BY <1>6, <3>3
    <2>5. mBuffer' = <<>> /\ rx' = <<>> /\ UNCHANGED <<mLockedProtocol, mLockedChecksum>>
      BY <1>3, <2>2, <2>3 DEF Answer, fbVars
    <2>6. Replying'
      BY <1>2, <2>4, <2>5 DEF Replying
    <2>7. QED
      BY <1>2, <2>1, <2>3, <2>5, <2>6 DEF LocksFit
  <1>7. CASE k # 1
    <2>1. k \in 2 .. Len(frames) /\ k \in Nat /\ k >= 2
      BY <1>1, <1>4, <1>7
    <2>2. mBuffer = SubSeq(frames[k], 1, i - 1) /\ mSequence = Heard(frames, k)
      BY <1>1, <1>7 DEF Expects
    <2>3. ExpectsRequest => frames[k][i] # HMI_MESSAGE_IDENTIFIER
      BY <1>1, <1>2, <2>1, <2>2 DEF QuietBuses, ExpectsRequest
    <2>4. Parse /\ ~Answer
      BY <1>3, <2>3 DEF IsRequest, Answer
    <2>5. IsFrame(frames[k], bus.version, bus.checksum)
      BY <1>4, <2>1
    <2>6. PushByte(frames[k][i]) /\ rx' = <<>>
          /\ mSequence' = (IF returned' > 0 THEN PushOverwrite(returned') ELSE mSequence)
      BY <1>3, <2>4 DEF Parse
    <2>7. /\ UNCHANGED <<mLockedProtocol, mLockedChecksum>>
          /\ i < Len(frames[k]) => mBuffer' = SubSeq(frames[k], 1, i) /\ returned' = 0
          /\ i = Len(frames[k]) => mBuffer' = <<>> /\ returned' = frames[k][1]
      BY <1>1, <1>2, <1>4, <2>2, <2>5, <2>6, PushFrameByte
    <2>8. LocksFit'
      BY <1>2, <2>7 DEF LocksFit
    <2>9. frames[k][1] \in FrameIds
      BY <1>4, <2>5, FrameShape
    <2>10. CASE i < Len(frames[k])
      <3>1. mSequence' = Heard(frames, k)
        BY <2>2, <2>6, <2>7, <2>10
      <3>2. frames = Frames /\ slot = k /\ pos = i + 1
        BY <1>1, <2>10 DEF Follows
      <3>3. mBuffer' = SubSeq(Frames[k], 1, pos - 1)
        BY <1>1, <2>7, <2>10, <3>2
      <3>4. AllRead'
        BY <1>2, <1>7, <2>6, <3>1, <3>2, <3>3 DEF AllRead, Expects
      <3>5. QED
        BY <1>3, <1>7, <2>4, <2>8, <3>4
    <2>11. CASE i = Len(frames[k])
      <3>1. returned' > 0 /\ returned' = frames[k][1]
        BY <2>7, <2>9, <2>11 DEF FrameIds, HMI_MESSAGE_IDENTIFIER, MAIN_MESSAGE_IDENTIFIER,
             ENERGY_MESSAGE_IDENTIFIER, ERROR_MESSAGE_IDENTIFIER, EXTRA_MESSAGE_IDENTIFIER
      <3>2. mSequence' = Heard(frames, k + 1)
        BY <2>1, <2>2, <2>6, <3>1, HeardNext
      <3>3. CASE k < Len(frames)
        <4>1. frames = Frames /\ slot = k + 1 /\ pos = 1
          BY <1>1, <1>4, <2>11, <3>3 DEF Follows
        <4>2. mBuffer' = SubSeq(Frames'[slot], 1, pos - 1)
          BY <1>5, <2>7, <2>11, <4>1
        <4>3. slot # 1
          BY <2>1, <4>1
        <4>4. AllRead'
          BY <1>2, <2>6, <3>2, <4>1, <4>2, <4>3 DEF AllRead, Expects
        <4>5. QED
          BY <1>3, <1>7, <2>4, <2>8, <4>4
      <3>4. CASE k = Len(frames)
        <4>1. slot = 1
          BY <1>1, <1>4, <2>11, <3>4 DEF Follows
        <4>2. Heard(frames, k + 1) = <<frames[k - 1][1], frames[k][1]>>
          <5>1. k + 1 > 3 /\ (k + 1) - 2 = k - 1 /\ (k + 1) - 1 = k
            BY <1>4, <3>4
          <5>2. QED
            BY <5>1 DEF Heard
        <4>3. mSequence' \in RequestSequences
          BY <1>4, <3>2, <3>4, <4>2 DEF IsCycle
        <4>4. AllRead'
          BY <1>2, <2>6, <2>7, <2>11, <4>1, <4>3 DEF AllRead, Expects, ExpectsRequest
        <4>5. QED
          BY <1>3, <1>7, <2>4, <2>8, <4>4
      <3>5. QED
        BY <2>1, <3>3, <3>4
    <2>12. QED
      BY <1>4, <2>1, <1>1, <2>10, <2>11
  <1>8. QED
    BY <1>6, <1>7

\* After the request the first frame of its cycle begins.
LEMMA AdvanceFromRequest ==
    ASSUME TypeInv, Advance, slot = 1
    PROVE  slot' = 2 /\ pos' = 1
  <1>1. /\ Len(Frames) \in Nat /\ Len(Frames) >= 3
        /\ Len(Frames[1]) = 1
    BY CyclesOfBus DEF TypeInv, TypeOK, Frames
  <1>2. pos = 1
    BY <1>1 DEF TypeInv, TypeOK
  <1>3. ~(pos < Len(Frames[slot]))
    BY <1>1, <1>2
  <1>4. slot # Len(Frames)
    <2>1. \A n \in Nat : n >= 3 => 1 # n
      OBVIOUS
    <2>2. QED
      BY <1>1, <2>1, Zenon
  <1>5. QED
    BY <1>3, <1>4 DEF Advance

\* A request waiting alone in the receive buffer is followed by the first frame.
LEMMA RequestBeginsNext ==
    ASSUME TypeInv, RequestBegins, [Next]_vars
    PROVE  RequestBegins'
  <1>1. rx \in Seq(RxByte)
    BY DEF TypeInv, TypeOK
  <1>2. ASSUME NextByteArrives, Advance
        PROVE  RequestBegins'
    <2> DEFINE new == [val |-> Frames[slot][pos], trigger |-> (slot = 1)]
    <2>1. rx' = Append(rx, new)
      BY <1>2 DEF NextByteArrives, Arrives
    <2>2. new \in RxByte
      BY NextByteTyped DEF RxByte
    <2>3. rx'[Len(rx')] = new
      <3> HIDE DEF new
      <3>1. Len(rx') = Len(rx) + 1 /\ rx'[Len(rx) + 1] = new
        BY <1>1, <2>1, <2>2, AppendProperties
      <3>2. QED
        BY <3>1
    <2>4. rx'[Len(rx')].trigger = (slot = 1)
      BY <2>3
    <2>5. QED
      BY <1>2, <2>4, AdvanceFromRequest DEF RequestBegins
  <1>3. ASSUME NEW val \in Noise, Arrives(val, FALSE)
        PROVE  RequestBegins'
    <2> DEFINE new == [val |-> val, trigger |-> FALSE]
    <2>1. new \in RxByte
      BY MainBusAssumption DEF RxByte
    <2>2. rx'[Len(rx')] = new
      <3> HIDE DEF new
      <3>1. rx' = Append(rx, new)
        BY <1>3 DEF Arrives, new
      <3>2. Len(rx') = Len(rx) + 1 /\ rx'[Len(rx) + 1] = new
        BY <1>1, <2>1, <3>1, AppendProperties
      <3>3. QED
        BY <3>2
    <2>3. QED
      BY <2>2 DEF RequestBegins
  <1>4. ASSUME rx # <<>>, rx' = Tail(rx), UNCHANGED lineVars
        PROVE  RequestBegins'
    <2>1. /\ Len(Tail(rx)) = Len(rx) - 1
          /\ \A j \in 1 .. Len(Tail(rx)) : Tail(rx)[j] = rx[j + 1]
          /\ Tail(rx) \in Seq(RxByte)
      BY <1>1, <1>4, HeadTailProperties
    <2>2. SUFFICES ASSUME Tail(rx) # <<>>, Tail(rx)[Len(Tail(rx))].trigger
                   PROVE  slot = 2 /\ pos = 1
      BY <1>4 DEF RequestBegins, lineVars
    <2>3. Len(Tail(rx)) \in Nat \ {0} /\ Len(rx) \in Nat
      BY <1>1, <2>1, <2>2, EmptySeq, LenProperties
    <2>4. Tail(rx)[Len(Tail(rx))] = rx[Len(rx)]
      BY <2>1, <2>3
    <2>5. QED
      BY <1>4, <2>2, <2>4 DEF RequestBegins
  <1>5. CASE BusByte \/ LateByte
    BY <1>2, <1>5 DEF BusByte, LateByte
  <1>6. CASE AlterByte
    BY <1>3, <1>6 DEF AlterByte
  <1>7. CASE rx' = <<>>
    BY <1>7 DEF RequestBegins
  <1>8. CASE LoseByte
    BY <1>7, <1>8 DEF LoseByte, taskVars
  <1>9. CASE TaskAnswers
    BY <1>4, <1>9 DEF TaskAnswers, Answer, lineVars
  <1>10. CASE TaskParses
    BY <1>4, <1>10 DEF TaskParses, Parse, lineVars
  <1>11. CASE HmiReady \/ UNCHANGED vars
    <2>1. UNCHANGED <<rx, slot, pos>>
      BY <1>11 DEF HmiReady, HmiFrameStored, busVars, vars, taskVars
    <2>2. QED
      BY <2>1 DEF RequestBegins
  <1>12. CASE TaskFlushes
    BY <1>7, <1>12 DEF TaskFlushes, Flush
  <1>13. QED
    BY <1>5, <1>6, <1>8, <1>9, <1>10, <1>11, <1>12 DEF Next, TaskReads

\* A request that is recognised at a frame boundary puts the task in step.
LEMMA AnswerGetsInStep ==
    ASSUME TypeInv, RequestBegins, Answer, UNCHANGED lineVars,
           Head(rx).trigger, Len(rx) = 1, mBuffer = <<>>
    PROVE  Replying'
  <1>1. slot = 2 /\ pos = 1
    <2>1. rx[Len(rx)] = Head(rx) /\ rx # <<>>
      BY DEF Answer, TypeInv, TypeOK
    <2>2. QED
      BY <2>1 DEF RequestBegins
  <1>2. Tail(rx) = <<>>
    <2>1. rx \in Seq(RxByte) /\ rx # <<>>
      BY DEF Answer, TypeInv, TypeOK
    <2>2. Len(Tail(rx)) = 0 /\ Tail(rx) \in Seq(RxByte)
      BY <2>1, HeadTailProperties
    <2>3. QED
      BY <2>2, EmptySeq
  <1>3. mBuffer' = <<>> /\ rx' = <<>> /\ slot' = 2 /\ pos' = 1
    BY <1>1, <1>2 DEF Answer, fbVars, lineVars
  <1>4. QED
    BY <1>3 DEF Replying

\* Once the answer is sent the task is ready for the first frame of the cycle.
LEMMA FlushInStep ==
    ASSUME Replying, Flush, UNCHANGED lineVars
    PROVE  AllRead'
  <1>1. mBuffer' = <<>> /\ mSequence' = <<>> /\ rx' = <<>> /\ slot' = 2 /\ pos' = 1
    BY DEF Replying, Flush, fbVars, lineVars
  <1>2. mBuffer' = SubSeq(Frames'[2], 1, 1 - 1) /\ mSequence' = Heard(Frames', 2)
    BY <1>1, SubSeqEmpty DEF Heard
  <1>3. QED
    BY <1>1, <1>2 DEF AllRead, Expects

\* InStep is about these variables only.
LEMMA InStepStutter ==
    ASSUME InStep, UNCHANGED <<mBuffer, mSequence, rx, sending, lineVars>>
    PROVE  InStep'
  <1>1. UNCHANGED <<mBuffer, mSequence, rx, sending, bus, cycle, slot, pos>>
    BY DEF lineVars
  <1>2. Frames' = Frames
    BY <1>1 DEF Frames
  <1>3. \A frames, k, i : Expects(frames, k, i)' <=> Expects(frames, k, i)
    BY <1>1 DEF Expects, ExpectsRequest
  <1>4. \A frames, k, i : Follows(frames, k, i)' <=> Follows(frames, k, i)
    BY <1>1, <1>2 DEF Follows
  <1>5. AllRead => AllRead'
    BY <1>1, <1>2, <1>3 DEF AllRead
  <1>6. OneToRead => OneToRead'
    BY <1>1, <1>3, <1>4 DEF OneToRead
  <1>7. Replying => Replying'
    BY <1>1 DEF Replying
  <1>8. QED
    BY <1>1, <1>5, <1>6, <1>7 DEF InStep

\* A task in step stays in step, but for a fault.
LEMMA SyncInvNext ==
    ASSUME QuietBuses, TypeInv, SyncInv, [Next]_vars
    PROVE  /\ SyncInv'
           /\ synced /\ faults' = faults => synced'
           /\ synced /\ ~sending /\ sending' => Head(rx).trigger
  <1>1. RequestBegins' /\ RequestBegins /\ (synced => LocksFit /\ InStep)
    BY RequestBeginsNext DEF SyncInv
  <1>2. faults \in Nat
    BY MainBusAssumption DEF TypeInv, TypeOK
  <1>3. CASE LoseByte \/ AlterByte \/ LateByte
    <2>1. Fault
      BY <1>3 DEF LoseByte, AlterByte, LateByte
    <2>2. ~synced' /\ faults' # faults
      BY <1>2, <2>1 DEF Fault
    <2>3. sending' = sending
      BY <1>3 DEF LoseByte, AlterByte, LateByte, taskVars, NextByteArrives, Arrives
    <2>4. QED
      BY <1>1, <2>2, <2>3 DEF SyncInv
  <1>4. CASE BusByte
    <2>1. synced' = synced /\ UNCHANGED <<mLockedProtocol, mLockedChecksum, bus, sending>>
      BY <1>4 DEF BusByte, NextByteArrives, Arrives, Advance, fbVars
    <2>2. synced => LocksFit' /\ InStep'
      BY <1>1, <1>4, <2>1, BusByteInStep DEF LocksFit
    <2>3. QED
      BY <1>1, <2>1, <2>2 DEF SyncInv
  <1>5. CASE TaskAnswers \/ TaskParses
    <2>1. (Answer \/ Parse) /\ UNCHANGED lineVars /\ faults' = faults /\ rx # <<>> /\ ~sending
      BY <1>5 DEF TaskAnswers, TaskParses, Answer, Parse, lineVars
    <2>2. synced => OneToRead
      BY <1>1, <2>1 DEF InStep, AllRead
    <2>3. synced => /\ LocksFit'
                    /\ Answer => Head(rx).trigger /\ Replying'
                    /\ Parse => ~Head(rx).trigger /\ AllRead'
      BY <1>1, <2>1, <2>2, ReadInStep
    <2>4. CASE TaskAnswers
      <3>1. Answer /\ sending' = TRUE
        BY <2>4 DEF TaskAnswers, Answer
      <3>2. CASE Head(rx).trigger
        <4>1. synced' = (Len(rx) = 1 /\ mBuffer = <<>> /\ LocksFit)
          BY <2>4, <3>2 DEF TaskAnswers
        <4>2. synced' => Replying' /\ LocksFit'
          <5>1. UNCHANGED <<mLockedProtocol, mLockedChecksum, bus>>
            BY <2>1, <3>1 DEF Answer, fbVars, lineVars
          <5>2. QED
            BY <1>1, <2>1, <3>1, <3>2, <4>1, <5>1, AnswerGetsInStep DEF LocksFit
        <4>3. synced => synced'
          <5>1. SUFFICES ASSUME synced
                         PROVE  Len(rx) = 1 /\ mBuffer = <<>> /\ LocksFit
            BY <4>1
          <5>2. PICK kind, k, i :
                  /\ rx = << [val |-> bus[kind][k][i], trigger |-> (k = 1)] >>
                  /\ Expects(bus[kind], k, i)
            BY <2>2, <5>1 DEF OneToRead
          <5>3. Len(rx) = 1 /\ Head(rx).trigger = (k = 1)
            BY <5>2
          <5>4. mBuffer = <<>>
            BY <3>2, <5>2, <5>3 DEF Expects
          <5>5. QED
            BY <1>1, <5>1, <5>3, <5>4
        <4>4. QED
          BY <1>1, <3>1, <3>2, <4>2, <4>3 DEF SyncInv, InStep
      <3>3. CASE ~Head(rx).trigger
        <4>1. ~synced /\ synced' = synced
          BY <2>3, <2>4, <3>1, <3>3 DEF TaskAnswers
        <4>2. QED
          BY <1>1, <4>1 DEF SyncInv
      <3>4. QED
        BY <3>2, <3>3
    <2>5. CASE TaskParses
      <3>1. Parse /\ sending' = FALSE
        BY <2>1, <2>5 DEF TaskParses, Parse
      <3>2. CASE Head(rx).trigger
        <4>1. ~synced /\ ~synced'
          BY <2>3, <2>5, <3>1, <3>2 DEF TaskParses
        <4>2. QED
          BY <1>1, <4>1 DEF SyncInv
      <3>3. CASE ~Head(rx).trigger
        <4>1. synced' = synced
          BY <2>5, <3>3 DEF TaskParses
        <4>2. QED
          BY <1>1, <2>3, <3>1, <4>1 DEF SyncInv, InStep
      <3>4. QED
        BY <3>2, <3>3
    <2>6. QED
      BY <1>5, <2>4, <2>5
  <1>6. CASE HmiReady \/ UNCHANGED vars
    <2>1. UNCHANGED <<mBuffer, mLockedProtocol, mLockedChecksum, mSequence, rx, sending, synced,
                      lineVars>>
      BY <1>6 DEF HmiReady, HmiFrameStored, fbVars, busVars, vars, taskVars, lineVars
    <2>2. synced => InStep' /\ LocksFit'
      BY <1>1, <2>1, InStepStutter DEF LocksFit, lineVars
    <2>3. QED
      BY <1>1, <2>1, <2>2 DEF SyncInv
  <1>7. CASE TaskFlushes
    <2>1. /\ Flush /\ UNCHANGED lineVars /\ synced' = synced /\ sending /\ sending' = FALSE
          /\ UNCHANGED <<mLockedProtocol, mLockedChecksum, bus>>
      BY <1>7 DEF TaskFlushes, Flush, fbVars, busVars, lineVars
    <2>2. synced => AllRead' /\ LocksFit'
      BY <1>1, <2>1, FlushInStep DEF InStep, LocksFit
    <2>3. QED
      BY <1>1, <2>1, <2>2 DEF SyncInv, InStep
  <1>8. QED
    BY <1>3, <1>4, <1>5, <1>6, <1>7 DEF Next, TaskReads

\* A task that is in sync is in step, in every state.
LEMMA SyncInductive == ASSUME QuietBuses PROVE Spec => []SyncInv
  <1>1. Init => SyncInv
    BY DEF Init, TaskInit, BusInit, SyncInv, RequestBegins
  <1>2. TypeInv /\ SyncInv /\ [Next]_vars => SyncInv'
    BY SyncInvNext
  <1>3. QED
    BY <1>1, <1>2, MainBusTypeInductive, PTL DEF Spec

-----------------------------------------------------------------------------

\* In sync the task recognises every request, as long as no byte is lost,
\* altered or late: whatever data the frames hold, and whenever the controller
\* puts an error frame into its cycle.
THEOREM MainBusStaysInSync == ASSUME QuietBuses PROVE Spec => StaysInSync
  <1>1. TypeInv /\ SyncInv /\ [Next]_vars => [synced /\ faults' = faults => synced']_vars
    BY SyncInvNext
  <1>2. QED
    BY <1>1, MainBusTypeInductive, SyncInductive, PTL DEF Spec, StaysInSync

\* In sync the task transmits only when the controller asks: a byte 194 in a
\* frame is never answered.
THEOREM MainBusNeverTalksOver == ASSUME QuietBuses PROVE Spec => NeverTalksOver
  <1>1. TypeInv /\ SyncInv /\ [Next]_vars
          => [synced /\ ~sending /\ sending' => Head(rx).trigger]_vars
    BY SyncInvNext
  <1>2. QED
    BY <1>1, MainBusTypeInductive, SyncInductive, PTL DEF Spec, NeverTalksOver

-----------------------------------------------------------------------------
(* The bytes of a cycle *)

\* The bytes of the frames before frame k add up.
LEMMA BytesBeforeNext ==
    ASSUME NEW b \in Buses, NEW kind \in CycleKinds
    PROVE  /\ BytesBefore(b[kind], 1) = 0
           /\ \A k \in 1 .. Len(b[kind]) :
                 BytesBefore(b[kind], k + 1) = BytesBefore(b[kind], k) + Len(b[kind][k])
           /\ \A k \in 1 .. Len(b[kind]) + 1 :
                 /\ BytesBefore(b[kind], k) \in Nat
                 /\ BytesBefore(b[kind], k) <= BytesBefore(b[kind], Len(b[kind]) + 1)
  <1> DEFINE frames == b[kind]
             n == Len(frames)
             All == (1 .. n) \X (1 .. HEATPUMP_MAX_FRAME_LENGTH)
             Until(k) == { byte \in All : byte[1] < k /\ byte[2] <= Len(frames[byte[1]]) }
  <1>1. n \in Nat /\ n >= 3
    BY CyclesOfBus
  <1>2. HEATPUMP_MAX_FRAME_LENGTH \in Nat /\ HEATPUMP_MAX_FRAME_LENGTH >= 1
    BY FrameBufferAssumption
  <1>3. \A k \in 1 .. n : Len(frames[k]) \in Nat /\ Len(frames[k]) <= HEATPUMP_MAX_FRAME_LENGTH
    <2> SUFFICES ASSUME NEW k \in 1 .. n
                 PROVE  Len(frames[k]) \in Nat /\ Len(frames[k]) <= HEATPUMP_MAX_FRAME_LENGTH
      OBVIOUS
    <2>1. CASE k = 1
      <3>1. Len(frames[1]) = 1
        BY CyclesOfBus
      <3>2. QED
        BY <1>2, <2>1, <3>1
    <2>2. CASE k # 1
      <3>1. IsFrame(frames[k], b.version, b.checksum) /\ b.version \in Protocols
            /\ b.checksum \in IF b.version \in XorOnlyProtocols THEN {"XOR"} ELSE {"XOR", "CRC16"}
        <4>1. k > 1
          BY <1>1, <2>2
        <4>2. QED
          BY <4>1, CyclesOfBus
      <3>2. QED
        BY <3>1, FrameShape
    <2>3. QED
      BY <2>1, <2>2
  <1>4. IsFiniteSet(All)
    <2>1. IsFiniteSet(1 .. n) /\ IsFiniteSet(1 .. HEATPUMP_MAX_FRAME_LENGTH)
      BY <1>1, <1>2, FS_Interval, SMTT(20)
    <2>2. QED
      BY <2>1, FS_Product
  <1>5. \A k : IsFiniteSet(Until(k)) /\ Cardinality(Until(k)) \in Nat
    <2> SUFFICES ASSUME NEW k PROVE IsFiniteSet(Until(k)) /\ Cardinality(Until(k)) \in Nat
      OBVIOUS
    <2>1. Until(k) \in SUBSET All
      OBVIOUS
    <2> HIDE DEF All, Until
    <2>2. QED
      BY <1>4, <2>1, FS_Subset, FS_CardinalityType
  <1>6. \A k : BytesBefore(frames, k) = Cardinality(Until(k))
    BY DEF BytesBefore
  <1>7. BytesBefore(frames, 1) = 0
    <2>1. Until(1) = {}
      BY <1>1
    <2>2. QED
      BY <1>6, <2>1, FS_EmptySet
  <1>8. ASSUME NEW k \in 1 .. n
        PROVE  BytesBefore(frames, k + 1) = BytesBefore(frames, k) + Len(frames[k])
    <2> DEFINE l == Len(frames[k])
               These == {k} \X (1 .. l)
    <2>0. l \in Nat /\ l <= HEATPUMP_MAX_FRAME_LENGTH
      BY <1>3
    <2>1. Until(k + 1) = Until(k) \cup These
      <3>1. ASSUME NEW byte \in Until(k + 1) PROVE byte \in Until(k) \cup These
        <4>1. byte[1] \in 1 .. n /\ byte[2] \in 1 .. HEATPUMP_MAX_FRAME_LENGTH
              /\ byte[1] < k + 1 /\ byte[2] <= Len(frames[byte[1]]) /\ byte = <<byte[1], byte[2]>>
          BY <3>1
        <4>2. CASE byte[1] = k
          BY <2>0, <4>1, <4>2
        <4>3. CASE byte[1] # k
          <5>1. byte[1] < k
            BY <4>1, <4>3
          <5>2. QED
            BY <4>1, <5>1
        <4>4. QED
          BY <4>2, <4>3
      <3>2. ASSUME NEW byte \in These PROVE byte \in Until(k + 1)
        <4>1. byte[1] = k /\ byte[2] \in 1 .. l /\ byte = <<byte[1], byte[2]>>
          BY <3>2
        <4>2. byte[1] < k + 1 /\ byte[2] <= Len(frames[byte[1]])
          BY <2>0, <4>1
        <4>3. byte[2] \in 1 .. HEATPUMP_MAX_FRAME_LENGTH
          BY <1>2, <2>0, <4>1
        <4>4. QED
          BY <4>1, <4>2, <4>3
      <3>3. ASSUME NEW byte \in Until(k) PROVE byte \in Until(k + 1)
        <4>1. byte[1] \in 1 .. n /\ byte[1] < k
          BY <3>3
        <4>2. byte[1] < k + 1
          BY <4>1
        <4>3. QED
          BY <3>3, <4>2
      <3>4. QED
        BY <3>1, <3>2, <3>3
    <2>2. Until(k) \cap These = {}
      BY <1>1
    <2>3. IsFiniteSet(These) /\ Cardinality(These) = l
      <3>1. IsFiniteSet({k}) /\ Cardinality({k}) = 1
        BY FS_Singleton
      <3>2. IsFiniteSet(1 .. l) /\ Cardinality(1 .. l) = l
        <4>1. Cardinality(1 .. l) = (IF 1 > l THEN 0 ELSE l - 1 + 1) /\ IsFiniteSet(1 .. l)
          <5>1. 1 \in Int /\ l \in Int
            BY <2>0
          <5> HIDE DEF l
          <5>2. QED
            BY <5>1, FS_Interval
        <4>2. QED
          BY <2>0, <4>1
      <3>3. IsFiniteSet(These) /\ Cardinality(These) = 1 * l
        BY <3>1, <3>2, FS_Product, SMTT(20)
      <3>4. QED
        BY <2>0, <3>3
    <2>4. Cardinality(Until(k + 1)) = Cardinality(Until(k)) + l - Cardinality({})
      <3>1. IsFiniteSet(Until(k))
        BY <1>5
      <3> HIDE DEF Until, These, l
      <3>2. QED
        BY <2>1, <2>2, <2>3, <3>1, FS_Union
    <2>5. QED
      <3>1. Cardinality({}) = 0 /\ Cardinality(Until(k)) \in Nat
        BY <1>5, FS_EmptySet
      <3>2. BytesBefore(frames, k + 1) = Cardinality(Until(k + 1))
            /\ BytesBefore(frames, k) = Cardinality(Until(k))
        BY <1>6
      <3> HIDE DEF Until
      <3>3. QED
        BY <2>0, <2>4, <3>1, <3>2
  <1>9. ASSUME NEW k \in 1 .. n + 1
        PROVE  BytesBefore(frames, k) \in Nat
               /\ BytesBefore(frames, k) <= BytesBefore(frames, n + 1)
    <2>1. \A byte \in Until(k) : byte \in Until(n + 1)
      <3> SUFFICES ASSUME NEW byte \in Until(k) PROVE byte[1] < n + 1
        OBVIOUS
      <3>1. byte[1] \in 1 .. n
        OBVIOUS
      <3>2. QED
        BY <1>1, <3>1
    <2>2. Until(k) \in SUBSET Until(n + 1)
      BY <2>1
    <2>3. IsFiniteSet(Until(n + 1)) /\ Cardinality(Until(k)) \in Nat
      BY <1>5
    <2>4. BytesBefore(frames, k) = Cardinality(Until(k))
          /\ BytesBefore(frames, n + 1) = Cardinality(Until(n + 1))
      BY <1>6
    <2> HIDE DEF Until
    <2>5. QED
      BY <2>2, <2>3, <2>4, FS_Subset
  <1>10. QED
    BY <1>7, <1>8, <1>9

-----------------------------------------------------------------------------
(* Places on the line *)

\* Byte pos of frame slot in a cycle of that kind.
IsPlace(p) ==
    /\ p.kind \in CycleKinds
    /\ p.slot \in 1 .. Len(bus[p.kind])
    /\ p.pos \in 1 .. Len(bus[p.kind][p.slot])

\* The frame a place is in, and the byte there.
FrameAt(p) == bus[p.kind][p.slot]

ByteAt(p) == FrameAt(p)[p.pos]

\* Which byte of its cycle it is, and how many bytes the cycle has.
InCycle(p) == BytesBefore(bus[p.kind], p.slot) + p.pos

CycleLen(kind) == BytesBefore(bus[kind], Len(bus[kind]) + 1)

\* Where the line is.
Line == [kind |-> cycle, slot |-> slot, pos |-> pos]

\* q is the place right behind p; behind a cycle any kind of cycle may begin.
ComesAfter(p, q) ==
    \/ /\ p.pos < Len(FrameAt(p))
       /\ q.kind = p.kind /\ q.slot = p.slot /\ q.pos = p.pos + 1
    \/ /\ p.pos = Len(FrameAt(p)) /\ p.slot < Len(bus[p.kind])
       /\ q.kind = p.kind /\ q.slot = p.slot + 1 /\ q.pos = 1
    \/ /\ p.pos = Len(FrameAt(p)) /\ p.slot = Len(bus[p.kind])
       /\ q.slot = 1 /\ q.pos = 1

\* What it means for T[j] to be j - i places behind T[i].
Apart(T, i, j) ==
    /\ T[i].pos + (j - i) <= Len(FrameAt(T[i]))
          => T[j].kind = T[i].kind /\ T[j].slot = T[i].slot /\ T[j].pos = T[i].pos + (j - i)
    /\ T[i].pos + (j - i) = Len(FrameAt(T[i])) + 1
          => IF T[i].slot < Len(bus[T[i].kind])
             THEN T[j].kind = T[i].kind /\ T[j].slot = T[i].slot + 1 /\ T[j].pos = 1
             ELSE T[j].slot = 1 /\ T[j].pos = 1
    /\ InCycle(T[i]) + (j - i) <= CycleLen(T[i].kind)
          => T[j].kind = T[i].kind /\ InCycle(T[j]) = InCycle(T[i]) + (j - i)

\* T[a] to T[m] are places in a row.
Path(T, a, m) ==
    /\ \A i \in a .. m : IsPlace(T[i])
    /\ \A i \in a .. m : \A j \in i .. m : Apart(T, i, j)

\* The numbers of a place.
LEMMA PlaceNumbers ==
    ASSUME bus \in Buses, NEW p, IsPlace(p)
    PROVE  /\ p.kind \in CycleKinds
           /\ p.slot \in Nat /\ p.slot >= 1 /\ p.slot <= Len(bus[p.kind])
           /\ Len(bus[p.kind]) \in Nat /\ Len(bus[p.kind]) >= 3
           /\ p.pos \in Nat /\ p.pos >= 1 /\ p.pos <= Len(FrameAt(p))
           /\ Len(FrameAt(p)) \in Nat /\ Len(FrameAt(p)) >= 1
           /\ p.slot = 1 => Len(FrameAt(p)) = 1 /\ p.pos = 1 /\ InCycle(p) = 1
                            /\ ByteAt(p) = HMI_MESSAGE_IDENTIFIER
           /\ InCycle(p) \in Nat /\ InCycle(p) >= 1
           /\ BytesBefore(bus[p.kind], p.slot) \in Nat
           /\ BytesBefore(bus[p.kind], p.slot + 1)
                = BytesBefore(bus[p.kind], p.slot) + Len(FrameAt(p))
           /\ BytesBefore(bus[p.kind], p.slot + 1) <= CycleLen(p.kind)
           /\ CycleLen(p.kind) \in Nat
           /\ p.slot = Len(bus[p.kind])
                => BytesBefore(bus[p.kind], p.slot + 1) = CycleLen(p.kind)
           /\ p.slot > 1 => IsFrame(FrameAt(p), bus.version, bus.checksum)
           /\ ByteAt(p) \in Byte
  <1>1. p.kind \in CycleKinds /\ p.slot \in 1 .. Len(bus[p.kind])
        /\ p.pos \in 1 .. Len(FrameAt(p))
    BY DEF IsPlace, FrameAt
  <1>2. /\ Len(bus[p.kind]) \in Nat /\ Len(bus[p.kind]) >= 3
        /\ FrameAt(p) \in Seq(Byte)
        /\ Len(FrameAt(p)) \in Nat /\ Len(FrameAt(p)) >= 1
        /\ p.slot > 1 => IsFrame(FrameAt(p), bus.version, bus.checksum)
        /\ p.slot = 1 => Len(FrameAt(p)) = 1 /\ FrameAt(p)[1] = HMI_MESSAGE_IDENTIFIER
    BY <1>1, CyclesOfBus DEF FrameAt
  <1>3. /\ BytesBefore(bus[p.kind], 1) = 0
        /\ \A k \in 1 .. Len(bus[p.kind]) :
              BytesBefore(bus[p.kind], k + 1) = BytesBefore(bus[p.kind], k) + Len(bus[p.kind][k])
        /\ \A k \in 1 .. Len(bus[p.kind]) + 1 :
              /\ BytesBefore(bus[p.kind], k) \in Nat
              /\ BytesBefore(bus[p.kind], k) <= BytesBefore(bus[p.kind], Len(bus[p.kind]) + 1)
    BY <1>1, BytesBeforeNext
  <1>4. p.slot \in 1 .. Len(bus[p.kind]) + 1 /\ p.slot + 1 \in 1 .. Len(bus[p.kind]) + 1
        /\ Len(bus[p.kind]) + 1 \in 1 .. Len(bus[p.kind]) + 1
    BY <1>1, <1>2
  <1>5. /\ BytesBefore(bus[p.kind], p.slot) \in Nat
        /\ BytesBefore(bus[p.kind], p.slot + 1)
             = BytesBefore(bus[p.kind], p.slot) + Len(FrameAt(p))
        /\ BytesBefore(bus[p.kind], p.slot + 1) <= CycleLen(p.kind)
        /\ CycleLen(p.kind) \in Nat
    BY <1>1, <1>3, <1>4 DEF FrameAt, CycleLen
  <1>6. p.slot = 1 => p.pos = 1 /\ InCycle(p) = 1 /\ ByteAt(p) = HMI_MESSAGE_IDENTIFIER
    <2> SUFFICES ASSUME p.slot = 1
                 PROVE  p.pos = 1 /\ InCycle(p) = 1 /\ ByteAt(p) = HMI_MESSAGE_IDENTIFIER
      OBVIOUS
    <2>1. p.pos = 1
      <3>1. Len(FrameAt(p)) = 1
        BY <1>2
      <3>2. QED
        BY <1>1, <3>1
    <2>2. BytesBefore(bus[p.kind], p.slot) = 0
      BY <1>3
    <2>3. QED
      BY <1>2, <2>1, <2>2 DEF InCycle, ByteAt
  <1>7. InCycle(p) \in Nat /\ InCycle(p) >= 1
    BY <1>1, <1>2, <1>5 DEF InCycle
  <1>8. ByteAt(p) \in Byte
    BY <1>1, <1>2, ElementOfSeq DEF ByteAt
  <1>9. p.slot = Len(bus[p.kind]) => BytesBefore(bus[p.kind], p.slot + 1) = CycleLen(p.kind)
    BY DEF CycleLen
  <1>10. /\ p.slot \in Nat /\ p.slot >= 1 /\ p.slot <= Len(bus[p.kind])
         /\ p.pos \in Nat /\ p.pos >= 1 /\ p.pos <= Len(FrameAt(p))
    BY <1>1, <1>2
  <1>11. QED
    BY <1>1, <1>2, <1>5, <1>6, <1>7, <1>8, <1>9, <1>10, Zenon

\* Places in a row, and the one right behind.
LEMMA PathGrows ==
    ASSUME bus \in Buses, NEW T, NEW a \in Nat, NEW m \in Nat, a <= m, Path(T, a, m),
           NEW q, IsPlace(q), ComesAfter(T[m], q),
           NEW U, U[m + 1] = q, \A i \in a .. m : U[i] = T[i]
    PROVE  Path(U, a, m + 1)
  <1>1. \A i \in a .. m + 1 : IsPlace(U[i])
    <2> SUFFICES ASSUME NEW i \in a .. m + 1 PROVE IsPlace(U[i])
      OBVIOUS
    <2>1. CASE i = m + 1
      BY <2>1
    <2>2. CASE i # m + 1
      <3>1. i \in a .. m
        BY <2>2
      <3>2. QED
        BY <3>1 DEF Path
    <2>3. QED
      BY <2>1, <2>2
  <1>2. ASSUME NEW i \in a .. m + 1, NEW j \in i .. m + 1
        PROVE  Apart(U, i, j)
    <2>1. CASE j # m + 1
      <3>1. i \in a .. m /\ j \in i .. m /\ j \in a .. m
        BY <2>1
      <3>2. Apart(T, i, j) /\ U[i] = T[i] /\ U[j] = T[j]
        BY <3>1 DEF Path
      <3>3. QED
        BY <3>2 DEF Apart
    <2>2. CASE i = m + 1 /\ j = m + 1
      <3>1. j - i = 0
        BY <2>2
      <3> DEFINE p == U[i]
      <3>2. IsPlace(p)
        BY <1>1
      <3>3. /\ p.pos \in Nat /\ p.pos <= Len(FrameAt(p)) /\ Len(FrameAt(p)) \in Nat
            /\ InCycle(p) \in Nat
        BY <3>2, PlaceNumbers
      <3>4. p.pos + (j - i) = p.pos /\ InCycle(p) + (j - i) = InCycle(p)
            /\ p.pos # Len(FrameAt(p)) + 1
        BY <3>1, <3>3
      <3>5. U[j] = p
        BY <2>2
      <3> HIDE DEF p
      <3>6. QED
        BY <3>4, <3>5 DEF Apart, p
    <2>3. CASE i # m + 1 /\ j = m + 1
      <3> DEFINE p == T[i]
                 r == T[m]
                 d == m - i
      <3>1. i \in a .. m /\ m \in i .. m /\ d \in Nat /\ j - i = d + 1
        BY <2>3
      <3>2. U[i] = p /\ U[j] = q /\ IsPlace(p) /\ IsPlace(r)
        BY <2>3, <3>1 DEF Path
      <3>3. Apart(T, i, m)
        BY <3>1 DEF Path
      <3>4. /\ p.pos + d <= Len(FrameAt(p))
                 => r.kind = p.kind /\ r.slot = p.slot /\ r.pos = p.pos + d
            /\ InCycle(p) + d <= CycleLen(p.kind)
                 => r.kind = p.kind /\ InCycle(r) = InCycle(p) + d
        BY <3>3 DEF Apart
      <3>5. /\ p.pos \in Nat /\ p.pos <= Len(FrameAt(p)) /\ Len(FrameAt(p)) \in Nat
            /\ p.slot \in Nat /\ p.slot <= Len(bus[p.kind]) /\ Len(bus[p.kind]) \in Nat
            /\ InCycle(p) \in Nat /\ CycleLen(p.kind) \in Nat
        BY <3>2, PlaceNumbers
      <3>6. /\ r.pos \in Nat /\ r.pos <= Len(FrameAt(r)) /\ Len(FrameAt(r)) \in Nat
            /\ r.slot \in Nat /\ r.slot <= Len(bus[r.kind]) /\ Len(bus[r.kind]) \in Nat
            /\ InCycle(r) \in Nat /\ BytesBefore(bus[r.kind], r.slot) \in Nat
            /\ BytesBefore(bus[r.kind], r.slot + 1)
                 = BytesBefore(bus[r.kind], r.slot) + Len(FrameAt(r))
            /\ r.slot = Len(bus[r.kind])
                => BytesBefore(bus[r.kind], r.slot + 1) = CycleLen(r.kind)
        BY <3>2, PlaceNumbers
      <3>7. ComesAfter(r, q)
        OBVIOUS
      <3> HIDE DEF p, r, d
      <3>8. ASSUME p.pos + (d + 1) <= Len(FrameAt(p))
            PROVE  q.kind = p.kind /\ q.slot = p.slot /\ q.pos = p.pos + (d + 1)
        <4>1. r.kind = p.kind /\ r.slot = p.slot /\ r.pos = p.pos + d
          BY <3>1, <3>4, <3>5, <3>8
        <4>2. FrameAt(r) = FrameAt(p)
          BY <4>1 DEF FrameAt
        <4>3. r.pos < Len(FrameAt(r))
          BY <3>1, <3>5, <3>8, <4>1, <4>2
        <4>4. QED
          BY <3>1, <3>5, <3>6, <3>7, <4>1, <4>3, SMTT(20) DEF ComesAfter
      <3>9. ASSUME p.pos + (d + 1) = Len(FrameAt(p)) + 1
            PROVE  IF p.slot < Len(bus[p.kind])
                   THEN q.kind = p.kind /\ q.slot = p.slot + 1 /\ q.pos = 1
                   ELSE q.slot = 1 /\ q.pos = 1
        <4>1. r.kind = p.kind /\ r.slot = p.slot /\ r.pos = p.pos + d
          BY <3>1, <3>4, <3>5, <3>9
        <4>2. FrameAt(r) = FrameAt(p)
          BY <4>1 DEF FrameAt
        <4>3. r.pos = Len(FrameAt(r))
          BY <3>1, <3>5, <3>9, <4>1, <4>2
        <4>4. QED
          BY <3>5, <3>6, <3>7, <4>1, <4>3, SMTT(20) DEF ComesAfter
      <3>10. ASSUME InCycle(p) + (d + 1) <= CycleLen(p.kind)
             PROVE  q.kind = p.kind /\ InCycle(q) = InCycle(p) + (d + 1)
        <4>1. r.kind = p.kind /\ InCycle(r) = InCycle(p) + d
          BY <3>1, <3>4, <3>5, <3>10
        <4>2. InCycle(r) < CycleLen(r.kind)
          BY <3>1, <3>5, <3>10, <4>1
        <4>3. CASE r.pos < Len(FrameAt(r))
          <5>1. q.kind = r.kind /\ q.slot = r.slot /\ q.pos = r.pos + 1
            BY <3>6, <3>7, <4>3 DEF ComesAfter
          <5>2. InCycle(q) = InCycle(r) + 1
            BY <3>6, <5>1 DEF InCycle
          <5>3. QED
            BY <3>1, <3>5, <4>1, <5>1, <5>2
        <4>4. CASE r.pos = Len(FrameAt(r))
          <5>1. InCycle(r) = BytesBefore(bus[r.kind], r.slot + 1)
            BY <3>6, <4>4 DEF InCycle
          <5>2. r.slot # Len(bus[r.kind])
            BY <3>5, <3>6, <4>1, <4>2, <5>1
          <5>3. q.kind = r.kind /\ q.slot = r.slot + 1 /\ q.pos = 1
            BY <3>6, <3>7, <4>4, <5>2 DEF ComesAfter
          <5>4. InCycle(q) = InCycle(r) + 1
            BY <3>6, <5>1, <5>3 DEF InCycle
          <5>5. QED
            BY <3>1, <3>5, <4>1, <5>3, <5>4
        <4>5. QED
          BY <3>6, <4>3, <4>4
      <3>11. QED
        BY <3>1, <3>2, <3>8, <3>9, <3>10 DEF Apart
    <2>4. QED
      BY <2>1, <2>2, <2>3
  <1>3. QED
    BY <1>1, <1>2 DEF Path

\* Fewer places in a row.
LEMMA PathWithin ==
    ASSUME NEW T, NEW a \in Nat, NEW m \in Nat, Path(T, a, m),
           NEW b \in Nat, NEW l \in Nat, a <= b, l <= m
    PROVE  Path(T, b, l)
  <1>1. \A i \in b .. l : i \in a .. m /\ \A j \in i .. l : j \in i .. m
    OBVIOUS
  <1>2. QED
    BY <1>1 DEF Path

\* The places counted from c places later on.
Shift(T, c) == [i \in Nat |-> T[i + c]]

\* A row is one from wherever its places are counted.
LEMMA PathShift ==
    ASSUME NEW T, NEW a \in Nat, NEW m \in Nat, Path(T, a, m),
           NEW c \in Nat, NEW b \in Nat, NEW l \in Nat, a <= b + c, l + c <= m
    PROVE  Path(Shift(T, c), b, l)
  <1> DEFINE U == Shift(T, c)
  <1>1. \A i \in b .. l : i + c \in a .. m /\ i \in Nat
    OBVIOUS
  <1>2. \A i \in b .. l : U[i] = T[i + c]
    BY <1>1 DEF Shift
  <1> HIDE DEF U
  <1>3. \A i \in b .. l : IsPlace(U[i])
    BY <1>1, <1>2 DEF Path
  <1>4. ASSUME NEW i \in b .. l, NEW j \in i .. l
        PROVE  Apart(U, i, j)
    <2>1. i + c \in a .. m /\ j + c \in (i + c) .. m /\ j \in b .. l
          /\ (j + c) - (i + c) = j - i
      OBVIOUS
    <2>2. Apart(T, i + c, j + c)
      BY <2>1 DEF Path
    <2>3. U[i] = T[i + c] /\ U[j] = T[j + c]
      BY <1>2, <2>1
    <2>4. QED
      BY <2>1, <2>2, <2>3 DEF Apart
  <1>5. Path(U, b, l)
    BY <1>3, <1>4 DEF Path
  <1>6. QED
    BY <1>5 DEF U

\* Path is about the bus alone.
LEMMA PathStutter ==
    ASSUME bus' = bus, NEW T, NEW a, NEW m, Path(T, a, m)
    PROVE  Path(T, a, m)'
  <1>1. \A p : IsPlace(p) => IsPlace(p)'
    BY DEF IsPlace
  <1>2. \A i, j : Apart(T, i, j) => Apart(T, i, j)'
    BY DEF Apart, FrameAt, InCycle, CycleLen, BytesBefore
  <1>3. QED
    BY <1>1, <1>2 DEF Path

\* The line moves on to a place right behind.
LEMMA LineComesAfter ==
    ASSUME TypeInv, Advance
    PROVE  IsPlace(Line) /\ IsPlace(Line') /\ ComesAfter(Line, Line')
  <1>1. /\ bus \in Buses /\ bus' = bus /\ cycle \in CycleKinds
        /\ slot \in 1 .. Len(bus[cycle]) /\ pos \in 1 .. Len(bus[cycle][slot])
    BY DEF TypeInv, TypeOK, Frames, Advance
  <1>2. /\ cycle' \in CycleKinds
        /\ slot' \in 1 .. Len(bus[cycle']) /\ pos' \in 1 .. Len(bus[cycle'][slot'])
    BY <1>1, AdvanceTyped DEF Frames
  <1>3. Line.kind = cycle /\ Line.slot = slot /\ Line.pos = pos
        /\ (Line').kind = cycle' /\ (Line').slot = slot' /\ (Line').pos = pos'
    BY DEF Line
  <1>4. FrameAt(Line) = Frames[slot] /\ bus[Line.kind] = Frames
    BY <1>3 DEF FrameAt, Frames
  <1>5. ComesAfter(Line, Line')
    BY <1>3, <1>4 DEF ComesAfter, Advance
  <1>6. QED
    BY <1>1, <1>2, <1>3, <1>5 DEF IsPlace

-----------------------------------------------------------------------------
(* One pushByte on a ring that holds a piece of the line *)

\* The ring once the byte was pushed: what was there, V, and the byte behind.
LEMMA RingAfterPush ==
    ASSUME FBTypeOK, NEW val \in Byte, NEW n \in Nat, n = Len(mBuffer),
           NEW V, \A i \in 1 .. n : V[i] = mBuffer[i], V[n + 1] = val,
           NEW d \in Nat, d = (IF n = HEATPUMP_MAX_FRAME_LENGTH THEN 1 ELSE 0)
    PROVE  /\ AfterPush(val) \in Seq(Byte)
           /\ d <= n /\ Len(AfterPush(val)) = n + 1 - d
           /\ \A i \in 1 .. n + 1 - d : AfterPush(val)[i] = V[i + d]
  <1>1. mBuffer \in Seq(Byte) /\ HEATPUMP_MAX_FRAME_LENGTH \in Nat \ {0}
    BY FrameBufferAssumption DEF FBTypeOK
  <1>2. CASE n = HEATPUMP_MAX_FRAME_LENGTH
    <2>1. d = 1 /\ n >= 1
      BY <1>1, <1>2
    <2>2. mBuffer # <<>>
      BY <1>1, <2>1, EmptySeq
    <2>3. /\ Tail(mBuffer) \in Seq(Byte) /\ Len(Tail(mBuffer)) = n - 1
          /\ \A i \in 1 .. n - 1 : Tail(mBuffer)[i] = mBuffer[i + 1]
      BY <1>1, <2>2, HeadTailProperties
    <2>4. AfterPush(val) = Append(Tail(mBuffer), val)
      BY <1>2 DEF AfterPush
    <2>5. /\ Append(Tail(mBuffer), val) \in Seq(Byte)
          /\ Len(Append(Tail(mBuffer), val)) = n
          /\ \A i \in 1 .. n - 1 : Append(Tail(mBuffer), val)[i] = Tail(mBuffer)[i]
          /\ Append(Tail(mBuffer), val)[n] = val
      BY <2>1, <2>3, AppendProperties
    <2>6. ASSUME NEW i \in 1 .. n PROVE AfterPush(val)[i] = V[i + 1]
      <3>1. CASE i = n
        BY <2>4, <2>5, <3>1
      <3>2. CASE i # n
        <4>1. i \in 1 .. n - 1 /\ i + 1 \in 1 .. n
          BY <3>2
        <4>2. QED
          BY <2>3, <2>4, <2>5, <4>1
      <3>3. QED
        BY <3>1, <3>2
    <2>7. n + 1 - d = n
      BY <2>1
    <2>8. QED
      BY <2>1, <2>4, <2>5, <2>6, <2>7
  <1>3. CASE n # HEATPUMP_MAX_FRAME_LENGTH
    <2>1. AfterPush(val) = Append(mBuffer, val)
      BY <1>3 DEF AfterPush
    <2>2. d = 0
      BY <1>3
    <2>3. /\ Append(mBuffer, val) \in Seq(Byte)
          /\ Len(Append(mBuffer, val)) = n + 1
          /\ \A i \in 1 .. n : Append(mBuffer, val)[i] = mBuffer[i]
          /\ Append(mBuffer, val)[n + 1] = val
      BY <1>1, AppendProperties
    <2>4. ASSUME NEW i \in 1 .. n + 1 PROVE AfterPush(val)[i] = V[i]
      <3>1. i = n + 1 \/ i \in 1 .. n
        OBVIOUS
      <3>2. QED
        BY <2>1, <2>3, <3>1
    <2>5. n + 1 - d = n + 1 /\ d <= n /\ \A i \in 1 .. n + 1 : i + d = i
      BY <2>2
    <2>6. QED
      BY <2>1, <2>3, <2>4, <2>5
  <1>4. QED
    BY <1>2, <1>3

\* The ring and the byte behind it.
WithByte(val) == [i \in Nat |-> IF i = Len(mBuffer) + 1 THEN val ELSE mBuffer[i]]

\* Whatever a pushByte does, what is left is the end of what was there and the byte.
LEMMA PushShifts ==
    ASSUME FBTypeOK, NEW val \in Byte, PushByte(val), NEW n \in Nat, n = Len(mBuffer)
    PROVE  \E c \in Nat :
              /\ c <= n + 1 /\ Len(mBuffer') = n + 1 - c
              /\ \A i \in 1 .. n + 1 - c : mBuffer'[i] = WithByte(val)[i + c]
  <1> DEFINE b == AfterPush(val)
             V == WithByte(val)
  <1>0. V[n + 1] = val /\ \A i \in 1 .. n : V[i] = mBuffer[i]
    <2>1. \A i \in 1 .. n : i \in Nat /\ i # n + 1
      OBVIOUS
    <2>2. QED
      BY <2>1 DEF WithByte
  <1> SUFFICES \E c \in Nat :
                  /\ c <= n + 1 /\ Len(mBuffer') = n + 1 - c
                  /\ \A i \in 1 .. n + 1 - c : mBuffer'[i] = V[i + c]
    OBVIOUS
  <1> HIDE DEF V
  <1>1. PICK d \in Nat : d = (IF n = HEATPUMP_MAX_FRAME_LENGTH THEN 1 ELSE 0)
    <2>1. (IF n = HEATPUMP_MAX_FRAME_LENGTH THEN 1 ELSE 0) \in Nat
      OBVIOUS
    <2>2. QED
      BY <2>1
  <1>2. /\ b \in Seq(Byte) /\ d <= n /\ Len(b) = n + 1 - d
        /\ \A i \in 1 .. n + 1 - d : b[i] = V[i + d]
    BY <1>0, <1>1, RingAfterPush
  <1>3. CASE Await(b)
    <2>1. mBuffer' = b /\ d <= n + 1
      BY <1>2, <1>3 DEF Await
    <2>2. QED
      BY <1>2, <2>1
  <1>4. CASE Accept(b) \/ Reject(b)
    <2>1. Complete(b) /\ mBuffer' = Rest(b)
      BY <1>4 DEF Accept, Reject
    <2>2. Consumed(b) \in 2 .. Len(b)
      BY <1>2, <2>1, EnoughBytes
    <2>3. PICK e \in Nat : e = Consumed(b) /\ e <= n + 1 - d
      BY <1>1, <1>2, <2>2
    <2>4. PICK l \in Nat : l = n + 1 - d /\ e <= l
      BY <1>2, <2>3
    <2>5. mBuffer' = SubSeq(b, e + 1, l)
      BY <1>2, <2>1, <2>3, <2>4 DEF Rest
    <2>6. /\ Len(mBuffer') = n + 1 - (d + e)
          /\ \A i \in 1 .. n + 1 - (d + e) : mBuffer'[i] = b[e + i]
      <3>1. \A i \in e + 1 .. l : i \in 1 .. Len(b)
        BY <1>2, <2>4
      <3>2. \A i \in e + 1 .. l : b[i] \in Byte
        BY <1>2, <3>1, ElementOfSeq
      <3>3. e + 1 \in Int /\ l \in Int
        OBVIOUS
      <3>4. /\ Len(SubSeq(b, e + 1, l)) = IF e + 1 <= l THEN l - (e + 1) + 1 ELSE 0
            /\ \A i \in 1 .. l - (e + 1) + 1 : SubSeq(b, e + 1, l)[i] = b[(e + 1) + i - 1]
        BY <3>2, <3>3, SubSeqProperties
      <3>5. l - (e + 1) + 1 = n + 1 - (d + e)
        BY <2>4
      <3>6. Len(mBuffer') = n + 1 - (d + e)
        BY <2>4, <2>5, <3>4, <3>5
      <3>7. \A i \in 1 .. n + 1 - (d + e) : (e + 1) + i - 1 = e + i
        OBVIOUS
      <3>8. QED
        BY <2>5, <3>4, <3>5, <3>6, <3>7
    <2>7. d + e \in Nat /\ d + e <= n + 1
      BY <1>1, <2>3
    <2>8. ASSUME NEW i \in 1 .. n + 1 - (d + e)
          PROVE  mBuffer'[i] = V[i + (d + e)]
      <3>1. e + i \in 1 .. n + 1 - d /\ (e + i) + d = i + (d + e)
        BY <1>1, <2>3
      <3>2. QED
        BY <1>2, <2>6, <3>1
    <2>9. QED
      BY <2>6, <2>7, <2>8
  <1>5. QED
    BY <1>3, <1>4 DEF PushByte

\* Nothing is known of the heat pump yet.
Unlocked == mLockedProtocol = "UNKNOWN" /\ mLockedChecksum = "UNKNOWN"

\* On a clear bus what looks like a header is the begin of a frame.
LEMMA HeaderBegins ==
    ASSUME bus \in Buses, ClearBuses,
           NEW T, NEW a \in Nat, NEW m \in Nat, Path(T, a, m),
           NEW h \in Nat, a <= h, h + 1 <= m,
           <<ByteAt(T[h]), ByteAt(T[h + 1])>> \in AnyFrame
    PROVE  T[h].pos = 1 /\ T[h].slot > 1
  <1> DEFINE p == T[h]
             q == T[h + 1]
             k == p.slot
             i == p.pos
             frame == bus[p.kind][k]
  <1>1. IsPlace(p) /\ IsPlace(q) /\ Apart(T, h, h + 1)
    <2>1. h \in a .. m /\ h + 1 \in h .. m /\ h + 1 \in a .. m
      OBVIOUS
    <2>2. QED
      BY <2>1 DEF Path
  <1>2. /\ p.kind \in CycleKinds /\ k \in 1 .. Len(bus[p.kind]) /\ i \in 1 .. Len(frame)
    BY <1>1 DEF IsPlace
  <1>3. /\ k \in Nat /\ k >= 1 /\ k <= Len(bus[p.kind]) /\ Len(bus[p.kind]) \in Nat
        /\ i \in Nat /\ i >= 1 /\ i <= Len(frame) /\ Len(frame) \in Nat /\ FrameAt(p) = frame
    BY <1>1, PlaceNumbers DEF FrameAt
  <1>4. /\ i + 1 <= Len(frame) => q.kind = p.kind /\ q.slot = k /\ q.pos = i + 1
        /\ i + 1 = Len(frame) + 1
             => IF k < Len(bus[p.kind])
                THEN q.kind = p.kind /\ q.slot = k + 1 /\ q.pos = 1
                ELSE q.slot = 1 /\ q.pos = 1
    <2>1. (h + 1) - h = 1
      OBVIOUS
    <2>2. QED
      BY <1>1, <1>3, <2>1 DEF Apart
  <1> HIDE DEF p, q
  <1>5. ByteAt(q) \in Behind(bus, p.kind, k, i)
    <2>1. CASE i < Len(frame)
      <3>1. q.kind = p.kind /\ q.slot = k /\ q.pos = i + 1
        <4>1. i + 1 <= Len(frame)
          BY <1>3, <2>1, SMTT(20)
        <4>2. QED
          BY <1>4, <4>1, Zenon
      <3>2. ByteAt(q) = bus[p.kind][k][i + 1]
        BY <3>1 DEF ByteAt, FrameAt
      <3>3. QED
        BY <2>1, <3>2 DEF Behind
    <2>2. CASE i = Len(frame) /\ k < Len(bus[p.kind])
      <3>1. q.kind = p.kind /\ q.slot = k + 1 /\ q.pos = 1
        BY <1>3, <1>4, <2>2
      <3>2. ByteAt(q) = bus[p.kind][k + 1][1]
        BY <3>1 DEF ByteAt, FrameAt
      <3>3. ~(i < Len(frame))
        <4>1. \A l \in Nat : ~(l < l)
          OBVIOUS
        <4>2. QED
          BY <1>3, <2>2, <4>1
      <3>4. QED
        BY <2>2, <3>2, <3>3 DEF Behind
    <2>3. CASE i = Len(frame) /\ ~(k < Len(bus[p.kind]))
      <3>1. q.slot = 1
        BY <1>3, <1>4, <2>3
      <3>2. ByteAt(q) = HMI_MESSAGE_IDENTIFIER
        BY <1>1, <3>1, PlaceNumbers
      <3>3. ~(i < Len(frame))
        <4>1. \A l \in Nat : ~(l < l)
          OBVIOUS
        <4>2. QED
          BY <1>3, <2>3, <4>1
      <3>4. QED
        BY <2>3, <3>2, <3>3 DEF Behind
    <2>4. QED
      BY <1>3, <2>1, <2>2, <2>3
  <1>6. ByteAt(p) = frame[i]
    BY DEF ByteAt, FrameAt
  <1>7. k = 1 \/ i > 1
          => \A next \in Behind(bus, p.kind, k, i) : <<frame[i], next>> \notin AnyFrame
    BY <1>2 DEF ClearBuses
  <1>8. ~(k = 1 \/ i > 1)
    BY <1>5, <1>6, <1>7 DEF p, q
  <1>9. QED
    BY <1>3, <1>8 DEF p

\* A frame of the bus at the front of the ring, all of it there and awaited no more:
\* it is taken, and the right locks with it.
LEMMA FrameTaken ==
    ASSUME TypeInv, ClearBuses, LocksFit \/ Unlocked,
           NEW b \in Seq(Byte), NEW p, IsPlace(p), p.slot > 1,
           Len(FrameAt(p)) <= Len(b), \A i \in 1 .. Len(FrameAt(p)) : b[i] = FrameAt(p)[i]
    PROVE  /\ XorMatches(b) \/ Crc16Matches(b)
           /\ Consumed(b) = Len(FrameAt(p))
           /\ Version(b) = bus.version
           /\ (IF XorMatches(b) THEN "XOR" ELSE "CRC16") = bus.checksum
           /\ b[1] = FrameAt(p)[1]
  <1> DEFINE f == FrameAt(p)
  <1>1. /\ bus \in Buses /\ bus.version \in Protocols
        /\ bus.checksum \in IF bus.version \in XorOnlyProtocols THEN {"XOR"}
                                                              ELSE {"XOR", "CRC16"}
        /\ IsFrame(f, bus.version, bus.checksum)
    <2>1. bus \in Buses
      BY DEF TypeInv
    <2>2. QED
      BY <2>1, PlaceNumbers, MainBusAssumption
  <1>2. /\ f \in Seq(Byte) /\ Len(f) \in Nat
        /\ f[2] \in 1 .. 255
        /\ Len(f) = 1 + f[2] + (IF bus.checksum = "XOR" THEN 1 ELSE 2)
    BY <1>1, FrameShape
  <1>3. PICK n \in Nat : n = f[2] /\ n >= 1
    <2>1. \A l \in 1 .. 255 : l \in Nat /\ l >= 1
      OBVIOUS
    <2>2. QED
      BY <1>2, <2>1
  <1>4. Len(f) >= n + 2 /\ Len(f) \in Nat /\ Len(b) \in Nat /\ Len(f) <= Len(b)
    BY <1>2, <1>3, LenProperties
  <1>5. b[1] = f[1] /\ b[2] = n /\ b[n + 2] = f[n + 2]
    <2>1. 1 \in 1 .. Len(f) /\ 2 \in 1 .. Len(f) /\ n + 2 \in 1 .. Len(f)
      BY <1>3, <1>4
    <2>2. QED
      BY <1>3, <2>1
  <1>6. Payload(b) = SubSeq(f, 2, n + 1)
    <2>1. Payload(b) = SubSeq(b, 2, n + 1)
      BY <1>5 DEF Payload
    <2>2. \A i \in 2 .. n + 1 : b[i] = f[i] /\ f[i] \in Byte
      <3>1. \A i \in 2 .. n + 1 : i \in 1 .. Len(f)
        BY <1>2, <1>3, <1>4
      <3>2. QED
        BY <1>2, <3>1, ElementOfSeq
    <2>3. 2 \in Int /\ n + 1 \in Int
      BY <1>3
    <2>4. /\ SubSeq(b, 2, n + 1) \in Seq(Byte)
          /\ Len(SubSeq(b, 2, n + 1)) = IF 2 <= n + 1 THEN n + 1 - 2 + 1 ELSE 0
          /\ \A i \in 1 .. n + 1 - 2 + 1 : SubSeq(b, 2, n + 1)[i] = b[2 + i - 1]
      BY <2>2, <2>3, SubSeqProperties
    <2>5. /\ SubSeq(f, 2, n + 1) \in Seq(Byte)
          /\ Len(SubSeq(f, 2, n + 1)) = IF 2 <= n + 1 THEN n + 1 - 2 + 1 ELSE 0
          /\ \A i \in 1 .. n + 1 - 2 + 1 : SubSeq(f, 2, n + 1)[i] = f[2 + i - 1]
      BY <2>2, <2>3, SubSeqProperties
    <2>6. \A i \in 1 .. n + 1 - 2 + 1 : SubSeq(b, 2, n + 1)[i] = SubSeq(f, 2, n + 1)[i]
      <3> SUFFICES ASSUME NEW i \in 1 .. n + 1 - 2 + 1
                   PROVE  SubSeq(b, 2, n + 1)[i] = SubSeq(f, 2, n + 1)[i]
        OBVIOUS
      <3>1. 2 + i - 1 \in 2 .. n + 1
        BY <1>3
      <3>2. b[2 + i - 1] = f[2 + i - 1]
        BY <2>2, <3>1
      <3>3. QED
        BY <2>4, <2>5, <3>2
    <2>7. Len(SubSeq(b, 2, n + 1)) = n /\ Len(SubSeq(f, 2, n + 1)) = n
          /\ n + 1 - 2 + 1 = n
      <3>1. 2 <= n + 1 /\ n + 1 - 2 + 1 = n
        BY <1>3
      <3>2. QED
        BY <2>4, <2>5, <3>1
    <2>8. SubSeq(b, 2, n + 1) = SubSeq(f, 2, n + 1)
      BY <2>4, <2>5, <2>6, <2>7, SeqEqual
    <2>9. QED
      BY <2>1, <2>8
  <1>7. Version(b) = bus.version
    <2>1. CASE LocksFit
      BY <1>1, <2>1 DEF Version, LocksFit, Protocols
    <2>2. CASE Unlocked
      <3>1. Version(b) = GetVersionByIdentifier(f[1], f[2])
        BY <1>3, <1>5, <2>2 DEF Version, Unlocked
      <3>2. <<f[1], f[2]>> \in FrameTable[bus.version]
        BY <1>1 DEF IsFrame
      <3>3. <<f[1], f[2]>> \in AnyFrame
        BY <1>1, <3>2 DEF AnyFrame
      <3>4. GetVersionByIdentifier(f[1], f[2]) \in Protocols
            /\ <<f[1], f[2]>> \in FrameTable[GetVersionByIdentifier(f[1], f[2])]
        BY <3>3, VersionOfKnownFrame
      <3>5. GetVersionByIdentifier(f[1], f[2]) = bus.version
        BY <1>1, <3>2, <3>4, FrameTableAssumption
      <3>6. QED
        BY <3>1, <3>5
    <2>3. QED
      BY <2>1, <2>2
  <1>8. CASE bus.checksum = "XOR"
    <2>1. TriesXor(b)
      BY <1>8 DEF TriesXor, LocksFit, Unlocked
    <2>2. f[n + 2] = XorChecksum(SubSeq(f, 2, n + 1)) /\ Len(f) = n + 2
      BY <1>1, <1>3, <1>8 DEF IsFrame
    <2>3. XorMatches(b)
      BY <1>5, <1>6, <2>1, <2>2 DEF XorMatches
    <2>4. Consumed(b) = 1 + n + 1
      BY <1>5, <2>3 DEF Consumed, TakesTwo
    <2>5. QED
      BY <1>3, <1>5, <1>7, <1>8, <2>2, <2>3, <2>4
  <1>9. CASE bus.checksum # "XOR"
    <2>1. bus.checksum = "CRC16" /\ bus.version \notin XorOnlyProtocols
      BY <1>1, <1>9
    <2>2. TriesCrc16(b)
      BY <1>7, <2>1 DEF TriesCrc16, LocksFit, Unlocked
    <2>3. f[n + 2] # XorChecksum(SubSeq(f, 2, n + 1))
      <3>1. p.kind \in CycleKinds /\ p.slot \in 1 .. Len(bus[p.kind]) /\ bus[p.kind][p.slot] = f
        BY DEF IsPlace, FrameAt
      <3>2. f[f[2] + 2] # XorChecksum(SubSeq(f, 2, f[2] + 1))
        BY <1>1, <2>1, <3>1, ZenonT(40) DEF ClearBuses
      <3>3. QED
        BY <1>3, <3>2
    <2>4. ~XorMatches(b)
      BY <1>5, <1>6, <2>3 DEF XorMatches
    <2>5. <<f[n + 2], f[n + 3]>> = Crc16(SubSeq(f, 2, n + 1)) /\ Len(f) = n + 3
      BY <1>1, <1>3, <1>9 DEF IsFrame
    <2>6. b[n + 3] = f[n + 3]
      <3>1. n + 3 \in 1 .. Len(f)
        BY <2>5
      <3>2. QED
        BY <3>1
    <2>7. TakesTwo(b)
      BY <2>2, <2>4 DEF TakesTwo
    <2>8. Crc16Matches(b)
      BY <1>5, <1>6, <2>5, <2>6, <2>7 DEF Crc16Matches
    <2>9. Consumed(b) = 1 + n + 2
      BY <1>5, <2>7 DEF Consumed
    <2>10. QED
      BY <1>3, <1>5, <1>7, <2>1, <2>4, <2>5, <2>8, <2>9
  <1>10. QED
    BY <1>8, <1>9

\* What is left when a frame is gone.
LEMMA RestLength ==
    ASSUME FBTypeOK, NEW b \in Seq(Byte), Complete(b)
    PROVE  Len(Rest(b)) = Len(b) - Consumed(b)
  <1>1. Consumed(b) \in 2 .. Len(b) /\ Len(b) \in Nat
    BY EnoughBytes, LenProperties
  <1>2. PICK l \in Nat : l = Len(b)
    BY <1>1
  <1>3. PICK e \in Nat : e = Consumed(b) /\ e <= l
    BY <1>1, <1>2
  <1>4. \A i \in e + 1 .. l : b[i] \in Byte
    <2>1. \A i \in e + 1 .. l : i \in 1 .. Len(b)
      BY <1>2
    <2>2. QED
      BY <2>1, ElementOfSeq
  <1>5. e + 1 \in Int /\ l \in Int
    OBVIOUS
  <1>6. Len(SubSeq(b, e + 1, l)) = IF e + 1 <= l THEN l - (e + 1) + 1 ELSE 0
    BY <1>4, <1>5, SubSeqProperties
  <1>7. Rest(b) = SubSeq(b, e + 1, l)
    BY <1>2, <1>3 DEF Rest
  <1>8. Len(Rest(b)) = l - e
    BY <1>3, <1>6, <1>7
  <1>9. QED
    BY <1>2, <1>3, <1>8

\* The bytes behind the begin of a frame are those of the frame.
LEMMA FrameInLine ==
    ASSUME bus \in Buses, NEW T, NEW a \in Nat, NEW m \in Nat, Path(T, a, m),
           NEW i \in Nat, a <= i, T[i].pos = 1,
           NEW j \in Nat, 1 <= j, j <= Len(FrameAt(T[i])), i + j - 1 <= m
    PROVE  ByteAt(T[i + j - 1]) = FrameAt(T[i])[j]
  <1>1. i \in a .. m /\ i + j - 1 \in i .. m /\ i + j - 1 \in a .. m /\ 1 + (i + j - 1 - i) = j
    OBVIOUS
  <1>2. IsPlace(T[i]) /\ Apart(T, i, i + j - 1)
    BY <1>1 DEF Path
  <1>3. T[i].pos + (i + j - 1 - i) <= Len(FrameAt(T[i]))
    BY <1>1
  <1>4. /\ T[i + j - 1].kind = T[i].kind /\ T[i + j - 1].slot = T[i].slot
        /\ T[i + j - 1].pos = T[i].pos + (i + j - 1 - i)
    BY <1>2, <1>3 DEF Apart
  <1>5. T[i + j - 1].pos = j
    BY <1>1, <1>4
  <1>6. QED
    BY <1>4, <1>5 DEF ByteAt, FrameAt

\* The numbers of a frame of the bus, and how many bytes handleFrame waits for.
LEMMA FrameOfBus ==
    ASSUME TypeInv, LocksFit \/ Unlocked, NEW p, IsPlace(p), p.slot > 1,
           NEW b, b[2] = FrameAt(p)[2]
    PROVE  /\ Len(FrameAt(p)) \in Nat /\ FrameAt(p)[2] \in Nat
           /\ FrameAt(p)[2] >= 1 /\ Len(FrameAt(p)) >= FrameAt(p)[2] + 2
           /\ CrcLen \in Nat
           /\ 1 + b[2] + CrcLen >= Len(FrameAt(p))
           /\ LocksFit => 1 + b[2] + CrcLen = Len(FrameAt(p))
           /\ ~LocksFit => CrcLen = 2
           /\ <<FrameAt(p)[1], FrameAt(p)[2]>> \in SyncTable
           /\ FrameAt(p)[1] \in FrameIds
  <1> DEFINE f == FrameAt(p)
  <1>1. /\ bus \in Buses /\ bus.version \in Protocols
        /\ bus.checksum \in IF bus.version \in XorOnlyProtocols THEN {"XOR"}
                                                              ELSE {"XOR", "CRC16"}
        /\ IsFrame(f, bus.version, bus.checksum)
    <2>1. bus \in Buses
      BY DEF TypeInv
    <2>2. QED
      BY <2>1, PlaceNumbers, MainBusAssumption
  <1>2. /\ f[1] \in FrameIds /\ f[2] \in 1 .. 255 /\ Len(f) \in Nat
        /\ Len(f) = 1 + f[2] + (IF bus.checksum = "XOR" THEN 1 ELSE 2)
    BY <1>1, FrameShape
  <1>3. PICK n \in Nat : n = f[2] /\ n >= 1
    <2>1. \A l \in 1 .. 255 : l \in Nat /\ l >= 1
      OBVIOUS
    <2>2. QED
      BY <1>2, <2>1
  <1>4. <<f[1], f[2]>> \in FrameTable[bus.version]
    BY <1>1 DEF IsFrame
  <1>5. <<f[1], f[2]>> \in SyncTable
    <2>1. <<f[1], f[2]>> \in AnyFrame
      BY <1>1, <1>4 DEF AnyFrame
    <2>2. QED
      BY <1>4, <2>1 DEF SyncTable, LocksFit, Unlocked
  <1>6. CASE LocksFit
    <2>1. CrcLen = IF bus.checksum = "XOR" THEN 1 ELSE 2
      BY <1>6 DEF CrcLen, LocksFit
    <2>2. QED
      BY <1>2, <1>3, <1>5, <1>6, <2>1
  <1>7. CASE ~LocksFit
    <2>1. CrcLen = 2
      BY <1>7 DEF CrcLen, Unlocked
    <2>2. QED
      BY <1>2, <1>3, <1>5, <1>7, <2>1
  <1>8. QED
    BY <1>6, <1>7

\* Of a ring that held the l bytes from p on, once the last of them was pushed: a
\* whole frame at the front is taken as soon as it is awaited no more, and there is
\* no other way to lose bytes.
Pushed(p, l) ==
    \/ /\ Len(mBuffer') = l
       /\ returned' = 0
       /\ UNCHANGED <<mLockedProtocol, mLockedChecksum>>
       /\ p.pos = 1 /\ p.slot > 1 /\ Len(FrameAt(p)) <= l
             => ~LocksFit /\ FrameAt(p)[2] + 3 > l
    \/ /\ p.pos = 1 /\ p.slot > 1 /\ Len(FrameAt(p)) <= l
       /\ Len(mBuffer') = l - Len(FrameAt(p))
       /\ returned' = FrameAt(p)[1]
       /\ LocksFit'

\* A pushByte on a ring that holds a piece of the line and nothing else.
LEMMA CleanPush ==
    ASSUME TypeInv, ClearBuses, LocksFit \/ Unlocked,
           NEW n \in Nat, n = Len(mBuffer), NEW T, Path(T, 1, n + 1),
           \A i \in 1 .. n : mBuffer[i] = ByteAt(T[i]),
           PushByte(ByteAt(T[n + 1])), bus' = bus,
           NEW d \in Nat, d = (IF n = HEATPUMP_MAX_FRAME_LENGTH THEN 1 ELSE 0),
           NEW p, p = T[1 + d]
    PROVE  Pushed(p, n + 1 - d)
  <1> DEFINE val == ByteAt(T[n + 1])
             b == AfterPush(val)
             V == [i \in 1 .. n + 1 |-> ByteAt(T[i])]
             f == FrameAt(p)
  <1>1. FBTypeOK /\ bus \in Buses /\ mLockedProtocol \in ProtocolVersion
        /\ mLockedChecksum \in ProtocolChecksum
    BY DEF TypeInv, FBInv, FBTypeOK
  <1>2. \A i \in 1 .. n + 1 : IsPlace(T[i])
    BY DEF Path
  <1>3. val \in Byte
    <2>1. n + 1 \in 1 .. n + 1
      OBVIOUS
    <2>2. QED
      BY <1>1, <1>2, <2>1, PlaceNumbers
  <1>4. /\ b \in Seq(Byte) /\ d <= n /\ Len(b) = n + 1 - d
        /\ \A i \in 1 .. n + 1 - d : b[i] = ByteAt(T[i + d])
    <2>1. /\ \A i \in 1 .. n : V[i] = mBuffer[i]
          /\ V[n + 1] = val
      OBVIOUS
    <2> HIDE DEF V
    <2>2. /\ b \in Seq(Byte) /\ d <= n /\ Len(b) = n + 1 - d
          /\ \A i \in 1 .. n + 1 - d : b[i] = V[i + d]
      BY <1>1, <1>3, <2>1, RingAfterPush
    <2>3. \A i \in 1 .. n + 1 - d : V[i + d] = ByteAt(T[i + d])
      <3>1. \A i \in 1 .. n + 1 - d : i + d \in 1 .. n + 1
        OBVIOUS
      <3>2. QED
        BY <3>1 DEF V
    <2>4. QED
      BY <2>2, <2>3
  <1> HIDE DEF val, b, V
  <1>5. IsPlace(p)
    <2>1. 1 + d \in 1 .. n + 1
      BY <1>4
    <2>2. QED
      BY <1>2, <2>1
  <1>6. ASSUME p.pos = 1, NEW j \in Nat, 1 <= j, j <= Len(f), j <= n + 1 - d
        PROVE  b[j] = f[j]
    <2>1. PICK i \in Nat, t \in Nat : i = 1 + d /\ t = n + 1 /\ 1 <= i /\ i + j - 1 <= t
      <3>1. 1 + d \in Nat /\ n + 1 \in Nat /\ 1 <= 1 + d /\ (1 + d) + j - 1 <= n + 1
        BY <1>6
      <3>2. QED
        BY <3>1
    <2>2. p = T[i] /\ f = FrameAt(T[i])
      BY <2>1
    <2> HIDE DEF f
    <2>3. /\ bus \in Buses /\ 1 \in Nat /\ Path(T, 1, t) /\ 1 <= i /\ T[i].pos = 1
          /\ 1 <= j /\ j <= Len(FrameAt(T[i])) /\ i + j - 1 <= t
      BY <1>1, <1>6, <2>1, <2>2
    <2>4. ByteAt(T[i + j - 1]) = FrameAt(T[i])[j]
      BY ONLY <2>3, FrameInLine, i \in Nat, j \in Nat, t \in Nat
    <2>5. i + j - 1 = j + d /\ j \in 1 .. n + 1 - d
      BY <1>6, <2>1
    <2>6. QED
      BY <1>4, <2>2, <2>4, <2>5
  <1>7. CASE Complete(b)
    <2>1. IsSync(b) /\ Len(b) >= 1 + b[2] + CrcLen /\ Len(b) >= 2
      BY <1>7 DEF Complete, IsSync
    <2>2. p.pos = 1 /\ p.slot > 1
      <3>1. (1 + d) + 1 <= n + 1 /\ 1 <= 1 + d /\ 1 + d \in Nat
        BY <1>4, <2>1
      <3>2. b[1] = ByteAt(T[1 + d]) /\ b[2] = ByteAt(T[(1 + d) + 1])
        <4>1. 1 \in 1 .. n + 1 - d /\ 2 \in 1 .. n + 1 - d /\ 2 + d = (1 + d) + 1
          BY <1>4, <2>1
        <4>2. QED
          BY <1>4, <4>1
      <3>3. <<b[1], b[2]>> \in AnyFrame
        <4>1. <<b[1], b[2]>> \in SyncTable
          BY <2>1 DEF IsSync
        <4>2. QED
          BY <1>1, <4>1 DEF SyncTable, AnyFrame, ProtocolVersion
      <3>4. n + 1 \in Nat
        OBVIOUS
      <3>5. QED
        BY <1>1, <3>1, <3>2, <3>3, <3>4, HeaderBegins
    <2>3. b[1] = f[1] /\ b[2] = f[2]
      <3>1. Len(f) \in Nat /\ Len(f) >= 3
        <4>1. Len(f) \in Nat /\ f[2] \in Nat /\ f[2] >= 1 /\ Len(f) >= f[2] + 2
          <5>1. [i \in {2} |-> f[2]][2] = f[2]
            OBVIOUS
          <5>2. QED
            BY <1>5, <2>2, <5>1, FrameOfBus
        <4>2. QED
          BY <4>1
      <3>2. n + 1 - d >= 2
        BY <1>4, <2>1
      <3>3. QED
        BY <1>6, <2>2, <3>1, <3>2
    <2>4. Len(f) \in Nat /\ CrcLen \in Nat /\ f[2] \in Nat /\ 1 + b[2] + CrcLen >= Len(f)
      BY <1>5, <2>2, <2>3, FrameOfBus
    <2>5. Len(f) <= n + 1 - d
      BY <1>4, <2>1, <2>3, <2>4
    <2>6. \A i \in 1 .. Len(f) : b[i] = f[i]
      <3>1. \A i \in 1 .. Len(f) : i \in Nat /\ 1 <= i /\ i <= Len(f) /\ i <= n + 1 - d
        BY <2>4, <2>5
      <3>2. QED
        BY <1>6, <2>2, <3>1
    <2>7. /\ XorMatches(b) \/ Crc16Matches(b)
          /\ Consumed(b) = Len(f)
          /\ Version(b) = bus.version
          /\ (IF XorMatches(b) THEN "XOR" ELSE "CRC16") = bus.checksum
      BY <1>4, <1>5, <2>2, <2>5, <2>6, FrameTaken
    <2>8. Accept(b)
      BY <1>7, <2>7 DEF PushByte, Await, Reject, val, b
    <2>9. /\ mBuffer' = Rest(b) /\ returned' = f[1]
          /\ mLockedProtocol' = bus.version /\ mLockedChecksum' = bus.checksum
      BY <2>3, <2>7, <2>8 DEF Accept
    <2>10. Len(mBuffer') = n + 1 - d - Len(f)
      BY <1>1, <1>4, <1>7, <2>7, <2>9, RestLength
    <2>11. QED
      BY <2>2, <2>5, <2>9, <2>10 DEF LocksFit, Pushed
  <1>8. CASE ~Complete(b)
    <2>1. Await(b)
      BY <1>8 DEF PushByte, Accept, Reject, val, b
    <2>2. /\ Len(mBuffer') = n + 1 - d /\ returned' = 0
          /\ UNCHANGED <<mLockedProtocol, mLockedChecksum>>
      BY <1>4, <2>1 DEF Await
    <2>3. ASSUME p.pos = 1, p.slot > 1, Len(f) <= n + 1 - d,
                 LocksFit \/ ~(f[2] + 3 > n + 1 - d)
          PROVE  FALSE
      <3>1. Len(f) \in Nat /\ f[2] \in Nat /\ f[2] >= 1 /\ Len(f) >= f[2] + 2
        <4>1. [i \in {2} |-> f[2]][2] = f[2]
          OBVIOUS
        <4>2. QED
          BY <1>5, <2>3, <4>1, FrameOfBus
      <3>2. b[1] = f[1] /\ b[2] = f[2]
        <4>1. 1 <= Len(f) /\ 2 <= Len(f) /\ 1 <= n + 1 - d /\ 2 <= n + 1 - d
          BY <2>3, <3>1
        <4>2. 1 \in Nat /\ 1 <= 1 /\ 2 \in Nat /\ 1 <= 2
          OBVIOUS
        <4>3. b[1] = f[1]
          BY <1>6, <2>3, <4>1, <4>2, Zenon
        <4>4. b[2] = f[2]
          BY <1>6, <2>3, <4>1, <4>2, Zenon
        <4>5. QED
          BY <4>3, <4>4
      <3>3. /\ LocksFit => 1 + b[2] + CrcLen = Len(f)
            /\ ~LocksFit => CrcLen = 2
            /\ <<f[1], f[2]>> \in SyncTable
        BY <1>5, <2>3, <3>2, FrameOfBus
      <3>4. Len(b) >= 1 + b[2] + CrcLen
        <4>1. CASE LocksFit
          BY <1>4, <2>3, <3>3, <4>1
        <4>2. CASE ~LocksFit
          BY <1>4, <2>3, <3>1, <3>2, <3>3, <4>2
        <4>3. QED
          BY <4>1, <4>2
      <3>5. Len(b) >= 2
        BY <1>4, <2>3, <3>1
      <3>6. QED
        BY <1>8, <3>2, <3>3, <3>4, <3>5 DEF Complete, IsSync
    <2>4. QED
      BY <2>2, <2>3 DEF Pushed
  <1>9. QED
    BY <1>7, <1>8

\* What is said of a place is said of the bus.
LEMMA PlaceStutter ==
    ASSUME bus' = bus, NEW p, NEW kind
    PROVE  /\ IsPlace(p) => IsPlace(p)'
           /\ FrameAt(p)' = FrameAt(p) /\ ByteAt(p)' = ByteAt(p)
           /\ InCycle(p)' = InCycle(p) /\ CycleLen(kind)' = CycleLen(kind)
  <1>1. IsPlace(p) => IsPlace(p)'
    BY DEF IsPlace
  <1>2. FrameAt(p)' = FrameAt(p) /\ ByteAt(p)' = ByteAt(p)
    BY DEF FrameAt, ByteAt
  <1>3. InCycle(p)' = InCycle(p) /\ CycleLen(kind)' = CycleLen(kind)
    BY DEF InCycle, CycleLen, BytesBefore
  <1>4. QED
    BY <1>1, <1>2, <1>3

\* Only the request is the first byte of its cycle.
LEMMA BehindRequest ==
    ASSUME bus \in Buses, NEW p, IsPlace(p), p.slot > 1
    PROVE  InCycle(p) >= 2
  <1> DEFINE frames == bus[p.kind]
  <1>1. /\ p.kind \in CycleKinds /\ p.slot \in Nat /\ p.slot <= Len(frames)
        /\ Len(frames) \in Nat /\ p.pos \in Nat /\ p.pos >= 1
    BY PlaceNumbers
  <1>2. PICK k \in Nat : p.slot = k + 1 /\ k >= 1
    <2>1. p.slot - 1 \in Nat /\ p.slot = (p.slot - 1) + 1 /\ p.slot - 1 >= 1
      BY <1>1
    <2>2. QED
      BY <2>1
  <1>3. k \in 1 .. Len(frames) /\ k \in 1 .. Len(frames) + 1
    BY <1>1, <1>2
  <1>4. /\ BytesBefore(frames, k + 1) = BytesBefore(frames, k) + Len(frames[k])
        /\ BytesBefore(frames, k) \in Nat
    BY <1>1, <1>3, BytesBeforeNext
  <1>5. Len(frames[k]) \in Nat /\ Len(frames[k]) >= 1
    BY <1>1, <1>3, CyclesOfBus
  <1>6. InCycle(p) = BytesBefore(frames, k + 1) + p.pos
    BY <1>2 DEF InCycle
  <1>7. QED
    BY <1>1, <1>4, <1>5, <1>6

\* LongCycles, for the bus.
LEMMA LongBehind ==
    ASSUME bus \in Buses, LongCycles, NEW kind \in CycleKinds,
           NEW k \in Nat, 2 <= k, k <= Len(bus[kind]),
           \A j \in 2 .. k - 1 : TooLong(bus, bus[kind][j])
    PROVE  /\ k < Len(bus[kind])
           /\ BytesBefore(bus[kind], k) + HEATPUMP_MAX_FRAME_LENGTH + Len(bus[kind]) - k
                <= CycleLen(kind)
  <1>1. k \in 2 .. Len(bus[kind])
    BY CyclesOfBus
  <1>2. QED
    BY <1>1 DEF LongCycles, CycleLen

\* The ring is too short for two requests, even with one more byte.
LEMMA RequestsApart ==
    ASSUME bus \in Buses, LongCycles, NEW T, NEW a \in Nat, NEW m \in Nat, Path(T, a, m),
           NEW i \in Nat, NEW j \in Nat, a <= i, i < j, j <= m,
           T[i].slot = 1, T[j].slot = 1
    PROVE  j - i > HEATPUMP_MAX_FRAME_LENGTH
  <1> DEFINE kind == T[i].kind
             n == Len(bus[kind])
             H == HEATPUMP_MAX_FRAME_LENGTH
  <1>1. i \in a .. m /\ j \in i .. m /\ j \in a .. m
    OBVIOUS
  <1>2. IsPlace(T[i]) /\ IsPlace(T[j]) /\ Apart(T, i, j)
    BY <1>1 DEF Path
  <1>3. /\ InCycle(T[i]) = 1 /\ InCycle(T[j]) = 1 /\ kind \in CycleKinds
        /\ n \in Nat /\ n >= 3 /\ CycleLen(kind) \in Nat
    BY <1>2, PlaceNumbers
  <1>4. ~(1 + (j - i) <= CycleLen(kind))
    <2> SUFFICES ASSUME 1 + (j - i) <= CycleLen(kind) PROVE FALSE
      OBVIOUS
    <2>1. InCycle(T[j]) = 1 + (j - i)
      BY <1>2, <1>3 DEF Apart
    <2>2. QED
      BY <1>3, <2>1
  <1>5. BytesBefore(bus[kind], 2) + H + n - 2 <= CycleLen(kind)
    <2>1. \A l \in 2 .. 2 - 1 : TooLong(bus, bus[kind][l])
      OBVIOUS
    <2>2. 2 <= n
      BY <1>3
    <2>3. QED
      BY <1>3, <2>1, <2>2, LongBehind, SMTT(20)
  <1>6. BytesBefore(bus[kind], 2) = 1
    <2>1. 1 \in 1 .. n
      BY <1>3
    <2>2. BytesBefore(bus[kind], 1) = 0 /\ Len(bus[kind][1]) = 1
          /\ BytesBefore(bus[kind], 1 + 1) = BytesBefore(bus[kind], 1) + Len(bus[kind][1])
      BY <1>3, <2>1, BytesBeforeNext, CyclesOfBus
    <2>3. QED
      BY <2>2
  <1>7. H \in Nat
    BY FrameBufferAssumption
  <1>8. 1 + H + n - 2 <= CycleLen(kind)
    BY <1>5, <1>6
  <1> HIDE DEF n, kind, H
  <1>9. j - i > H
    BY <1>3, <1>4, <1>7, <1>8
  <1>10. QED
    BY <1>9 DEF H

-----------------------------------------------------------------------------
(* What the task has not lost *)

\* The ring and the bytes to be read are, behind x bytes of whatever, the last
\* bytes of the line: T[i] is the place byte i comes from.
Known(T, x, n, m) ==
    /\ n \in Nat /\ m \in Nat /\ x \in Nat /\ x <= m
    /\ n = Len(mBuffer) /\ m = n + Len(rx)
    /\ Path(T, x + 1, m + 1) /\ T[m + 1] = Line
    /\ \A i \in 1 .. n : i > x => mBuffer[i] = ByteAt(T[i])
    /\ \A i \in 1 .. Len(rx) : n + i > x => /\ rx[i].val = ByteAt(T[n + i])
                                            /\ rx[i].trigger <=> T[n + i].slot = 1

\* A byte of the line arrives.
LEMMA KnownGrows ==
    ASSUME TypeInv, NEW T, NEW x \in Nat, NEW n \in Nat, NEW m \in Nat, Known(T, x, n, m),
           NextByteArrives, Advance,
           NEW U, U[m + 2] = Line', \A i \in 1 .. m + 1 : U[i] = T[i]
    PROVE  Known(U, x, n, m + 1)'
  <1>1. /\ n \in Nat /\ m \in Nat /\ x \in Nat /\ x <= m /\ bus \in Buses /\ bus' = bus
        /\ n = Len(mBuffer) /\ m = n + Len(rx) /\ Path(T, x + 1, m + 1) /\ T[m + 1] = Line
        /\ rx \in Seq(RxByte) /\ Len(rx) \in Nat
    BY LenProperties DEF Known, TypeInv, TypeOK, Advance
  <1> DEFINE byte == [val |-> Frames[slot][pos], trigger |-> (slot = 1)]
  <1>2. rx' = Append(rx, byte) /\ mBuffer' = mBuffer
    BY DEF NextByteArrives, Arrives, fbVars
  <1>3. byte.val = ByteAt(Line) /\ (byte.trigger <=> Line.slot = 1)
    BY DEF ByteAt, FrameAt, Line, Frames
  <1>4. byte \in RxByte
    BY NextByteTyped DEF RxByte
  <1> HIDE DEF byte
  <1>5. /\ Len(rx') = Len(rx) + 1
        /\ \A i \in 1 .. Len(rx) : rx'[i] = rx[i]
        /\ rx'[Len(rx) + 1] = byte
    BY <1>1, <1>2, <1>4, AppendProperties
  <1>6. Path(U, x + 1, m + 2)
    <2>1. IsPlace(Line') /\ ComesAfter(Line, Line')
      BY LineComesAfter
    <2>2. x + 1 \in Nat /\ m + 1 \in Nat /\ x + 1 <= m + 1 /\ (m + 1) + 1 = m + 2
          /\ \A i \in x + 1 .. m + 1 : U[i] = T[i]
      BY <1>1
    <2>3. U[(m + 1) + 1] = Line'
      BY <2>2
    <2>4. Path(U, x + 1, (m + 1) + 1)
      BY <1>1, <2>1, <2>2, <2>3, PathGrows
    <2>5. QED
      BY <2>2, <2>4
  <1>7. Path(U, x + 1, m + 2)'
    BY <1>1, <1>6, PathStutter
  <1>8. \A i \in 1 .. n : i > x => mBuffer'[i] = ByteAt(U[i])'
    <2> SUFFICES ASSUME NEW i \in 1 .. n, i > x PROVE mBuffer'[i] = ByteAt(U[i])'
      OBVIOUS
    <2>1. mBuffer[i] = ByteAt(T[i]) /\ U[i] = T[i]
      <3>1. i \in 1 .. m + 1
        BY <1>1
      <3>2. QED
        BY <3>1 DEF Known
    <2>2. ByteAt(U[i])' = ByteAt(U[i])
      BY <1>1, PlaceStutter
    <2>3. QED
      BY <1>2, <2>1, <2>2
  <1>9. ASSUME NEW i \in 1 .. Len(rx'), n + i > x
        PROVE  rx'[i].val = ByteAt(U[n + i])' /\ (rx'[i].trigger <=> U[n + i].slot = 1)
    <2>1. ByteAt(U[n + i])' = ByteAt(U[n + i])
      BY <1>1, PlaceStutter
    <2>2. CASE i = Len(rx) + 1
      <3>1. n + i = m + 1 /\ m + 1 \in 1 .. m + 1
        BY <1>1, <2>2
      <3>2. U[n + i] = Line
        BY <1>1, <3>1
      <3>3. QED
        BY <1>3, <1>5, <2>1, <2>2, <3>2
    <2>3. CASE i # Len(rx) + 1
      <3>1. i \in 1 .. Len(rx) /\ n + i \in 1 .. m + 1
        BY <1>1, <1>5, <2>3
      <3>2. /\ rx[i].val = ByteAt(T[n + i]) /\ (rx[i].trigger <=> T[n + i].slot = 1)
            /\ U[n + i] = T[n + i] /\ rx'[i] = rx[i]
        BY <1>5, <1>9, <3>1 DEF Known
      <3>3. QED
        BY <2>1, <3>2
    <2>4. QED
      BY <2>2, <2>3
  <1>10. /\ m + 1 \in Nat /\ x <= m + 1 /\ n = Len(mBuffer') /\ m + 1 = n + Len(rx')
         /\ (m + 1) + 1 = m + 2
    BY <1>1, <1>2, <1>5
  <1>11. QED
    BY <1>1, <1>7, <1>8, <1>9, <1>10 DEF Known

\* The task pushes a byte: c bytes are gone from the ring, of which some may have
\* been of the unknown ones.
LEMMA KnownParse ==
    ASSUME TypeInv, NEW T, NEW x \in Nat, NEW n \in Nat, NEW m \in Nat, Known(T, x, n, m), x <= n + 1,
           Parse, bus' = bus, Line' = Line,
           NEW c \in Nat, c <= n + 1, Len(mBuffer') = n + 1 - c,
           NEW y \in Nat, x <= y + c, y <= m - c,
           NEW n1 \in Nat, n1 = n + 1 - c, NEW m1 \in Nat, m1 = m - c
    PROVE  Known(Shift(T, c), y, n1, m1)'
  <1> DEFINE U == Shift(T, c)
  <1>0. \A i \in Nat : U[i] = T[i + c]
    BY DEF Shift
  <1> HIDE DEF U
  <1>1. /\ x <= m /\ bus \in Buses
        /\ n = Len(mBuffer) /\ m = n + Len(rx) /\ Path(T, x + 1, m + 1) /\ T[m + 1] = Line
        /\ rx \in Seq(RxByte) /\ rx # <<>> /\ Len(rx) \in Nat /\ FBTypeOK
        /\ rx' = Tail(rx) /\ PushByte(Head(rx).val)
    BY LenProperties DEF Known, TypeInv, TypeOK, Parse
  <1>2. PICK l \in Nat : l = Len(rx) /\ l >= 1
    BY <1>1, EmptySeq
  <1> DEFINE val == rx[1].val
             V == WithByte(val)
  <1>3. /\ Len(rx') = l - 1
        /\ \A i \in 1 .. l - 1 : rx'[i] = rx[i + 1]
    BY <1>1, <1>2, HeadTailProperties
  <1>4. Head(rx) = rx[1] /\ val \in Byte
    <2>1. Head(rx) \in RxByte
      BY <1>1, HeadTailProperties
    <2>2. Head(rx) = rx[1]
      BY <1>1
    <2>3. QED
      BY <2>1, <2>2 DEF RxByte
  <1>5. m = n + l /\ x <= m /\ n + 1 <= m
    BY <1>1, <1>2
  <1>6. \A i \in 1 .. n1 : mBuffer'[i] = V[i + c]
    <2>1. PushByte(val) /\ FBTypeOK /\ val \in Byte /\ n = Len(mBuffer)
      BY <1>1, <1>4
    <2> HIDE DEF val
    <2>2. PICK e \in Nat : /\ e <= n + 1 /\ Len(mBuffer') = n + 1 - e
                           /\ \A i \in 1 .. n + 1 - e : mBuffer'[i] = V[i + e]
      BY <2>1, PushShifts
    <2>3. n + 1 - e = n + 1 - c
      BY <2>2
    <2>4. e = c
      BY <2>3
    <2>5. QED
      BY <2>2, <2>4
  <1>7. ASSUME NEW i \in Nat, x < i, i <= n + 1
        PROVE  V[i] = ByteAt(T[i])
    <2>0. V[i] = IF i = n + 1 THEN val ELSE mBuffer[i]
      BY <1>1 DEF WithByte
    <2>1. CASE i = n + 1
      <3>1. 1 \in 1 .. Len(rx) /\ n + 1 > x
        BY <1>2, <1>7, <2>1
      <3>2. val = ByteAt(T[n + 1])
        BY <3>1 DEF Known
      <3>3. QED
        BY <2>0, <2>1, <3>2
    <2>2. CASE i # n + 1
      <3>1. i \in 1 .. n /\ i > x
        <4>1. i >= 1 /\ i <= n
          BY <1>7, <2>2
        <4>2. QED
          BY <1>7, <4>1
      <3>2. mBuffer[i] = ByteAt(T[i])
        BY <3>1 DEF Known
      <3>3. QED
        BY <2>0, <2>2, <3>2
    <2>3. QED
      BY <2>1, <2>2
  <1> HIDE DEF V, val
  <1>8. ASSUME NEW i \in 1 .. n1, i > y
        PROVE  mBuffer'[i] = ByteAt(U[i])'
    <2>1. i \in Nat /\ i + c \in Nat /\ x < i + c /\ i + c <= n + 1
      BY <1>8
    <2>2. mBuffer'[i] = ByteAt(T[i + c])
      BY <1>6, <1>7, <2>1
    <2>3. U[i] = T[i + c]
      BY <1>0, <2>1
    <2>4. ByteAt(U[i])' = ByteAt(U[i])
      BY PlaceStutter
    <2>5. QED
      BY <2>2, <2>3, <2>4
  <1>9. ASSUME NEW i \in 1 .. l - 1, n1 + i > y
        PROVE  /\ rx'[i].val = ByteAt(U[n1 + i])'
               /\ rx'[i].trigger <=> U[n1 + i].slot = 1
    <2>1. i \in Nat /\ i >= 1 /\ i <= l - 1
      OBVIOUS
    <2>2. /\ i + 1 \in 1 .. l /\ n + (i + 1) > x /\ n1 + i \in Nat
          /\ (n1 + i) + c = n + (i + 1)
      BY <1>9, <2>1
    <2>3. /\ rx[i + 1].val = ByteAt(T[n + (i + 1)])
          /\ rx[i + 1].trigger <=> T[n + (i + 1)].slot = 1
      BY <1>2, <2>2 DEF Known
    <2>4. U[n1 + i] = T[n + (i + 1)]
      BY <1>0, <2>2
    <2>5. ByteAt(U[n1 + i])' = ByteAt(U[n1 + i])
      BY PlaceStutter
    <2>6. rx'[i] = rx[i + 1]
      BY <1>3
    <2>7. QED
      BY <2>3, <2>4, <2>5, <2>6
  <1>10. Path(U, y + 1, m1 + 1)
    <2>1. /\ x + 1 \in Nat /\ m + 1 \in Nat /\ y + 1 \in Nat /\ m1 + 1 \in Nat
          /\ x + 1 <= (y + 1) + c /\ (m1 + 1) + c <= m + 1
      OBVIOUS
    <2>2. QED
      BY <1>1, <2>1, PathShift DEF U
  <1>11. Path(U, y + 1, m1 + 1)'
    BY <1>10, PathStutter
  <1>12. U[m1 + 1] = Line'
    <2>1. m1 + 1 \in Nat /\ (m1 + 1) + c = m + 1
      OBVIOUS
    <2>2. QED
      BY <1>0, <1>1, <2>1
  <1>13. y <= m1 /\ m1 = n1 + (l - 1)
    BY <1>5
  <1>14. Known(U, y, n1, m1)'
    BY <1>3, <1>8, <1>9, <1>11, <1>12, <1>13 DEF Known
  <1>15. QED
    BY <1>14 DEF U

\* The next byte is one of the line.
LEMMA NextKnown ==
    ASSUME TypeInv, NEW T, NEW x \in Nat, NEW n \in Nat, NEW m \in Nat, Known(T, x, n, m),
           x <= n, rx # <<>>
    PROVE  /\ n + 1 <= m /\ Head(rx) = rx[1]
           /\ Head(rx).val = ByteAt(T[n + 1])
           /\ Head(rx).trigger <=> T[n + 1].slot = 1
           /\ IsPlace(T[n + 1])
  <1>1. /\ n \in Nat /\ m \in Nat /\ x \in Nat /\ m = n + Len(rx)
        /\ Path(T, x + 1, m + 1) /\ rx \in Seq(RxByte) /\ Len(rx) \in Nat
    BY LenProperties DEF Known, TypeInv, TypeOK
  <1>2. Len(rx) \in Nat \ {0} /\ Head(rx) = rx[1]
    BY <1>1, EmptySeq
  <1>3. 1 \in 1 .. Len(rx) /\ n + 1 > x /\ n + 1 <= m /\ n + 1 \in x + 1 .. m + 1
    BY <1>1, <1>2
  <1>4. IsPlace(T[n + 1])
    BY <1>1, <1>3 DEF Path
  <1>5. rx[1].val = ByteAt(T[n + 1]) /\ (rx[1].trigger <=> T[n + 1].slot = 1)
    BY <1>3 DEF Known
  <1>6. QED
    BY <1>2, <1>3, <1>4, <1>5

\* With nothing unknown in the ring the task pushes as CleanPush says.
LEMMA CleanParse ==
    ASSUME TypeInv, ClearBuses, LocksFit \/ Unlocked,
           NEW T, NEW n \in Nat, NEW m \in Nat, Known(T, 0, n, m), Parse, bus' = bus,
           NEW p, NEW l \in Nat,
           \/ n # HEATPUMP_MAX_FRAME_LENGTH /\ l = n + 1 /\ p = T[1]
           \/ n = HEATPUMP_MAX_FRAME_LENGTH /\ l = n /\ p = T[2]
    PROVE  Pushed(p, l)
  <1>1. /\ n \in Nat /\ m \in Nat /\ n = Len(mBuffer) /\ Path(T, 0 + 1, m + 1)
        /\ rx # <<>> /\ PushByte(Head(rx).val)
    BY DEF Known, Parse
  <1>2. 0 <= n /\ n + 1 \in Nat
    BY <1>1
  <1>3. n + 1 <= m /\ Head(rx).val = ByteAt(T[n + 1])
    BY <1>1, <1>2, NextKnown
  <1>4. Path(T, 1, n + 1)
    <2>1. 0 + 1 \in Nat /\ m + 1 \in Nat /\ 0 + 1 <= 1 /\ n + 1 <= m + 1 /\ 1 \in Nat
      BY <1>3
    <2>2. QED
      BY <1>1, <1>2, <2>1, PathWithin
  <1>5. \A i \in 1 .. n : mBuffer[i] = ByteAt(T[i])
    <2>1. \A i \in 1 .. n : i > 0
      BY <1>1
    <2>2. QED
      BY <2>1 DEF Known
  <1>6. PushByte(ByteAt(T[n + 1]))
    BY <1>1, <1>3
  <1>7. CASE n # HEATPUMP_MAX_FRAME_LENGTH /\ l = n + 1 /\ p = T[1]
    <2>1. PICK d \in Nat : d = 0
      OBVIOUS
    <2>2. /\ d = (IF n = HEATPUMP_MAX_FRAME_LENGTH THEN 1 ELSE 0)
          /\ p = T[1 + d] /\ n + 1 - d = l
      BY <1>7, <2>1
    <2>3. Pushed(p, n + 1 - d)
      BY <1>1, <1>4, <1>5, <1>6, <2>2, CleanPush
    <2>4. QED
      BY <2>2, <2>3
  <1>8. CASE n = HEATPUMP_MAX_FRAME_LENGTH /\ l = n /\ p = T[2]
    <2>1. PICK d \in Nat : d = 1
      OBVIOUS
    <2>2. /\ d = (IF n = HEATPUMP_MAX_FRAME_LENGTH THEN 1 ELSE 0)
          /\ p = T[1 + d] /\ n + 1 - d = l
      BY <1>8, <2>1
    <2>3. Pushed(p, n + 1 - d)
      BY <1>1, <1>4, <1>5, <1>6, <2>2, CleanPush
    <2>4. QED
      BY <2>2, <2>3
  <1>9. QED
    BY <1>7, <1>8

-----------------------------------------------------------------------------
(* On the way to the next request *)

\* A request in the ring: the frames behind it are still to come.
RequestInRing(T, n) == \E r \in 1 .. n : T[r].slot = 1

\* Nothing locked yet, and frames that are too long to be awaited pass through.
Sliding(T, n) ==
    /\ ~LocksFit /\ n = HEATPUMP_MAX_FRAME_LENGTH
    /\ T[1].slot >= 2
    /\ \A j \in 2 .. T[1].slot : TooLong(bus, bus[T[1].kind][j])

\* A frame begins the ring, the one before was taken, and the line is not yet in the
\* next cycle: for each frame still to come it has a byte left, once this one is
\* complete.
Aligned(T, n) ==
    LET frames == bus[T[1].kind] IN
    /\ LocksFit
    /\ T[1].pos = 1 /\ T[1].slot >= 3
    /\ InCycle(T[1]) + n <= CycleLen(T[1].kind)
    /\ mSequence # <<>>
    /\ mSequence[Len(mSequence)] = frames[T[1].slot - 1][1]
    /\ n >= Len(FrameAt(T[1]))
          => Len(frames) - T[1].slot <= CycleLen(T[1].kind) - (InCycle(T[1]) + n)

\* All frames of the cycle were taken.
AtEnd(T, n) == n = 0 /\ T[1].slot = 1 /\ ExpectsRequest

\* The frames up to the next request will be found one by one.
Recovering(T, n) ==
    RequestInRing(T, n) \/ Sliding(T, n) \/ Aligned(T, n) \/ AtEnd(T, n)

\* The numbers of a frame.
LEMMA FrameNumbers ==
    ASSUME TypeInv, NEW p, IsPlace(p), p.slot > 1
    PROVE  /\ Len(FrameAt(p)) \in Nat /\ Len(FrameAt(p)) >= 3
           /\ Len(FrameAt(p)) <= HEATPUMP_MAX_FRAME_LENGTH
           /\ FrameAt(p)[2] \in Nat
           /\ bus.checksum # "XOR" => Len(FrameAt(p)) = FrameAt(p)[2] + 3
           /\ FrameAt(p)[1] \in FrameIds /\ FrameAt(p)[1] > 0
  <1> DEFINE f == FrameAt(p)
  <1>1. /\ bus \in Buses /\ bus.version \in Protocols
        /\ bus.checksum \in IF bus.version \in XorOnlyProtocols THEN {"XOR"}
                                                              ELSE {"XOR", "CRC16"}
        /\ IsFrame(f, bus.version, bus.checksum)
    <2>1. bus \in Buses
      BY DEF TypeInv
    <2>2. QED
      BY <2>1, PlaceNumbers, MainBusAssumption
  <1>2. /\ f[1] \in FrameIds /\ f[2] \in 1 .. 255 /\ Len(f) \in Nat
        /\ Len(f) = 1 + f[2] + (IF bus.checksum = "XOR" THEN 1 ELSE 2)
        /\ Len(f) <= HEATPUMP_MAX_FRAME_LENGTH
    BY <1>1, FrameShape
  <1>3. PICK n \in Nat : n = f[2] /\ n >= 1
    <2>1. \A l \in 1 .. 255 : l \in Nat /\ l >= 1
      OBVIOUS
    <2>2. QED
      BY <1>2, <2>1
  <1>4. Len(f) >= 3 /\ (bus.checksum # "XOR" => Len(f) = n + 3)
    BY <1>2, <1>3
  <1>5. f[1] > 0
    BY <1>2 DEF FrameIds, HMI_MESSAGE_IDENTIFIER, MAIN_MESSAGE_IDENTIFIER,
                ENERGY_MESSAGE_IDENTIFIER, ERROR_MESSAGE_IDENTIFIER, EXTRA_MESSAGE_IDENTIFIER
  <1>6. QED
    BY <1>2, <1>3, <1>4, <1>5

\* What the sequence holds once a frame was taken.
LEMMA ParsedSequence ==
    ASSUME TypeInv, Parse, NEW id \in FrameIds, id > 0, returned' = id
    PROVE  /\ mSequence' # <<>>
           /\ mSequence'[Len(mSequence')] = id
           /\ mSequence # <<>> => mSequence' = <<mSequence[Len(mSequence)], id>>
  <1>1. mSequence \in Seq(FrameIds) /\ Len(mSequence) \in Nat /\ Len(mSequence) <= 2
    BY LenProperties DEF TypeInv, TypeOK
  <1>2. mSequence' = PushOverwrite(id)
    BY DEF Parse
  <1>3. CASE Len(mSequence) = 2
    <2>1. mSequence' = <<mSequence[2], id>>
      BY <1>2, <1>3 DEF PushOverwrite
    <2>2. QED
      BY <1>3, <2>1
  <1>4. CASE Len(mSequence) = 1
    <2>1. mSequence' = Append(mSequence, id)
      BY <1>2, <1>4 DEF PushOverwrite
    <2>2. mSequence = <<mSequence[1]>>
      BY <1>1, <1>4
    <2>3. Append(<<mSequence[1]>>, id) = <<mSequence[1], id>>
      BY AppendSecond
    <2>4. mSequence' = <<mSequence[1], id>>
      BY <2>1, <2>2, <2>3
    <2>5. QED
      BY <1>4, <2>4
  <1>5. CASE Len(mSequence) = 0
    <2>1. mSequence' = Append(mSequence, id)
      BY <1>2, <1>5 DEF PushOverwrite
    <2>2. mSequence = <<>>
      BY <1>1, <1>5, EmptySeq
    <2>3. /\ mSequence' # <<>> /\ Len(mSequence') = 1 /\ mSequence'[1] = id
      <3>1. /\ Append(mSequence, id) # <<>>
            /\ Len(Append(mSequence, id)) = Len(mSequence) + 1
            /\ Append(mSequence, id)[Len(mSequence) + 1] = id
        BY <1>1, AppendProperties
      <3>2. Len(mSequence) + 1 = 1
        BY <1>5
      <3>3. QED
        BY <2>1, <3>1, <3>2
    <2>4. QED
      BY <2>2, <2>3
  <1>6. Len(mSequence) = 0 \/ Len(mSequence) = 1 \/ Len(mSequence) = 2
    <2>1. PICK k \in Nat : k = Len(mSequence) /\ k <= 2
      BY <1>1
    <2>2. k = 0 \/ k = 1 \/ k = 2
      BY <2>1
    <2>3. QED
      BY <2>1, <2>2
  <1>7. QED
    BY <1>3, <1>4, <1>5, <1>6

\* Behind a frame the next one begins, or the next cycle.
LEMMA BehindFrame ==
    ASSUME bus \in Buses, NEW T, NEW a \in Nat, NEW m \in Nat, Path(T, a, m),
           NEW i \in Nat, a <= i, T[i].pos = 1,
           NEW l \in Nat, l = Len(FrameAt(T[i])), i + l <= m
    PROVE  /\ T[i + l].pos = 1
           /\ T[i].slot < Len(bus[T[i].kind])
                => T[i + l].kind = T[i].kind /\ T[i + l].slot = T[i].slot + 1
           /\ T[i].slot = Len(bus[T[i].kind]) => T[i + l].slot = 1
           /\ IsPlace(T[i + l])
           /\ \A j \in i .. i + l - 1 : T[j].slot = T[i].slot
  <1>1. i \in a .. m /\ i + l \in i .. m /\ i + l \in a .. m
    OBVIOUS
  <1>2. IsPlace(T[i]) /\ IsPlace(T[i + l]) /\ Apart(T, i, i + l)
    BY <1>1 DEF Path
  <1>3. T[i].slot \in Nat /\ Len(bus[T[i].kind]) \in Nat
    BY <1>2, PlaceNumbers
  <1>4. T[i].pos + ((i + l) - i) = Len(FrameAt(T[i])) + 1
    OBVIOUS
  <1>5. IF T[i].slot < Len(bus[T[i].kind])
        THEN T[i + l].kind = T[i].kind /\ T[i + l].slot = T[i].slot + 1 /\ T[i + l].pos = 1
        ELSE T[i + l].slot = 1 /\ T[i + l].pos = 1
    BY <1>2, <1>4 DEF Apart
  <1>6. ASSUME NEW j \in i .. i + l - 1 PROVE T[j].slot = T[i].slot
    <2>1. j \in Nat /\ j \in i .. m /\ j \in a .. m /\ T[i].pos + (j - i) <= Len(FrameAt(T[i]))
      OBVIOUS
    <2>2. Apart(T, i, j)
      BY <1>1, <2>1 DEF Path
    <2>3. QED
      BY <2>1, <2>2 DEF Apart
  <1>7. T[i].slot = Len(bus[T[i].kind]) => ~(T[i].slot < Len(bus[T[i].kind]))
    BY <1>3
  <1>8. QED
    BY <1>2, <1>5, <1>6, <1>7, Zenon

\* The places Known speaks of.
LEMMA KnownPath ==
    ASSUME TypeInv, NEW T, NEW n \in Nat, NEW m \in Nat, Known(T, 0, n, m), rx # <<>>
    PROVE  /\ bus \in Buses /\ n = Len(mBuffer) /\ n <= HEATPUMP_MAX_FRAME_LENGTH
           /\ n + 1 <= m /\ Path(T, 1, m + 1)
           /\ \A i \in Nat : 1 <= i /\ i <= m + 1 => IsPlace(T[i])
  <1>1. 0 \in Nat /\ 0 <= n
    OBVIOUS
  <1>2. n + 1 <= m
    BY <1>1, NextKnown
  <1>3. Path(T, 0 + 1, m + 1) /\ n = Len(mBuffer)
    BY DEF Known
  <1>4. bus \in Buses /\ Len(mBuffer) <= HEATPUMP_MAX_FRAME_LENGTH
    BY DEF TypeInv, FBInv, FBTypeOK
  <1>5. 0 + 1 = 1
    OBVIOUS
  <1>6. Path(T, 1, m + 1)
    BY <1>3, <1>5
  <1>7. \A i \in Nat : 1 <= i /\ i <= m + 1 => i \in 1 .. m + 1
    OBVIOUS
  <1>8. \A i \in Nat : 1 <= i /\ i <= m + 1 => IsPlace(T[i])
    BY <1>6, <1>7 DEF Path
  <1>9. QED
    BY <1>2, <1>3, <1>4, <1>6, <1>8

\* A full ring that begins with the request, or with a frame that is too long to be
\* awaited: it slides on by a byte, or the next frame is taken and the one after it
\* begins the ring.
LEMMA Slides ==
    ASSUME TypeInv, ClearBuses, LongCycles, LocksFit \/ Unlocked,
           NEW T, NEW n \in Nat, NEW m \in Nat, Known(T, 0, n, m), Parse, bus' = bus,
           n = HEATPUMP_MAX_FRAME_LENGTH,
           T[1].slot = 1 \/ ~LocksFit,
           \A j \in 2 .. T[1].slot : TooLong(bus, bus[T[1].kind][j]),
           NEW c \in Nat, NEW n1 \in Nat, n1 = n + 1 - c, Len(mBuffer') = n1
    PROVE  Sliding(Shift(T, c), n1)' \/ Aligned(Shift(T, c), n1)'
  <1> DEFINE U == Shift(T, c)
             p == T[2]
             f == FrameAt(p)
             k == T[1].slot
             kind == T[1].kind
             frames == bus[kind]
             H == HEATPUMP_MAX_FRAME_LENGTH
  <1>1. /\ bus \in Buses /\ n + 1 <= m /\ Path(T, 1, m + 1) /\ rx # <<>>
        /\ IsPlace(T[1]) /\ IsPlace(p)
    <2>1. rx # <<>>
      BY DEF Parse
    <2>2. n + 1 <= m /\ \A i \in Nat : 1 <= i /\ i <= m + 1 => IsPlace(T[i])
      BY <2>1, KnownPath
    <2>3. 1 \in Nat /\ 2 \in Nat /\ 1 <= m + 1 /\ 2 <= m + 1
      BY <2>2
    <2>4. IsPlace(T[1]) /\ IsPlace(T[2])
      BY <2>2, <2>3
    <2>5. bus \in Buses /\ Path(T, 1, m + 1)
      BY <2>1, KnownPath
    <2>6. QED
      BY <2>1, <2>2, <2>4, <2>5
  <1>2. H \in Nat /\ H >= 1
    BY FrameBufferAssumption
  <1>3. U[1] = T[1 + c]
    BY DEF Shift
  <1> HIDE DEF U, H
  <1>4. /\ kind \in CycleKinds /\ k \in Nat /\ k >= 1 /\ k <= Len(frames)
        /\ Len(frames) \in Nat /\ Len(frames) >= 3 /\ CycleLen(kind) \in Nat
        /\ T[1].pos \in Nat /\ T[1].pos >= 1 /\ T[1].pos <= Len(FrameAt(T[1]))
        /\ Len(FrameAt(T[1])) \in Nat
        /\ k = 1 => Len(FrameAt(T[1])) = 1
    BY <1>1, PlaceNumbers
  <1>5. k < Len(frames)
    <2>1. CASE k = 1
      BY <1>4, <2>1
    <2>2. CASE k # 1
      <3>1. 2 <= k
        BY <1>4, <2>2
      <3>2. \A j \in 2 .. k - 1 : TooLong(bus, frames[j])
        <4>1. \A j \in 2 .. k - 1 : j \in 2 .. k
          BY <1>4
        <4>2. QED
          BY <4>1
      <3>3. QED
        BY <1>1, <1>4, <3>1, <3>2, LongBehind
    <2>3. QED
      BY <2>1, <2>2
  <1>6. PICK l \in Nat : l = k + 1 /\ 2 <= l /\ l <= Len(frames)
    <2>1. k + 1 \in Nat /\ 2 <= k + 1 /\ k + 1 <= Len(frames)
      BY <1>4, <1>5, SMTT(20)
    <2>2. QED
      BY <2>1
  <1>7. /\ l < Len(frames)
        /\ BytesBefore(frames, l) + H + Len(frames) - l <= CycleLen(kind)
    <2>1. \A j \in 2 .. l - 1 : TooLong(bus, frames[j])
      <3>1. l - 1 = k
        BY <1>4, <1>6
      <3>2. QED
        BY <3>1
    <2>2. QED
      BY <1>1, <1>4, <1>6, <2>1, LongBehind DEF H
  <1>8. /\ T[1].pos < Len(FrameAt(T[1])) => p.kind = kind /\ p.slot = k /\ p.pos = T[1].pos + 1
        /\ T[1].pos = Len(FrameAt(T[1])) => p.kind = kind /\ p.slot = l /\ p.pos = 1
    <2>1. 1 \in 1 .. m + 1 /\ 2 \in 1 .. m + 1
      BY <1>1
    <2>2. Apart(T, 1, 2)
      BY <1>1, <2>1 DEF Path
    <2>3. T[1].pos < Len(FrameAt(T[1])) => T[1].pos + (2 - 1) <= Len(FrameAt(T[1]))
                                           /\ T[1].pos + (2 - 1) = T[1].pos + 1
      BY <1>4
    <2>4. T[1].pos = Len(FrameAt(T[1])) => T[1].pos + (2 - 1) = Len(FrameAt(T[1])) + 1
      BY <1>4
    <2>5. T[1].pos = Len(FrameAt(T[1])) => p.kind = kind /\ p.slot = l /\ p.pos = 1
      BY <1>5, <1>6, <2>2, <2>4 DEF Apart
    <2>6. T[1].pos < Len(FrameAt(T[1])) => p.kind = kind /\ p.slot = k /\ p.pos = T[1].pos + 1
      BY <2>2, <2>3 DEF Apart
    <2>7. QED
      BY <2>5, <2>6
  <1>11. \/ /\ Len(mBuffer') = n /\ returned' = 0
            /\ UNCHANGED <<mLockedProtocol, mLockedChecksum>>
            /\ p.pos = 1 /\ p.slot > 1 /\ Len(f) <= n => ~LocksFit /\ f[2] + 3 > n
         \/ /\ p.pos = 1 /\ p.slot > 1 /\ Len(f) <= n
            /\ Len(mBuffer') = n - Len(f)
            /\ returned' = f[1]
            /\ LocksFit'
    <2>1. Pushed(p, n)
      BY CleanParse
    <2>2. QED
      BY <2>1 DEF Pushed
  <1> HIDE DEF f, p, k, kind, frames
  <1>12. CASE /\ Len(mBuffer') = n /\ returned' = 0
              /\ UNCHANGED <<mLockedProtocol, mLockedChecksum>>
              /\ p.pos = 1 /\ p.slot > 1 /\ Len(f) <= n => ~LocksFit /\ f[2] + 3 > n
    <2>1. n1 = n /\ c = 1
      BY <1>12
    <2>2. U[1] = p
      BY <1>3, <2>1 DEF p
    <2>3. /\ ~LocksFit /\ p.kind = kind /\ p.slot >= 2 /\ p.slot \in Nat
          /\ \A j \in 2 .. p.slot : TooLong(bus, frames[j])
      <3>1. CASE T[1].pos < Len(FrameAt(T[1]))
        <4>1. k # 1
          <5>1. ~(T[1].pos < 1)
            BY <1>4
          <5>2. QED
            BY <1>4, <3>1, <5>1
        <4>2. p.slot = k /\ p.kind = kind
          BY <1>8, <3>1
        <4>3. ~LocksFit /\ \A j \in 2 .. k : TooLong(bus, frames[j])
          BY <4>1 DEF k, frames, kind
        <4>4. QED
          BY <1>4, <4>1, <4>2, <4>3
      <3>2. CASE T[1].pos = Len(FrameAt(T[1]))
        <4>1. p.slot = l /\ p.kind = kind /\ p.pos = 1
          BY <1>8, <3>2
        <4>2. p.slot > 1
          BY <1>6, <4>1
        <4>3. /\ Len(f) \in Nat /\ Len(f) <= n /\ f[2] \in Nat
              /\ bus.checksum # "XOR" => Len(f) = f[2] + 3
          BY <1>1, <4>2, FrameNumbers DEF f
        <4>4. ~LocksFit /\ f[2] + 3 > n
          BY <1>12, <4>1, <4>2, <4>3
        <4>5. bus.checksum = "XOR"
          BY <4>3, <4>4
        <4>6. f = frames[l]
          BY <4>1 DEF f, FrameAt, frames
        <4>7. TooLong(bus, frames[l])
          BY <4>4, <4>5, <4>6 DEF TooLong
        <4>8. ASSUME NEW j \in 2 .. l PROVE TooLong(bus, frames[j])
          <5>1. j = l \/ j \in 2 .. k
            BY <1>4, <1>6
          <5>2. \A i \in 2 .. k : TooLong(bus, frames[i])
            BY DEF k, frames, kind
          <5>3. QED
            BY <4>7, <5>1, <5>2
        <4>9. QED
          BY <1>6, <4>1, <4>4, <4>8
      <3>3. QED
        BY <1>4, <3>1, <3>2
    <2>4. ~LocksFit'
      BY <1>12, <2>3 DEF LocksFit
    <2>5. \A j \in 2 .. p.slot : TooLong(bus', bus'[p.kind][j])
      BY <2>3 DEF frames
    <2>6. Sliding(U, n1)'
      BY <2>1, <2>2, <2>3, <2>4, <2>5 DEF Sliding
    <2>7. QED
      BY <2>6 DEF U
  <1>13. CASE /\ p.pos = 1 /\ p.slot > 1 /\ Len(f) <= n
              /\ Len(mBuffer') = n - Len(f)
              /\ returned' = f[1]
              /\ LocksFit'
    <2>1. p.slot = l /\ p.kind = kind
      <3>1. ~(T[1].pos < Len(FrameAt(T[1])))
        BY <1>4, <1>8, <1>13, SMTT(20)
      <3>2. QED
        BY <1>4, <1>8, <3>1
    <2>2. PICK e \in Nat : e = Len(f) /\ e >= 3
      BY <1>1, <1>13, FrameNumbers DEF f
    <2>3. n1 = n - e /\ c = 1 + e
      BY <1>13, <2>2
    <2>4. T[2 + e].pos = 1 /\ T[2 + e].kind = kind /\ T[2 + e].slot = l + 1
          /\ IsPlace(T[2 + e])
      <3>1. 2 \in Nat /\ 1 <= 2 /\ 2 + e <= m + 1 /\ m + 1 \in Nat /\ 1 \in Nat
        BY <1>1, <1>13, <2>2
      <3>2. e = Len(FrameAt(T[2])) /\ T[2].pos = 1
        BY <1>13, <2>2 DEF f, p
      <3>3. T[2].slot < Len(bus[T[2].kind])
        BY <1>7, <2>1 DEF p, frames
      <3>4. /\ T[2 + e].pos = 1 /\ T[2 + e].kind = T[2].kind /\ T[2 + e].slot = T[2].slot + 1
            /\ IsPlace(T[2 + e])
        BY <1>1, <3>1, <3>2, <3>3, BehindFrame
      <3>5. QED
        BY <2>1, <3>4 DEF p
    <2>5. U[1] = T[2 + e]
      <3>1. 1 + c = 2 + e
        BY <2>3
      <3>2. QED
        BY <1>3, <3>1
    <2>6. BytesBefore(frames, l + 1) = BytesBefore(frames, l) + e /\ BytesBefore(frames, l) \in Nat
      <3>1. bus[p.kind] = frames
        BY <2>1 DEF frames
      <3>2. QED
        BY <1>1, <2>1, <2>2, <3>1, PlaceNumbers DEF f
    <2>7. InCycle(U[1]) = BytesBefore(frames, l) + e + 1
      <3>1. InCycle(T[2 + e]) = BytesBefore(frames, l + 1) + 1
        BY <2>4 DEF InCycle, frames
      <3>2. QED
        BY <2>5, <2>6, <3>1
    <2>8. /\ InCycle(U[1]) + n1 <= CycleLen(kind)
          /\ Len(frames) - (l + 1) <= CycleLen(kind) - (InCycle(U[1]) + n1)
      <3>1. InCycle(U[1]) + n1 = BytesBefore(frames, l) + H + 1
        BY <1>2, <2>2, <2>3, <2>6, <2>7 DEF H
      <3>2. PICK b \in Nat, t \in Nat, s \in Nat :
               b = BytesBefore(frames, l) /\ t = CycleLen(kind) /\ s = Len(frames)
        BY <1>4, <2>6
      <3>3. l < s /\ b + H + s - l <= t
        BY <1>7, <3>2
      <3>4. b + H + 1 <= t /\ s - (l + 1) <= t - (b + H + 1)
        BY <1>2, <3>3
      <3>5. QED
        BY <3>1, <3>2, <3>4
    <2>9. /\ mSequence' # <<>>
          /\ mSequence'[Len(mSequence')] = frames[l][1]
      <3>1. f[1] \in FrameIds /\ f[1] > 0
        BY <1>1, <1>13, FrameNumbers DEF f
      <3>2. PICK id \in FrameIds : id = f[1] /\ id > 0
        BY <3>1
      <3>3. mSequence' # <<>> /\ mSequence'[Len(mSequence')] = id
        BY <1>13, <3>2, ParsedSequence
      <3>4. f = frames[l]
        BY <2>1 DEF f, FrameAt, frames
      <3>5. QED
        BY <3>2, <3>3, <3>4
    <2>10. U[1].kind = kind /\ U[1].slot = l + 1 /\ U[1].pos = 1 /\ l + 1 >= 3
           /\ (l + 1) - 1 = l
      BY <1>6, <2>4, <2>5
    <2>11. /\ InCycle(U[1])' = InCycle(U[1]) /\ CycleLen(kind)' = CycleLen(kind)
           /\ bus'[kind] = frames
      BY PlaceStutter DEF frames
    <2>12. Aligned(U, n1)'
      BY <1>13, <2>8, <2>9, <2>10, <2>11 DEF Aligned
    <2>13. QED
      BY <2>12 DEF U
  <1>14. QED
    BY <1>11, <1>12, <1>13

\* Aligned the task takes one frame after the other, the last one with its last byte.
LEMMA AlignedParse ==
    ASSUME TypeInv, ClearBuses,
           NEW T, NEW n \in Nat, NEW m \in Nat, Known(T, 0, n, m), Parse, bus' = bus,
           Aligned(T, n),
           NEW c \in Nat, NEW n1 \in Nat, n1 = n + 1 - c, Len(mBuffer') = n1
    PROVE  Aligned(Shift(T, c), n1)' \/ AtEnd(Shift(T, c), n1)'
  <1> DEFINE U == Shift(T, c)
             p == T[1]
             f == FrameAt(p)
             l == p.slot
             kind == p.kind
             frames == bus[kind]
             H == HEATPUMP_MAX_FRAME_LENGTH
  <1>1. /\ bus \in Buses /\ n + 1 <= m /\ n = Len(mBuffer) /\ Path(T, 1, m + 1) /\ rx # <<>>
        /\ IsPlace(p)
    <2>1. rx # <<>>
      BY DEF Parse
    <2>2. n + 1 <= m /\ \A i \in Nat : 1 <= i /\ i <= m + 1 => IsPlace(T[i])
      BY <2>1, KnownPath
    <2>3. 1 \in Nat /\ 1 <= m + 1
      BY <2>2
    <2>4. IsPlace(T[1])
      BY <2>2, <2>3
    <2>5. bus \in Buses /\ n = Len(mBuffer) /\ Path(T, 1, m + 1)
      BY <2>1, KnownPath
    <2>6. QED
      BY <2>1, <2>2, <2>4, <2>5
  <1>2. U[1] = T[1 + c]
    BY DEF Shift
  <1> HIDE DEF U
  <1>3. /\ LocksFit /\ p.pos = 1 /\ l >= 3
        /\ InCycle(p) + n <= CycleLen(kind)
        /\ mSequence # <<>> /\ mSequence[Len(mSequence)] = frames[l - 1][1]
        /\ n >= Len(f) => Len(frames) - l <= CycleLen(kind) - (InCycle(p) + n)
    BY DEF Aligned
  <1>4. /\ kind \in CycleKinds /\ l \in Nat /\ l <= Len(frames) /\ l > 1
        /\ Len(frames) \in Nat /\ CycleLen(kind) \in Nat
        /\ BytesBefore(frames, l) \in Nat
        /\ BytesBefore(frames, l + 1) = BytesBefore(frames, l) + Len(f)
        /\ BytesBefore(frames, l + 1) <= CycleLen(kind)
        /\ l = Len(frames) => BytesBefore(frames, l + 1) = CycleLen(kind)
    <2>1. /\ kind \in CycleKinds /\ l \in Nat /\ l <= Len(frames)
          /\ Len(frames) \in Nat /\ CycleLen(kind) \in Nat
          /\ BytesBefore(frames, l) \in Nat
          /\ BytesBefore(frames, l + 1) = BytesBefore(frames, l) + Len(f)
          /\ BytesBefore(frames, l + 1) <= CycleLen(kind)
          /\ l = Len(frames) => BytesBefore(frames, l + 1) = CycleLen(kind)
      BY <1>1, PlaceNumbers
    <2>2. l > 1
      BY <1>3, <2>1
    <2>3. QED
      BY <2>1, <2>2
  <1>5. /\ Len(f) \in Nat /\ Len(f) >= 3 /\ Len(f) <= H /\ f[2] \in Nat
        /\ f[1] \in FrameIds /\ f[1] > 0
    BY <1>1, <1>4, FrameNumbers
  <1>6. H \in Nat
    BY FrameBufferAssumption
  <1>7. n # H
    <2> SUFFICES ASSUME n = H PROVE FALSE
      OBVIOUS
    <2>1. n >= 3
      BY <1>5, <1>6
    <2>2. ASSUME NEW j \in Nat, 1 <= j, j <= 3 PROVE mBuffer[j] = f[j]
      <3>1. 1 \in Nat /\ 1 <= 1 /\ j <= Len(f) /\ 1 + j - 1 <= m + 1 /\ m + 1 \in Nat
        BY <1>1, <1>5, <2>1, <2>2
      <3>2. ByteAt(T[1 + j - 1]) = f[j]
        BY <1>1, <1>3, <2>2, <3>1, FrameInLine
      <3>3. 1 + j - 1 = j /\ j \in 1 .. n /\ j > 0
        BY <2>1, <2>2
      <3>4. mBuffer[j] = ByteAt(T[j])
        BY <3>3 DEF Known
      <3>5. QED
        BY <3>2, <3>3, <3>4
    <2>3. mBuffer[1] = f[1] /\ mBuffer[2] = f[2]
      BY <2>2
    <2>4. <<f[1], f[2]>> \in SyncTable
      BY <1>1, <1>3, <1>4, <2>3, FrameOfBus
    <2>5. IsSync(mBuffer)
      BY <1>1, <2>1, <2>3, <2>4 DEF IsSync
    <2>6. mLockedProtocol # "UNKNOWN"
      BY <1>1, <1>3, MainBusAssumption DEF LocksFit, Protocols
    <2>7. QED
      BY <1>1, <2>5, <2>6 DEF TypeInv, FBInv, LockedHeaderNeverDropped
  <1>10. \/ /\ Len(mBuffer') = n + 1 /\ returned' = 0
            /\ UNCHANGED <<mLockedProtocol, mLockedChecksum>>
            /\ ~(Len(f) <= n + 1)
         \/ /\ Len(f) <= n + 1
            /\ Len(mBuffer') = n + 1 - Len(f)
            /\ returned' = f[1]
            /\ LocksFit'
    <2>1. Pushed(p, n + 1)
      <3>1. n + 1 \in Nat /\ n # HEATPUMP_MAX_FRAME_LENGTH /\ (LocksFit \/ Unlocked)
        BY <1>3, <1>7
      <3>2. QED
        BY <3>1, CleanParse
    <2>2. QED
      BY <1>3, <1>4, <2>1 DEF Pushed
  <1>11. PICK b \in Nat, t \in Nat, s \in Nat, e \in Nat, k \in Nat :
            /\ b = BytesBefore(frames, l) /\ t = CycleLen(kind) /\ s = Len(frames)
            /\ e = Len(f) /\ k = l
    BY <1>4, <1>5
  <1>12. /\ InCycle(p) = b + 1
         /\ b + 1 + n <= t /\ k >= 3 /\ k <= s /\ e >= 3
         /\ BytesBefore(frames, k + 1) = b + e /\ b + e <= t
         /\ k = s => b + e = t
         /\ n >= e => s - k <= t - (b + 1 + n)
    <2>1. InCycle(p) = b + 1
      BY <1>3, <1>11 DEF InCycle
    <2>2. QED
      BY <1>3, <1>4, <1>5, <1>11, <2>1
  <1> HIDE DEF f, p, l, kind, frames, H
  <1>13. CASE /\ Len(mBuffer') = n + 1 /\ returned' = 0
              /\ UNCHANGED <<mLockedProtocol, mLockedChecksum>>
              /\ ~(Len(f) <= n + 1)
    <2>1. n1 = n + 1 /\ c = 0
      BY <1>13
    <2>2. U[1] = p
      BY <1>2, <2>1 DEF p
    <2>3. n + 1 < e
      BY <1>11, <1>13
    <2>4. b + 1 + n1 <= t /\ ~(n1 >= e)
      BY <1>12, <2>1, <2>3
    <2>5. mSequence' = mSequence
      BY <1>13 DEF Parse
    <2>6. /\ InCycle(p)' = InCycle(p) /\ CycleLen(kind)' = CycleLen(kind)
          /\ FrameAt(p)' = f
      BY PlaceStutter DEF f
    <2>7. LocksFit'
      BY <1>3, <1>13 DEF LocksFit
    <2>8. bus'[p.kind] = frames /\ p.kind = kind /\ p.slot = l
      BY DEF frames, kind, l
    <2>9. InCycle(p)' + n1 <= CycleLen(kind)' /\ ~(n1 >= Len(FrameAt(p)'))
      BY <1>11, <1>12, <2>4, <2>6
    <2>10. Aligned(U, n1)'
      BY <1>3, <2>2, <2>5, <2>7, <2>8, <2>9 DEF Aligned
    <2>11. QED
      BY <2>10 DEF U
  <1>14. CASE /\ Len(f) <= n + 1
              /\ Len(mBuffer') = n + 1 - Len(f)
              /\ returned' = f[1]
              /\ LocksFit'
    <2>1. n1 = n + 1 - e /\ c = e /\ e <= n + 1
      BY <1>11, <1>14
    <2>2. PICK id \in FrameIds : id = f[1] /\ id > 0
      BY <1>5
    <2>3. /\ mSequence' # <<>> /\ mSequence'[Len(mSequence')] = id
          /\ mSequence' = <<mSequence[Len(mSequence)], id>>
      BY <1>3, <1>14, <2>2, ParsedSequence
    <2>4. f = frames[l]
      BY DEF f, FrameAt, frames, kind, l
    <2>5. /\ T[1 + e].pos = 1
          /\ k < s => T[1 + e].kind = kind /\ T[1 + e].slot = k + 1
          /\ k = s => T[1 + e].slot = 1
          /\ IsPlace(T[1 + e])
      <3>1. PICK h \in Nat : h = 1
        OBVIOUS
      <3>2. 1 \in Nat /\ 1 <= h /\ h + e <= m + 1 /\ m + 1 \in Nat
        BY <1>1, <2>1, <3>1
      <3>3. T[h].pos = 1 /\ e = Len(FrameAt(T[h]))
        BY <1>3, <1>11, <3>1 DEF f, p
      <3>4. /\ T[h + e].pos = 1
            /\ T[h].slot < Len(bus[T[h].kind])
                 => T[h + e].kind = T[h].kind /\ T[h + e].slot = T[h].slot + 1
            /\ T[h].slot = Len(bus[T[h].kind]) => T[h + e].slot = 1
            /\ IsPlace(T[h + e])
        <4>1. bus \in Buses /\ Path(T, 1, m + 1)
          BY <1>1
        <4>2. QED
          BY <3>2, <3>3, <4>1, BehindFrame
      <3>5. T[1].slot = k /\ T[1].kind = kind /\ Len(bus[T[1].kind]) = s
        BY <1>11 DEF p, l, kind, frames
      <3>6. QED
        BY <3>1, <3>4, <3>5
    <2>6. U[1] = T[1 + e]
      BY <1>2, <2>1
    <2>7. CASE k < s
      <3>1. U[1].pos = 1 /\ U[1].kind = kind /\ U[1].slot = k + 1 /\ IsPlace(U[1])
        BY <2>5, <2>6, <2>7
      <3>2. InCycle(U[1]) = b + e + 1
        BY <1>12, <3>1 DEF InCycle, frames
      <3>3. PICK g \in Nat : /\ g = Len(FrameAt(U[1])) /\ g >= 1
                             /\ InCycle(U[1]) <= t
        <4>1. /\ Len(FrameAt(U[1])) \in Nat /\ Len(FrameAt(U[1])) >= 1
              /\ BytesBefore(bus[U[1].kind], U[1].slot + 1)
                   = BytesBefore(bus[U[1].kind], U[1].slot) + Len(FrameAt(U[1]))
              /\ BytesBefore(bus[U[1].kind], U[1].slot + 1) <= CycleLen(U[1].kind)
          BY <1>1, <3>1, PlaceNumbers
        <4>2. BytesBefore(bus[U[1].kind], U[1].slot) = b + e /\ CycleLen(U[1].kind) = t
          BY <1>11, <1>12, <3>1 DEF frames
        <4>3. b + e + Len(FrameAt(U[1])) <= t
          BY <4>1, <4>2
        <4>4. QED
          BY <3>2, <4>1, <4>3
      <3>4. InCycle(U[1]) + n1 = b + 1 + n + 1
        BY <2>1, <3>2
      <3>5. CASE n >= e
        <4>1. b + 1 + n + 1 <= t /\ s - (k + 1) <= t - (b + 1 + n + 1)
          BY <1>12, <2>7, <3>5
        <4>2. QED
          <5>1. InCycle(U[1]) + n1 <= t /\ s - (k + 1) <= t - (InCycle(U[1]) + n1)
            BY <3>4, <4>1
          <5>2. /\ InCycle(U[1])' = InCycle(U[1]) /\ CycleLen(kind)' = CycleLen(kind)
                /\ bus'[kind] = frames
            BY PlaceStutter DEF frames
          <5>3. k + 1 >= 3 /\ (k + 1) - 1 = k
            BY <1>12
          <5>4. mSequence'[Len(mSequence')] = frames[k][1]
            BY <1>11, <2>2, <2>3, <2>4
          <5>5. Aligned(U, n1)'
            BY <1>11, <1>14, <2>3, <3>1, <5>1, <5>2, <5>3, <5>4 DEF Aligned
          <5>6. QED
            BY <5>5 DEF U
      <3>6. CASE ~(n >= e)
        <4>1. n1 = 0
          BY <2>1, <3>6
        <4>2. InCycle(U[1]) + n1 <= t /\ ~(n1 >= g)
          BY <3>3, <4>1, <3>2
        <4>3. /\ InCycle(U[1])' = InCycle(U[1]) /\ CycleLen(kind)' = CycleLen(kind)
              /\ bus'[kind] = frames /\ FrameAt(U[1])' = FrameAt(U[1])
          BY PlaceStutter DEF frames
        <4>4. k + 1 >= 3 /\ (k + 1) - 1 = k
          BY <1>12
        <4>5. mSequence'[Len(mSequence')] = frames[k][1]
          BY <1>11, <2>2, <2>3, <2>4
        <4>6. Aligned(U, n1)'
          BY <1>11, <1>14, <2>3, <3>1, <3>3, <4>2, <4>3, <4>4, <4>5 DEF Aligned
        <4>7. QED
          BY <4>6 DEF U
      <3>7. QED
        BY <3>5, <3>6
    <2>8. CASE k = s
      <3>1. U[1].slot = 1
        BY <2>5, <2>6, <2>8
      <3>2. n1 = 0
        BY <1>12, <2>1, <2>8
      <3>3. mSequence' = <<frames[s - 1][1], frames[s][1]>>
        BY <1>3, <1>11, <2>2, <2>3, <2>4, <2>8
      <3>4. <<frames[s - 1][1], frames[s][1]>> \in RequestSequences
        BY <1>1, <1>4, <1>11, CyclesOfBus DEF IsCycle, frames
      <3>5. AtEnd(U, n1)'
        BY <3>1, <3>2, <3>3, <3>4 DEF AtEnd, ExpectsRequest
      <3>6. QED
        BY <3>5 DEF U
    <2>9. QED
      BY <1>12, <2>7, <2>8
  <1>15. QED
    BY <1>10, <1>13, <1>14

\* The frames before a request in the ring do not take it with them.
LEMMA RequestParse ==
    ASSUME TypeInv, ClearBuses, LongCycles, LocksFit \/ Unlocked,
           NEW T, NEW n \in Nat, NEW m \in Nat, Known(T, 0, n, m), Parse, bus' = bus,
           NEW r \in Nat, 1 <= r, r <= n + 1, T[r].slot = 1,
           NEW c \in Nat, NEW n1 \in Nat, n1 = n + 1 - c, Len(mBuffer') = n1
    PROVE  Recovering(Shift(T, c), n1)'
  <1> DEFINE H == HEATPUMP_MAX_FRAME_LENGTH
  <1>1. /\ bus \in Buses /\ n + 1 <= m /\ Path(T, 1, m + 1) /\ rx # <<>>
        /\ \A i \in Nat : 1 <= i /\ i <= m + 1 => IsPlace(T[i])
    <2>1. rx # <<>>
      BY DEF Parse
    <2>2. QED
      BY <2>1, KnownPath
  <1>2. H \in Nat /\ H >= 1
    BY FrameBufferAssumption
  <1>3. CASE n = H /\ r = 1
    <2>1. \A j \in 2 .. T[1].slot : TooLong(bus, bus[T[1].kind][j])
      BY <1>3
    <2>2. T[1].slot = 1 /\ n = HEATPUMP_MAX_FRAME_LENGTH
      BY <1>3
    <2>3. Sliding(Shift(T, c), n1)' \/ Aligned(Shift(T, c), n1)'
      BY <2>1, <2>2, Slides
    <2>4. QED
      BY <2>3 DEF Recovering
  <1>4. CASE ~(n = H /\ r = 1)
    <2>1. PICK s \in Nat, l \in Nat :
             /\ \/ n # H /\ l = n + 1 /\ s = 1
                \/ n = H /\ l = n /\ s = 2
             /\ s + l = n + 2 /\ 1 <= s /\ s <= r /\ s <= m + 1
      <3>1. CASE n # H
        <4>1. 1 \in Nat /\ n + 1 \in Nat /\ 1 + (n + 1) = n + 2 /\ 1 <= m + 1
          BY <1>1
        <4>2. QED
          BY <3>1, <4>1
      <3>2. CASE n = H
        <4>1. 2 \in Nat /\ 2 + n = n + 2 /\ 1 <= 2 /\ 2 <= r /\ 2 <= m + 1
          BY <1>1, <1>2, <1>4, <3>2
        <4>2. QED
          BY <3>2, <4>1
      <3>3. QED
        BY <3>1, <3>2
    <2>2. PICK p : p = T[s]
      OBVIOUS
    <2>3. Pushed(p, l)
      <3>1. \/ n # HEATPUMP_MAX_FRAME_LENGTH /\ l = n + 1 /\ p = T[1]
            \/ n = HEATPUMP_MAX_FRAME_LENGTH /\ l = n /\ p = T[2]
        BY <2>1, <2>2
      <3>2. QED
        BY <3>1, CleanParse
    <2>4. IsPlace(p)
      BY <1>1, <2>1, <2>2
    <2>5. r > c
      <3>1. CASE Len(mBuffer') = l
        BY <2>1, <3>1
      <3>2. CASE /\ p.pos = 1 /\ p.slot > 1 /\ Len(FrameAt(p)) <= l
                 /\ Len(mBuffer') = l - Len(FrameAt(p))
        <4>1. PICK e \in Nat : e = Len(FrameAt(p))
          BY <2>4, <3>2, FrameNumbers
        <4>2. c = s - 1 + e /\ s + e <= m + 1 /\ e = Len(FrameAt(T[s])) /\ T[s].pos = 1
              /\ m + 1 \in Nat /\ 1 \in Nat
          BY <1>1, <2>1, <2>2, <3>2, <4>1
        <4>3. \A j \in s .. s + e - 1 : T[j].slot = T[s].slot
          <5>1. bus \in Buses /\ Path(T, 1, m + 1) /\ 1 <= s
            BY <1>1, <2>1
          <5>2. e = Len(FrameAt(T[s])) /\ T[s].pos = 1 /\ s + e <= m + 1
                /\ m + 1 \in Nat /\ 1 \in Nat
            BY <4>2
          <5>3. QED
            BY <5>1, <5>2, BehindFrame
        <4>4. ~(r <= c)
          <5> SUFFICES ASSUME r <= c PROVE FALSE
            OBVIOUS
          <5>1. r \in s .. s + e - 1
            <6>1. s <= r /\ c = s - 1 + e
              BY <2>1, <4>2
            <6>2. r <= s + e - 1
              BY <6>1
            <6>3. QED
              BY <6>1, <6>2
          <5>2. p.slot = 1
            BY <2>2, <4>3, <5>1
          <5>3. QED
            BY <3>2, <5>2
        <4>5. QED
          BY <4>4
      <3>3. QED
        BY <2>3, <3>1, <3>2 DEF Pushed
    <2>6. PICK q \in Nat : q = r - c /\ 1 <= q /\ q <= n1
      <3>1. r - c \in Nat /\ 1 <= r - c /\ r - c <= n1
        BY <2>5
      <3>2. QED
        BY <3>1
    <2>7. q + c = r /\ q \in 1 .. n1
      BY <2>6
    <2>8. Shift(T, c)[q] = T[r]
      BY <2>7 DEF Shift
    <2>9. RequestInRing(Shift(T, c), n1)'
      BY <2>7, <2>8 DEF RequestInRing
    <2>10. QED
      BY <2>9 DEF Recovering
  <1>5. QED
    BY <1>3, <1>4

\* On the way to the next request the task stays there until it reads it.
LEMMA RecoveringParse ==
    ASSUME TypeInv, ClearBuses, LongCycles, LocksFit \/ Unlocked,
           NEW T, NEW n \in Nat, NEW m \in Nat, Known(T, 0, n, m), Parse, bus' = bus,
           Recovering(T, n),
           NEW c \in Nat, NEW n1 \in Nat, n1 = n + 1 - c, Len(mBuffer') = n1
    PROVE  Recovering(Shift(T, c), n1)'
  <1>1. CASE RequestInRing(T, n)
    <2>1. PICK r \in 1 .. n : T[r].slot = 1
      BY <1>1 DEF RequestInRing
    <2>2. r \in Nat /\ 1 <= r /\ r <= n + 1
      OBVIOUS
    <2>3. QED
      BY <2>1, <2>2, RequestParse
  <1>2. CASE Sliding(T, n)
    <2>1. /\ n = HEATPUMP_MAX_FRAME_LENGTH /\ ~LocksFit
          /\ \A j \in 2 .. T[1].slot : TooLong(bus, bus[T[1].kind][j])
      BY <1>2 DEF Sliding
    <2>2. Sliding(Shift(T, c), n1)' \/ Aligned(Shift(T, c), n1)'
      BY <2>1, Slides
    <2>3. QED
      BY <2>2 DEF Recovering
  <1>3. CASE Aligned(T, n)
    <2>1. Aligned(Shift(T, c), n1)' \/ AtEnd(Shift(T, c), n1)'
      BY <1>3, AlignedParse
    <2>2. QED
      BY <2>1 DEF Recovering
  <1>4. CASE AtEnd(T, n)
    <2>1. n = 0 /\ T[1].slot = 1 /\ ExpectsRequest /\ rx # <<>> /\ bus \in Buses
      BY <1>4 DEF AtEnd, Parse, TypeInv
    <2>2. 0 \in Nat /\ 0 <= n /\ n + 1 = 1
      BY <2>1
    <2>3. Head(rx).val = ByteAt(T[1]) /\ IsPlace(T[1])
      <3>1. rx # <<>> /\ 0 \in Nat /\ 0 <= n
        BY <2>1, <2>2
      <3>2. Head(rx).val = ByteAt(T[n + 1]) /\ IsPlace(T[n + 1])
        BY <3>1, NextKnown, SMTT(30)
      <3>3. QED
        BY <2>2, <3>2
    <2>4. Head(rx).val = HMI_MESSAGE_IDENTIFIER
      BY <2>1, <2>3, PlaceNumbers
    <2>5. IsRequest
      BY <2>1, <2>4 DEF IsRequest
    <2>6. QED
      BY <2>5 DEF Parse
  <1>5. QED
    BY <1>1, <1>2, <1>3, <1>4 DEF Recovering

\* When it reads the request it is at the end of all frames, and expects it.
LEMMA NoThirdMiss ==
    ASSUME TypeInv, LongCycles, LocksFit \/ Unlocked,
           NEW T, NEW n \in Nat, NEW m \in Nat, Known(T, 0, n, m), Parse,
           Recovering(T, n)
    PROVE  ~Head(rx).trigger
  <1> SUFFICES ASSUME Head(rx).trigger PROVE FALSE
    OBVIOUS
  <1> DEFINE H == HEATPUMP_MAX_FRAME_LENGTH
             kind == T[1].kind
             k == T[1].slot
  <1>1. /\ bus \in Buses /\ n + 1 <= m /\ Path(T, 1, m + 1) /\ rx # <<>> /\ n <= H
        /\ \A i \in Nat : 1 <= i /\ i <= m + 1 => IsPlace(T[i])
    <2>1. rx # <<>>
      BY DEF Parse
    <2>2. QED
      BY <2>1, KnownPath
  <1>2. H \in Nat /\ H >= 1
    BY FrameBufferAssumption
  <1>3. /\ T[n + 1].slot = 1 /\ Head(rx).val = ByteAt(T[n + 1]) /\ IsPlace(T[n + 1])
    <2>1. 0 \in Nat /\ 0 <= n
      OBVIOUS
    <2>2. QED
      BY <1>1, <2>1, NextKnown
  <1>4. InCycle(T[n + 1]) = 1 /\ ByteAt(T[n + 1]) = HMI_MESSAGE_IDENTIFIER
    BY <1>1, <1>3, PlaceNumbers
  <1>5. IsPlace(T[1])
    <2>1. 1 \in Nat /\ 1 <= m + 1
      BY <1>1
    <2>2. QED
      BY <1>1, <2>1
  <1>6. /\ kind \in CycleKinds /\ k \in Nat /\ k <= Len(bus[kind]) /\ Len(bus[kind]) \in Nat
        /\ InCycle(T[1]) \in Nat /\ CycleLen(kind) \in Nat
        /\ BytesBefore(bus[kind], k + 1) <= CycleLen(kind)
        /\ BytesBefore(bus[kind], k + 1) = BytesBefore(bus[kind], k) + Len(FrameAt(T[1]))
        /\ BytesBefore(bus[kind], k) \in Nat /\ Len(FrameAt(T[1])) \in Nat
        /\ T[1].pos \in Nat /\ T[1].pos <= Len(FrameAt(T[1]))
    BY <1>1, <1>5, PlaceNumbers
  <1>7. k > 1 => InCycle(T[1]) >= 2
    BY <1>1, <1>5, BehindRequest
  <1>8. InCycle(T[1]) + n <= CycleLen(kind) => 1 = InCycle(T[1]) + n
    <2>1. 1 \in 1 .. m + 1 /\ n + 1 \in 1 .. m + 1 /\ (n + 1) - 1 = n
      BY <1>1
    <2>2. Apart(T, 1, n + 1)
      BY <1>1, <2>1 DEF Path
    <2>3. QED
      BY <1>4, <2>1, <2>2 DEF Apart
  <1>9. CASE RequestInRing(T, n)
    <2>1. PICK r \in 1 .. n : T[r].slot = 1
      BY <1>9 DEF RequestInRing
    <2>2. r \in Nat /\ 1 <= r /\ r < n + 1 /\ n + 1 <= m + 1 /\ n + 1 \in Nat /\ m + 1 \in Nat
          /\ 1 \in Nat /\ (n + 1) - r <= n
      BY <1>1
    <2>3. (n + 1) - r > H
      BY <1>1, <1>3, <2>1, <2>2, RequestsApart
    <2>4. QED
      BY <1>1, <1>2, <2>2, <2>3
  <1>10. CASE Sliding(T, n)
    <2>1. /\ n = H /\ k >= 2
          /\ \A j \in 2 .. k : TooLong(bus, bus[kind][j])
      BY <1>10 DEF Sliding
    <2>2. k < Len(bus[kind])
      <3>1. \A j \in 2 .. k - 1 : j \in 2 .. k
        BY <1>6
      <3>2. \A j \in 2 .. k - 1 : TooLong(bus, bus[kind][j])
        BY <2>1, <3>1
      <3>3. 2 <= k
        BY <1>6, <2>1
      <3>4. QED
        BY <1>1, <1>6, <3>2, <3>3, LongBehind
    <2>3. PICK l \in Nat : l = k + 1 /\ 2 <= l /\ l <= Len(bus[kind]) /\ l - 1 = k
      <3>1. k \in Nat /\ Len(bus[kind]) \in Nat /\ k >= 2 /\ k < Len(bus[kind])
        BY <1>6, <2>1, <2>2
      <3>2. PICK f \in Nat : f = k
        BY <3>1
      <3> HIDE DEF k
      <3>3. f + 1 \in Nat /\ 2 <= f + 1 /\ f + 1 <= Len(bus[kind]) /\ (f + 1) - 1 = f
        BY <3>1, <3>2
      <3>4. QED
        BY <3>2, <3>3
    <2>4. /\ l < Len(bus[kind])
          /\ BytesBefore(bus[kind], l) + H + Len(bus[kind]) - l <= CycleLen(kind)
      <3>1. \A j \in 2 .. l - 1 : TooLong(bus, bus[kind][j])
        BY <2>1, <2>3
      <3>2. QED
        BY <1>1, <1>6, <2>3, <3>1, LongBehind
    <2>5. InCycle(T[1]) <= BytesBefore(bus[kind], l)
      BY <1>6, <2>3 DEF InCycle
    <2>6. BytesBefore(bus[kind], l) \in Nat
      BY <1>6, <2>3
    <2>7. InCycle(T[1]) + n <= CycleLen(kind)
      <3>1. PICK i \in Nat, b \in Nat, t \in Nat, f \in Nat :
               /\ i = InCycle(T[1]) /\ b = BytesBefore(bus[kind], l) /\ t = CycleLen(kind)
               /\ f = Len(bus[kind])
        BY <1>6, <2>6
      <3>2. i <= b /\ b + H + f - l <= t /\ l < f /\ n = H
        BY <2>1, <2>4, <2>5, <3>1
      <3>3. i + n <= t
        BY <1>2, <3>2
      <3>4. QED
        BY <3>1, <3>3
    <2>8. k > 1
      BY <1>6, <2>1
    <2>9. QED
      BY <1>6, <1>7, <1>8, <2>7, <2>8
  <1>11. CASE Aligned(T, n)
    <2>1. InCycle(T[1]) + n <= CycleLen(kind) /\ k >= 3
      BY <1>11 DEF Aligned
    <2>2. k > 1
      BY <1>6, <2>1
    <2>3. QED
      BY <1>6, <1>7, <1>8, <2>1, <2>2
  <1>12. CASE AtEnd(T, n)
    <2>1. ExpectsRequest
      BY <1>12 DEF AtEnd
    <2>2. QED
      BY <1>3, <1>4, <2>1 DEF Parse, IsRequest
  <1>13. QED
    BY <1>9, <1>10, <1>11, <1>12 DEF Recovering

\* Bytes that come do not change what is in the ring.
LEMMA RecoveringStutter ==
    ASSUME NEW T, NEW n \in Nat, Recovering(T, n), bus' = bus,
           UNCHANGED <<mLockedProtocol, mLockedChecksum, mSequence>>,
           NEW U, \A i \in Nat : 1 <= i /\ i <= n + 1 => U[i] = T[i]
    PROVE  Recovering(U, n)'
  <1>1. U[1] = T[1]
    <2>1. 1 \in Nat /\ 1 <= 1 /\ 1 <= n + 1
      OBVIOUS
    <2>2. QED
      BY <2>1
  <1>2. CASE RequestInRing(T, n)
    <2>1. PICK r \in 1 .. n : T[r].slot = 1
      BY <1>2 DEF RequestInRing
    <2>2. r \in Nat /\ 1 <= r /\ r <= n + 1
      OBVIOUS
    <2>3. U[r].slot = 1
      BY <2>1, <2>2
    <2>4. RequestInRing(U, n)'
      BY <2>3 DEF RequestInRing
    <2>5. QED
      BY <2>4 DEF Recovering
  <1>3. CASE Sliding(T, n)
    <2>1. Sliding(U, n)'
      BY <1>1, <1>3 DEF Sliding, LocksFit
    <2>2. QED
      BY <2>1 DEF Recovering
  <1>4. CASE Aligned(T, n)
    <2>1. /\ InCycle(T[1])' = InCycle(T[1]) /\ CycleLen(T[1].kind)' = CycleLen(T[1].kind)
          /\ FrameAt(T[1])' = FrameAt(T[1])
      BY PlaceStutter
    <2>2. LocksFit' <=> LocksFit
      BY DEF LocksFit
    <2>3. Aligned(U, n)'
      BY <1>1, <1>4, <2>1, <2>2 DEF Aligned
    <2>4. QED
      BY <2>3 DEF Recovering
  <1>5. CASE AtEnd(T, n)
    <2>1. AtEnd(U, n)'
      BY <1>1, <1>5 DEF AtEnd, ExpectsRequest
    <2>2. QED
      BY <2>1 DEF Recovering
  <1>6. QED
    BY <1>2, <1>3, <1>4, <1>5 DEF Recovering

-----------------------------------------------------------------------------
(* At most two requests go by *)

\* x bytes may be anything, and n are in the ring.  Before the locks are taken nothing
\* was lost; only an altered byte may be unknown and still to be read; behind a request
\* that went by only what came before it is unknown; behind two, nothing.
Within(T, x, n) ==
    /\ LocksFit \/ (Unlocked /\ mSequence = <<>> /\ x = 0)
    /\ x <= n + 1
    /\ x = n + 1 => missed = 0 /\ rx # <<>> /\ ~Head(rx).trigger
    /\ missed = 1 => x = 0 \/ (x < n /\ T[x + 1].slot = 1)
    /\ missed = 2 => x = 0 /\ Recovering(T, n)
    /\ missed \in 0 .. 2

\* Some row of places and some numbers fit what the task holds.
Reading == \E T : \E x, n, m \in Nat : Known(T, x, n, m) /\ Within(T, x, n)

\* While the task sends, what it holds does not matter: it was asked for, or it takes an
\* altered byte for the request.
RecInv == IF sending THEN LocksFit /\ missed = 0 ELSE Reading

\* A row of one place.
LEMMA PathBegins ==
    ASSUME bus \in Buses, NEW T, NEW a \in Nat, IsPlace(T[a])
    PROVE  Path(T, a, a)
  <1> DEFINE p == T[a]
  <1>1. /\ p.pos \in Nat /\ p.pos <= Len(FrameAt(p)) /\ Len(FrameAt(p)) \in Nat
        /\ InCycle(p) \in Nat
    BY PlaceNumbers
  <1>2. a - a = 0 /\ \A i \in a .. a : i = a
    OBVIOUS
  <1>3. p.pos + 0 = p.pos /\ InCycle(p) + 0 = InCycle(p) /\ p.pos # Len(FrameAt(p)) + 1
    BY <1>1
  <1> HIDE DEF p
  <1>4. Apart(T, a, a)
    BY <1>2, <1>3 DEF Apart, p
  <1>5. \A i \in a .. a : \A j \in i .. a : Apart(T, i, j)
    <2> SUFFICES ASSUME NEW i \in a .. a, NEW j \in i .. a PROVE Apart(T, i, j)
      OBVIOUS
    <2>1. i = a /\ j = a
      OBVIOUS
    <2>2. QED
      BY <1>4, <2>1
  <1>6. QED
    BY <1>2, <1>5 DEF Path

\* Nothing is known but where the line is.
LEMMA KnownBegins ==
    ASSUME bus \in Buses, bus' = bus, IsPlace(Line'), FBTypeOK', rx' \in Seq(RxByte),
           NEW T, NEW n \in Nat, n = Len(mBuffer'), NEW m \in Nat, m = n + Len(rx'),
           T[m + 1] = Line'
    PROVE  Known(T, m, n, m)'
  <1>1. Path(T, m + 1, m + 1)
    <2>1. m + 1 \in Nat /\ IsPlace(T[m + 1])
      OBVIOUS
    <2>2. QED
      BY <2>1, PathBegins
  <1>2. Path(T, m + 1, m + 1)'
    BY <1>1, PathStutter
  <1>3. Len(rx') \in Nat
    BY LenProperties
  <1>4. \A i \in 1 .. n : ~(i > m)
    BY <1>3
  <1>5. \A i \in 1 .. Len(rx') : ~(n + i > m)
    BY <1>3
  <1>6. QED
    BY <1>2, <1>4, <1>5 DEF Known

\* The line is somewhere.
LEMMA LinePlace == TypeInv => bus \in Buses /\ IsPlace(Line)
  BY DEF TypeInv, TypeOK, IsPlace, Line, Frames

\* In the beginning nothing is there and nothing is lost.
LEMMA RecInit == Init => RecInv
  <1> SUFFICES ASSUME Init PROVE RecInv
    OBVIOUS
  <1>1. bus \in Buses /\ IsPlace(Line)
    BY MainBusTypeInit, LinePlace
  <1>2. mBuffer = <<>> /\ rx = <<>> /\ mSequence = <<>> /\ Unlocked /\ missed = 0 /\ ~sending
    BY DEF Init, TaskInit, FBInit, BusInit, Unlocked
  <1>3. PICK T : T = [i \in Nat |-> Line]
    OBVIOUS
  <1>4. T[1] = Line /\ T[0 + 1] = Line /\ 0 + 1 = 1
    BY <1>3
  <1>5. Path(T, 1, 1)
    <2>1. 1 \in Nat
      OBVIOUS
    <2>2. QED
      BY <1>1, <1>4, <2>1, PathBegins
  <1>6. Len(mBuffer) = 0 /\ Len(rx) = 0
    BY <1>2
  <1>7. Known(T, 0, 0, 0)
    <2>1. Path(T, 0 + 1, 0 + 1)
      BY <1>4, <1>5
    <2>2. 0 \in Nat /\ 0 = 0 + 0 /\ \A i \in 1 .. 0 : FALSE
      OBVIOUS
    <2>3. QED
      BY <1>4, <1>6, <2>1, <2>2 DEF Known
  <1>8. Within(T, 0, 0)
    BY <1>2 DEF Within
  <1>9. QED
    BY <1>2, <1>7, <1>8 DEF RecInv, Reading

\* A byte arrives that is one of the line.
LEMMA RecArrives ==
    ASSUME TypeInv, Reading, NextByteArrives, Advance,
           missed' = missed \/ missed' = 0
    PROVE  Reading'
  <1>0. PICK T : \E x, n, m \in Nat : Known(T, x, n, m) /\ Within(T, x, n)
    BY DEF Reading
  <1>1. PICK x \in Nat, n \in Nat, m \in Nat : Known(T, x, n, m) /\ Within(T, x, n)
    BY <1>0
  <1>2. PICK U : U = [i \in Nat |-> IF i = m + 2 THEN Line' ELSE T[i]]
    OBVIOUS
  <1>3. U[m + 2] = Line' /\ \A i \in Nat : i # m + 2 => U[i] = T[i]
    BY <1>2
  <1>4. \A i \in 1 .. m + 1 : U[i] = T[i]
    <2>1. \A i \in 1 .. m + 1 : i \in Nat /\ i # m + 2
      OBVIOUS
    <2>2. QED
      BY <1>3, <2>1
  <1>5. Known(U, x, n, m + 1)'
    BY <1>1, <1>3, <1>4, KnownGrows
  <1>6. /\ UNCHANGED <<bus, mLockedProtocol, mLockedChecksum, mSequence>>
        /\ rx' = Append(rx, [val |-> Frames[slot][pos], trigger |-> (slot = 1)])
        /\ rx \in Seq(RxByte)
    BY DEF NextByteArrives, Arrives, Advance, fbVars, TypeInv, TypeOK
  <1>7. LocksFit' <=> LocksFit
    BY <1>6 DEF LocksFit
  <1>8. Unlocked' <=> Unlocked
    BY <1>6 DEF Unlocked
  <1>9. n <= m /\ m + 1 \in Nat
    BY <1>1 DEF Known
  <1>10. \A i \in Nat : 1 <= i /\ i <= n + 1 => U[i] = T[i]
    <2>1. \A i \in Nat : 1 <= i /\ i <= n + 1 => i \in 1 .. m + 1
      BY <1>9
    <2>2. QED
      BY <1>4, <2>1
  <1>11. Recovering(T, n) => Recovering(U, n)'
    BY <1>6, <1>10, RecoveringStutter
  <1>12. x < n => U[x + 1] = T[x + 1]
    <2>1. x < n => x + 1 \in Nat /\ 1 <= x + 1 /\ x + 1 <= n + 1
      OBVIOUS
    <2>2. QED
      BY <1>10, <2>1
  <1>13. x = n + 1 => missed' = 0 /\ rx' # <<>> /\ ~Head(rx').trigger
    <2> SUFFICES ASSUME x = n + 1 PROVE missed' = 0 /\ rx' # <<>> /\ ~Head(rx').trigger
      OBVIOUS
    <2>1. missed = 0 /\ rx # <<>> /\ ~Head(rx).trigger
      BY <1>1 DEF Within
    <2>2. [val |-> Frames[slot][pos], trigger |-> (slot = 1)] \in RxByte
      BY NextByteTyped DEF RxByte
    <2>3. rx' # <<>> /\ Head(rx') = Head(rx)
      BY <1>6, <2>1, <2>2
    <2>4. QED
      BY <2>1, <2>3
  <1>14. Within(U, x, n)'
    <2>1. CASE missed' = missed
      BY <1>1, <1>6, <1>7, <1>8, <1>11, <1>12, <1>13, <2>1 DEF Within
    <2>2. CASE missed' = 0
      BY <1>1, <1>6, <1>7, <1>8, <1>13, <2>2 DEF Within
    <2>3. QED
      BY <2>1, <2>2
  <1>15. QED
    BY <1>5, <1>9, <1>14 DEF Reading

\* A fault, or an answer: what was before tells nothing any more.
LEMMA RecBegins ==
    ASSUME TypeInv, TypeInv', bus' = bus, LocksFit', missed' = 0,
           Len(rx') <= 1, rx' # <<>> => ~Head(rx').trigger
    PROVE  Reading'
  <1>1. bus \in Buses /\ IsPlace(Line') /\ FBTypeOK' /\ rx' \in Seq(RxByte)
    <2>1. bus \in Buses /\ cycle' \in CycleKinds /\ slot' \in 1 .. Len(bus[cycle'])
          /\ pos' \in 1 .. Len(bus[cycle'][slot'])
      BY DEF TypeInv, TypeOK, Frames
    <2>2. (Line').kind = cycle' /\ (Line').slot = slot' /\ (Line').pos = pos'
      BY DEF Line
    <2>3. IsPlace(Line')
      BY <2>1, <2>2 DEF IsPlace
    <2>4. QED
      BY <2>1, <2>3 DEF TypeInv, TypeOK
  <1>2. mBuffer' \in Seq(Byte)
    BY <1>1 DEF FBTypeOK
  <1>3. PICK n \in Nat, l \in Nat : n = Len(mBuffer') /\ l = Len(rx')
    BY <1>1, <1>2, LenProperties
  <1>4. PICK m \in Nat : m = n + l
    OBVIOUS
  <1>5. PICK T : T = [i \in Nat |-> Line']
    OBVIOUS
  <1>6. T[m + 1] = Line'
    BY <1>5
  <1>7. Known(T, m, n, m)'
    BY <1>1, <1>3, <1>4, <1>6, KnownBegins
  <1>8. m <= n + 1 /\ (m = n + 1 => l = 1)
    BY <1>3, <1>4
  <1>9. l = 1 => rx' # <<>>
    <2>1. rx' = <<>> => l = 0
      <3>1. Len(<<>>) = 0
        OBVIOUS
      <3>2. QED
        BY <1>3, <3>1
    <2>2. QED
      BY <2>1
  <1>10. Within(T, m, n)'
    BY <1>8, <1>9 DEF Within
  <1>11. QED
    BY <1>7, <1>10 DEF Reading

\* Locks that fit stay, and before there are any no identifier is returned.
LEMMA RecLocks ==
    ASSUME TypeInv, ClearBuses, Parse, bus' = bus,
           NEW T, NEW x \in Nat, NEW n \in Nat, NEW m \in Nat, Known(T, x, n, m),
           LocksFit \/ (Unlocked /\ mSequence = <<>> /\ x = 0)
    PROVE  LocksFit' \/ (Unlocked' /\ mSequence' = <<>> /\ x = 0)
  <1>1. /\ FBTypeOK /\ LocksAgree /\ PushByte(Head(rx).val) /\ Head(rx).val \in Byte
        /\ bus.version \in Protocols
    <2>1. rx # <<>> /\ rx \in Seq(RxByte) /\ PushByte(Head(rx).val)
      BY DEF Parse, TypeInv, TypeOK
    <2>2. Head(rx) \in RxByte
      BY <2>1, HeadTailProperties
    <2>3. bus.version \in Protocols
      BY MainBusAssumption DEF TypeInv, TypeOK
    <2>4. QED
      BY <2>1, <2>2, <2>3 DEF RxByte, TypeInv, FBInv
  <1>2. CASE LocksFit
    <2>1. mLockedProtocol # "UNKNOWN"
      BY <1>1, <1>2 DEF LocksFit, Protocols
    <2>2. UNCHANGED <<mLockedProtocol, mLockedChecksum>>
      BY <1>1, <2>1, FBPushKeepsLocks
    <2>3. QED
      BY <1>2, <2>2 DEF LocksFit
  <1>3. CASE Unlocked /\ mSequence = <<>> /\ x = 0
    <2>1. Known(T, 0, n, m)
      BY <1>3
    <2>2. PICK p : IF n = HEATPUMP_MAX_FRAME_LENGTH THEN p = T[2] ELSE p = T[1]
      OBVIOUS
    <2> DEFINE l == IF n = HEATPUMP_MAX_FRAME_LENGTH THEN n ELSE n + 1
    <2>3. Pushed(p, l)
      <3>1. /\ l \in Nat
            /\ \/ n # HEATPUMP_MAX_FRAME_LENGTH /\ l = n + 1 /\ p = T[1]
               \/ n = HEATPUMP_MAX_FRAME_LENGTH /\ l = n /\ p = T[2]
        BY <2>2
      <3> HIDE DEF l
      <3>2. QED
        BY <1>3, <2>1, <3>1, CleanParse
    <2>4. CASE returned' = 0 /\ UNCHANGED <<mLockedProtocol, mLockedChecksum>>
      <3>1. mSequence' = <<>>
        BY <1>3, <2>4 DEF Parse
      <3>2. Unlocked'
        BY <1>3, <2>4 DEF Unlocked
      <3>3. QED
        BY <1>3, <3>1, <3>2
    <2>5. QED
      BY <2>3, <2>4 DEF Pushed
  <1>4. QED
    BY <1>2, <1>3

\* The task pushes a byte.
LEMMA RecParse ==
    ASSUME TypeInv, ClearBuses, LongCycles, MaxMissed >= 2, Reading, TaskParses
    PROVE  Reading'
  <1>1. PICK T : \E x, n, m \in Nat : Known(T, x, n, m) /\ Within(T, x, n)
    BY DEF Reading
  <1>2. PICK x \in Nat, n \in Nat, m \in Nat : Known(T, x, n, m) /\ Within(T, x, n)
    BY <1>1
  <1>3. /\ Parse /\ bus' = bus /\ Line' = Line
        /\ rx # <<>> /\ rx \in Seq(RxByte) /\ PushByte(Head(rx).val)
    BY DEF TaskParses, Parse, Line, TypeInv, TypeOK
  <1>4. /\ x <= n + 1
        /\ x = n + 1 => missed = 0 /\ ~Head(rx).trigger
        /\ missed = 1 => x = 0 \/ (x < n /\ T[x + 1].slot = 1)
        /\ missed = 2 => x = 0 /\ Recovering(T, n)
        /\ missed \in {0, 1, 2}
        /\ LocksFit \/ (Unlocked /\ mSequence = <<>> /\ x = 0)
    BY <1>2 DEF Within
  <1>5. n + 1 <= m /\ n = Len(mBuffer) /\ n <= HEATPUMP_MAX_FRAME_LENGTH /\ bus \in Buses
        /\ HEATPUMP_MAX_FRAME_LENGTH \in Nat
    <2>1. m = n + Len(rx) /\ n = Len(mBuffer)
      BY <1>2 DEF Known
    <2>2. Len(rx) \in Nat \ {0}
      BY <1>3, EmptySeq
    <2>3. Len(mBuffer) <= HEATPUMP_MAX_FRAME_LENGTH /\ bus \in Buses
      BY DEF TypeInv, FBInv, FBTypeOK
    <2>4. QED
      BY <2>1, <2>2, <2>3, FrameBufferAssumption
  <1>6. PICK c \in Nat : c <= n + 1 /\ Len(mBuffer') = n + 1 - c
    <2>1. Head(rx) \in RxByte
      BY <1>3, HeadTailProperties
    <2>2. Head(rx).val \in Byte /\ FBTypeOK
      BY <2>1 DEF RxByte, TypeInv, FBInv
    <2>3. QED
      BY <1>3, <1>5, <2>2, PushShifts
  <1>7. PICK n1 \in Nat, m1 \in Nat : n1 = n + 1 - c /\ m1 = m - c
    <2>1. n + 1 - c \in Nat /\ m - c \in Nat
      BY <1>5, <1>6
    <2>2. QED
      BY <2>1
  <1> DEFINE U == Shift(T, c)
  <1>8. \A i \in Nat : U[i] = T[i + c]
    BY DEF Shift
  <1> HIDE DEF U
  <1>9. LocksFit' \/ (Unlocked' /\ mSequence' = <<>> /\ x = 0)
    BY <1>2, <1>3, <1>4, RecLocks
  <1>10. ASSUME NEW y \in Nat, x <= y + c, y <= n1, x = 0 => y = 0,
                missed' = 1 => y = 0 \/ (y < n1 /\ U[y + 1].slot = 1),
                missed' = 2 => y = 0 /\ Recovering(U, n1)',
                missed' \in {0, 1, 2}
         PROVE  Reading'
    <2>1. y <= m - c
      <3>1. n + 1 <= m /\ n1 = n + 1 - c /\ y <= n1
        BY <1>5, <1>7, <1>10
      <3>2. QED
        BY <3>1
    <2>2. Known(U, y, n1, m1)'
      BY <1>2, <1>3, <1>4, <1>6, <1>7, <1>10, <2>1, KnownParse DEF U
    <2>3. y <= n1 + 1 /\ y # n1 + 1
      BY <1>10
    <2>4. LocksFit' \/ (Unlocked' /\ mSequence' = <<>> /\ y = 0)
      BY <1>9, <1>10
    <2>5. missed' \in 0 .. 2
      BY <1>10
    <2>6. Within(U, y, n1)'
      BY <1>10, <2>3, <2>4, <2>5 DEF Within
    <2>7. QED
      BY <2>2, <2>6 DEF Reading
  <1>11. PICK y \in Nat : y = IF x <= c THEN 0 ELSE x - c
    <2>1. x > c => x - c \in Nat
      OBVIOUS
    <2>2. QED
      BY <2>1
  <1>12. x <= y + c /\ y <= n1 /\ (x = 0 => y = 0)
    BY <1>4, <1>6, <1>7, <1>11
  <1>13. x = 0 => /\ Known(T, 0, n, m) /\ y = 0
                  /\ (LocksFit \/ Unlocked) /\ Len(mBuffer') = n1
    BY <1>2, <1>4, <1>6, <1>7, <1>11
  <1>14. CASE ~Head(rx).trigger
    <2>1. missed' = missed
      BY <1>14 DEF TaskParses
    <2>2. missed = 1 => y = 0 \/ (y < n1 /\ U[y + 1].slot = 1)
      <3> SUFFICES ASSUME missed = 1, y # 0 PROVE y < n1 /\ U[y + 1].slot = 1
        OBVIOUS
      <3>1. x < n /\ T[x + 1].slot = 1 /\ y = x - c
        BY <1>4, <1>11
      <3>2. y < n1 /\ (y + 1) + c = x + 1
        BY <1>6, <1>7, <3>1
      <3>3. U[y + 1] = T[x + 1]
        BY <1>8, <3>2
      <3>4. QED
        BY <3>1, <3>2, <3>3
    <2>3. missed = 2 => y = 0 /\ Recovering(U, n1)'
      <3> SUFFICES ASSUME missed = 2 PROVE y = 0 /\ Recovering(U, n1)'
        OBVIOUS
      <3>1. x = 0 /\ Recovering(T, n)
        BY <1>4
      <3>2. Recovering(U, n1)'
        BY <1>3, <1>7, <1>13, <3>1, RecoveringParse DEF U
      <3>3. QED
        BY <1>13, <3>1, <3>2
    <2>4. QED
      BY <1>4, <1>10, <1>12, <2>1, <2>2, <2>3
  <1>15. CASE Head(rx).trigger
    <2>1. x <= n
      BY <1>4, <1>15
    <2>2. T[n + 1].slot = 1
      BY <1>2, <1>3, <1>15, <2>1, NextKnown
    <2>3. missed' = missed + 1
      BY <1>4, <1>15, MainBusAssumption DEF TaskParses
    <2>4. CASE missed = 0
      <3>1. PICK z \in Nat : z = IF x <= c THEN 0 ELSE n - c
        <4>1. CASE x <= c
          BY <4>1
        <4>2. CASE ~(x <= c)
          <5>1. n - c \in Nat
            BY <2>1, <4>2
          <5>2. QED
            BY <4>2, <5>1
        <4>3. QED
          BY <4>1, <4>2
      <3>2. x <= z + c /\ z <= n1 /\ (x = 0 => z = 0)
        BY <1>6, <1>7, <2>1, <3>1
      <3>3. z = 0 \/ (z < n1 /\ U[z + 1].slot = 1)
        <4> SUFFICES ASSUME z # 0 PROVE z < n1 /\ U[z + 1].slot = 1
          OBVIOUS
        <4>1. z = n - c
          BY <3>1
        <4>2. z < n1 /\ (z + 1) + c = n + 1
          BY <1>7, <4>1
        <4>3. U[z + 1] = T[n + 1]
          BY <1>8, <4>2
        <4>4. QED
          BY <2>2, <4>2, <4>3
      <3>4. missed' = 1
        BY <2>3, <2>4
      <3>5. QED
        BY <1>10, <3>2, <3>3, <3>4
    <2>5. CASE missed = 1
      <3>1. x = 0
        <4> SUFFICES ASSUME x # 0 PROVE FALSE
          OBVIOUS
        <4>1. x < n /\ T[x + 1].slot = 1
          BY <1>4, <2>5
        <4>2. PICK a \in Nat, j \in Nat, e \in Nat : a = x + 1 /\ j = n + 1 /\ e = m + 1
          OBVIOUS
        <4>3. a < j /\ j <= e /\ j - a <= HEATPUMP_MAX_FRAME_LENGTH
          BY <1>5, <4>1, <4>2
        <4>4. Path(T, a, e) /\ T[a].slot = 1 /\ T[j].slot = 1
          BY <1>2, <2>2, <4>1, <4>2 DEF Known
        <4>5. j - a > HEATPUMP_MAX_FRAME_LENGTH
          <5>1. a <= a
            BY <4>2
          <5>2. QED
            BY <1>5, <4>3, <4>4, <5>1, RequestsApart
        <4>6. QED
          BY <1>5, <4>3, <4>5
      <3>2. Recovering(U, n1)'
        <4>1. PICK r \in Nat : r = n + 1
          OBVIOUS
        <4>2. 1 <= r /\ r <= n + 1 /\ T[r].slot = 1
          BY <2>2, <4>1
        <4>3. QED
          BY <1>3, <1>7, <1>13, <3>1, <4>2, RequestParse DEF U
      <3>3. missed' = 2
        BY <2>3, <2>5
      <3>4. QED
        BY <1>10, <1>12, <1>13, <3>1, <3>2, <3>3
    <2>6. CASE missed = 2
      <3>1. x = 0 /\ Recovering(T, n)
        BY <1>4, <2>6
      <3>2. ~Head(rx).trigger
        BY <1>3, <1>13, <3>1, NoThirdMiss
      <3>3. QED
        BY <1>15, <3>2
    <2>7. QED
      BY <1>4, <2>4, <2>5, <2>6
  <1>16. QED
    BY <1>14, <1>15

\* The task answers, or takes a byte for the request.
LEMMA RecAnswers ==
    ASSUME TypeInv, ClearBuses, Reading, TaskAnswers
    PROVE  RecInv'
  <1>1. PICK T : \E x, n, m \in Nat : Known(T, x, n, m) /\ Within(T, x, n)
    BY DEF Reading
  <1>2. PICK x \in Nat, n \in Nat, m \in Nat : Known(T, x, n, m) /\ Within(T, x, n)
    BY <1>1
  <1>3. /\ rx # <<>> /\ Head(rx).val = HMI_MESSAGE_IDENTIFIER /\ ExpectsRequest /\ sending'
        /\ UNCHANGED <<bus, mLockedProtocol, mLockedChecksum>>
    BY DEF TaskAnswers, Answer, IsRequest, fbVars
  <1>4. LocksFit'
    <2>1. mSequence # <<>>
      BY <1>3 DEF ExpectsRequest, RequestSequences
    <2>2. LocksFit
      BY <1>2, <2>1 DEF Within
    <2>3. QED
      BY <1>3, <2>2 DEF LocksFit
  <1>5. missed' = 0
    <2>1. CASE Head(rx).trigger
      BY <2>1 DEF TaskAnswers
    <2>2. CASE ~Head(rx).trigger
      <3>1. ~(x <= n)
        <4> SUFFICES ASSUME x <= n PROVE FALSE
          OBVIOUS
        <4>1. PICK p : p = T[n + 1]
          OBVIOUS
        <4>2. IsPlace(p) /\ p.slot # 1 /\ ByteAt(p) = HMI_MESSAGE_IDENTIFIER
          BY <1>2, <1>3, <2>2, <4>1, NextKnown
        <4>3. /\ bus \in Buses /\ p.kind \in CycleKinds /\ p.slot \in 1 .. Len(bus[p.kind])
              /\ p.pos \in 1 .. Len(bus[p.kind][p.slot]) /\ p.slot > 1
          <5>1. bus \in Buses /\ p.kind \in CycleKinds /\ p.slot \in 1 .. Len(bus[p.kind])
                /\ p.pos \in 1 .. Len(bus[p.kind][p.slot])
            BY <4>2 DEF TypeInv, TypeOK, IsPlace
          <5>2. p.slot > 1
            BY <4>2, <5>1
          <5>3. QED
            BY <5>1, <5>2
        <4>4. bus[p.kind][p.slot][p.pos] # HMI_MESSAGE_IDENTIFIER
          BY <4>3 DEF ClearBuses
        <4>5. QED
          BY <4>2, <4>4 DEF ByteAt, FrameAt
      <3>2. x = n + 1
        BY <1>2, <3>1 DEF Within
      <3>3. missed = 0
        BY <1>2, <3>2 DEF Within
      <3>4. QED
        BY <2>2, <3>3 DEF TaskAnswers
    <2>3. QED
      BY <2>1, <2>2
  <1>6. QED
    BY <1>3, <1>4, <1>5 DEF RecInv

\* While the task sends bytes may come in, and in the end it throws them away.
LEMMA RecSends ==
    ASSUME TypeInv, TypeInv', RecInv, sending, BusByte \/ TaskFlushes \/ HmiReady \/ UNCHANGED vars
    PROVE  RecInv'
  <1>1. LocksFit /\ missed = 0
    BY DEF RecInv
  <1>2. bus' = bus /\ UNCHANGED <<mLockedProtocol, mLockedChecksum, missed>>
    BY DEF BusByte, NextByteArrives, Arrives, Advance, TaskFlushes, Flush, HmiReady, HmiFrameStored,
         vars, taskVars, busVars, fbVars
  <1>3. LocksFit' /\ missed' = 0
    BY <1>1, <1>2 DEF LocksFit
  <1>4. CASE BusByte \/ HmiReady \/ UNCHANGED vars
    <2>1. sending'
      BY <1>4 DEF BusByte, NextByteArrives, Arrives, HmiReady, HmiFrameStored, vars, taskVars
    <2>2. QED
      BY <1>3, <2>1 DEF RecInv
  <1>5. CASE TaskFlushes
    <2>1. rx' = <<>> /\ ~sending'
      BY <1>5 DEF TaskFlushes, Flush
    <2>2. Len(<<>>) <= 1
      OBVIOUS
    <2>3. Reading'
      BY <1>2, <1>3, <2>1, <2>2, RecBegins
    <2>4. QED
      BY <2>1, <2>3 DEF RecInv
  <1>6. QED
    BY <1>4, <1>5

\* What neither the line nor the task moves on.
LEMMA RecStutter ==
    ASSUME Reading,
           UNCHANGED <<mBuffer, mLockedProtocol, mLockedChecksum, mSequence, rx,
                       bus, cycle, slot, pos, missed>>
    PROVE  Reading'
  <1>1. PICK T : \E x, n, m \in Nat : Known(T, x, n, m) /\ Within(T, x, n)
    BY DEF Reading
  <1>2. PICK x \in Nat, n \in Nat, m \in Nat : Known(T, x, n, m) /\ Within(T, x, n)
    BY <1>1
  <1>3. Known(T, x, n, m)'
    <2>1. Path(T, x + 1, m + 1)'
      BY <1>2, PathStutter DEF Known
    <2>2. \A p : ByteAt(p)' = ByteAt(p)
      BY PlaceStutter
    <2>3. Line' = Line
      BY DEF Line
    <2>4. \A i \in 1 .. n : i > x => mBuffer'[i] = ByteAt(T[i])'
      BY <1>2, <2>2 DEF Known
    <2>5. \A i \in 1 .. Len(rx') : n + i > x => /\ rx'[i].val = ByteAt(T[n + i])'
                                                /\ rx'[i].trigger <=> T[n + i].slot = 1
      BY <1>2, <2>2 DEF Known
    <2>6. /\ n \in Nat /\ m \in Nat /\ x \in Nat /\ x <= m
          /\ n = Len(mBuffer') /\ m = n + Len(rx') /\ T[m + 1] = Line'
      BY <1>2, <2>3 DEF Known
    <2>7. QED
      BY <2>1, <2>4, <2>5, <2>6 DEF Known
  <1>4. Recovering(T, n) => Recovering(T, n)'
    BY RecoveringStutter
  <1>5. (LocksFit' <=> LocksFit) /\ (Unlocked' <=> Unlocked)
    BY DEF LocksFit, Unlocked
  <1>6. Within(T, x, n)'
    BY <1>2, <1>4, <1>5 DEF Within
  <1>7. QED
    BY <1>3, <1>6 DEF Reading

\* Whatever bytes come, are lost, altered or late.
LEMMA RecNext ==
    ASSUME ClearBuses, LongCycles, MaxMissed >= 2, TypeInv, TypeInv', RecInv,
           [Next]_vars, [LoseByte \/ AlterByte => LocksFit]_vars
    PROVE  RecInv'
  <1>1. LoseByte \/ AlterByte => LocksFit /\ missed' = 0
    <2> SUFFICES ASSUME LoseByte \/ AlterByte PROVE LocksFit /\ missed' = 0
      OBVIOUS
    <2>1. Fault
      BY DEF LoseByte, AlterByte
    <2>2. faults \in Int /\ faults' = faults - 1
      BY <2>1, MainBusAssumption DEF Fault, TypeInv, TypeOK
    <2>3. faults' # faults
      BY <2>2
    <2>4. QED
      BY <2>1, <2>3 DEF Fault, vars, busVars
  <1>2. CASE sending
    <2>1. BusByte \/ TaskFlushes \/ HmiReady \/ UNCHANGED vars
      BY <1>2 DEF Next, TaskReads, LoseByte, AlterByte, LateByte, Fault, TaskAnswers, Answer,
           TaskParses, Parse
    <2>2. QED
      BY <1>2, <2>1, RecSends
  <1>3. CASE ~sending /\ ~TaskAnswers
    <2>1. Reading
      BY <1>3 DEF RecInv
    <2>2. ~sending' /\ ~TaskFlushes
      <3>1. ~TaskFlushes
        BY <1>3 DEF TaskFlushes, Flush
      <3>2. sending' = sending
        <4>1. BusByte \/ LateByte => sending' = sending
          BY DEF BusByte, LateByte, NextByteArrives, Arrives
        <4>2. AlterByte => sending' = sending
          BY DEF AlterByte, Arrives
        <4>3. LoseByte \/ UNCHANGED vars => sending' = sending
          BY DEF LoseByte, vars, taskVars
        <4>4. TaskParses \/ HmiReady => sending' = sending
          BY DEF TaskParses, Parse, HmiReady, HmiFrameStored
        <4>5. QED
          BY <1>3, <3>1, <4>1, <4>2, <4>3, <4>4 DEF Next, TaskReads
      <3>3. QED
        BY <1>3, <3>1, <3>2
    <2>3. SUFFICES Reading'
      BY <2>2 DEF RecInv
    <2>4. CASE BusByte
      BY <2>1, <2>4, RecArrives DEF BusByte
    <2>5. CASE LoseByte
      <3>1. bus' = bus /\ LocksFit' /\ missed' = 0 /\ rx' = <<>>
        BY <1>1, <2>5 DEF LoseByte, Advance, taskVars, fbVars, LocksFit
      <3>2. Len(<<>>) <= 1
        OBVIOUS
      <3>3. QED
        BY <3>1, <3>2, RecBegins
    <2>6. CASE AlterByte
      <3>1. PICK val \in Noise : Arrives(val, FALSE)
        BY <2>6 DEF AlterByte
      <3>2. rx = <<>> /\ rx' = Append(rx, [val |-> val, trigger |-> FALSE])
        BY <2>6, <3>1 DEF AlterByte, Arrives
      <3>3. Len(rx') <= 1 /\ Head(rx').trigger = FALSE
        BY <3>2
      <3>4. bus' = bus /\ LocksFit' /\ missed' = 0
        BY <1>1, <2>6, <3>1 DEF AlterByte, Arrives, Advance, fbVars, LocksFit
      <3>5. QED
        BY <3>3, <3>4, RecBegins
    <2>7. CASE LateByte
      <3>1. missed' = 0 /\ NextByteArrives /\ Advance
        BY <2>7 DEF LateByte, Fault
      <3>2. QED
        BY <2>1, <3>1, RecArrives
    <2>8. CASE TaskParses
      BY <2>1, <2>8, RecParse
    <2>9. CASE HmiReady
      BY <2>1, <2>9, RecStutter DEF HmiReady, HmiFrameStored, busVars, fbVars
    <2>10. CASE UNCHANGED vars
      BY <2>1, <2>10, RecStutter DEF vars, taskVars, busVars, fbVars
    <2>11. QED
      BY <1>3, <2>2, <2>4, <2>5, <2>6, <2>7, <2>8, <2>9, <2>10 DEF Next, TaskReads
  <1>4. CASE TaskAnswers
    <2>1. ~sending
      BY <1>4 DEF TaskAnswers, Answer
    <2>2. QED
      BY <1>4, <2>1, RecAnswers DEF RecInv
  <1>5. QED
    BY <1>2, <1>3, <1>4

\* After joining the line at any byte and after every fault at most two requests in a
\* row stay unanswered, however many faults there are: on buses that are clear and whose
\* cycles are long enough, if no byte is lost or altered before the locks are taken.
THEOREM MainBusRecovers ==
    ASSUME ClearBuses, LongCycles, MaxMissed >= 2
    PROVE  Spec /\ LossesOnceLocked => []RecoversInTime
  <1>1. TypeInv /\ RecInv => RecoversInTime
    BY MainBusAssumption DEF RecInv, Reading, Within, RecoversInTime
  <1>2. TypeInv /\ TypeInv' /\ RecInv /\ [Next]_vars /\ [LoseByte \/ AlterByte => LocksFit]_vars
          => RecInv'
    BY RecNext
  <1>3. QED
    BY <1>1, <1>2, RecInit, MainBusTypeInductive, PTL DEF Spec, LossesOnceLocked

=============================================================================
