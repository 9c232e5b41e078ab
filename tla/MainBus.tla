------------------------------- MODULE MainBus -------------------------------
(***************************************************************************)
(* ControllerTask on the serial line of the main controller.               *)
(*                                                                         *)
(* The controller is external; its cycle is the one HMITask replicates and *)
(* task/MITM.md draws: the request 194, then its frames, the error frame   *)
(* 74 only now and then.  The task joins the line at any byte.  Faults: a  *)
(* byte is lost or altered, or the task is late and the next byte arrives  *)
(* before it has read the one before.                                      *)
(***************************************************************************)
EXTENDS ControllerTask, FiniteSets

CONSTANTS
    Buses,       \* the kinds of bus: each a record with the version and the
                 \* checksum kind of the heat pump, and the frames of a cycle,
                 \* plain, and error with the error frame in it
    Noise,       \* what an altered byte may turn into
    FirstBytes,  \* <<slot, byte>> at which the task may join the line
    MaxFaults,   \* bytes that may be lost, altered or late
    MaxErrors,   \* cycles with an error frame
    MaxMissed    \* requests in a row that may stay unanswered

VARIABLES
    bus,     \* this bus, one of Buses
    cycle,   \* the current cycle: "plain" or "error"
    slot,    \* the frame of this cycle the byte to come is in; 1 is the request
    pos,     \* the byte to come, in its frame
    faults,  \* faults still to come
    errors,  \* cycles with an error frame still to come
    missed,  \* requests in a row read, but not recognised, since the last fault
    synced   \* the last request was recognised at a frame boundary and with the
             \* locks of this heat pump, no fault since

busVars == <<bus, cycle, slot, pos, faults, errors, missed, synced>>
vars == <<taskVars, busVars>>

CycleKinds == {"plain", "error"}

\* A frame of a heat pump, with the checksum it puts behind a payload.
IsFrame(frame, version, checksum) ==
    /\ frame \in Seq(Byte) /\ Len(frame) >= 2
    /\ <<frame[1], frame[2]>> \in FrameTable[version]
    /\ LET payload == SubSeq(frame, 2, frame[2] + 1) IN
       IF checksum = "XOR"
       THEN /\ Len(frame) = frame[2] + 2
            /\ frame[frame[2] + 2] = XorChecksum(payload)
       ELSE /\ Len(frame) = frame[2] + 3
            /\ <<frame[frame[2] + 2], frame[frame[2] + 3]>> = Crc16(payload)

\* The request, then frames of which the last two lead to the next request.
IsCycle(frames, version, checksum) ==
    /\ frames \in Seq(Seq(Byte)) /\ Len(frames) >= 3
    /\ frames[1] = <<HMI_MESSAGE_IDENTIFIER>>
    /\ \A k \in 2 .. Len(frames) : IsFrame(frames[k], version, checksum)
    /\ <<frames[Len(frames) - 1][1], frames[Len(frames)][1]>> \in RequestSequences

ASSUME MainBusAssumption ==
    /\ \A b \in Buses :
          /\ b.version \in Protocols
          /\ b.checksum \in IF b.version \in XorOnlyProtocols THEN {"XOR"}
                                                            ELSE {"XOR", "CRC16"}
          /\ \A kind \in CycleKinds : IsCycle(b[kind], b.version, b.checksum)
    /\ Noise \subseteq Byte
    /\ MaxFaults \in Nat /\ MaxErrors \in Nat /\ MaxMissed \in Nat

Frames == bus[cycle]

BusInit ==
    /\ bus \in Buses
    /\ cycle = "plain"
    /\ slot \in 1 .. Len(Frames)
    /\ pos \in 1 .. Len(Frames[slot])
    /\ <<slot, pos>> \in FirstBytes
    /\ faults = MaxFaults
    /\ errors = MaxErrors
    /\ missed = 0
    /\ synced = FALSE

Init == TaskInit /\ BusInit

NextCycle ==
    \/ cycle' = "plain" /\ UNCHANGED errors
    \/ cycle' = "error" /\ errors > 0 /\ errors' = errors - 1

\* The line moves on to its next byte.
\* A controller sends the error frame once for each new error the HMI asks for.
Advance ==
    /\ UNCHANGED bus
    /\ \/ /\ pos < Len(Frames[slot])
          /\ pos' = pos + 1
          /\ UNCHANGED <<slot, cycle, errors>>
       \/ /\ pos = Len(Frames[slot]) /\ slot < Len(Frames)
          /\ slot' = slot + 1 /\ pos' = 1
          /\ UNCHANGED <<cycle, errors>>
       \/ /\ pos = Len(Frames[slot]) /\ slot = Len(Frames)
          /\ slot' = 1 /\ pos' = 1
          /\ NextCycle

Arrives(val, trigger) ==
    /\ rx' = Append(rx, [val |-> val, trigger |-> trigger])
    /\ UNCHANGED <<fbVars, mSequence, hasHmi, sending>>

\* The byte to come; the request is the controller's trigger.
NextByteArrives == Arrives(Frames[slot][pos], slot = 1)

\* Between two frames, and while it gets the answer it has asked for, the controller
\* is silent for longer than an answer takes (PROTOCOL.md:75-96, PROTOCOL_ODYSSEE.md:
\* 28-34): an answer to a byte that was no request costs the rest of its frame.
OutlastsAnswer == pos = 1

\* The task reads every 5 ms and keeps up with the line, but while it sends.
BusByte ==
    /\ IF sending THEN ~OutlastsAnswer ELSE rx = <<>>
    /\ NextByteArrives
    /\ Advance
    /\ UNCHANGED <<faults, missed, synced>>

\* (What comes while the task sends is thrown away in any case.)
Fault ==
    /\ ~sending
    /\ faults > 0
    /\ faults' = faults - 1
    /\ missed' = 0
    /\ synced' = FALSE

LoseByte ==
    /\ Fault
    /\ rx = <<>>
    /\ Advance
    /\ UNCHANGED taskVars

AlterByte ==
    /\ Fault
    /\ rx = <<>>
    /\ \E val \in Noise \ {Frames[slot][pos]} : Arrives(val, FALSE)
    /\ Advance

LateByte ==
    /\ Fault
    /\ rx # <<>>
    /\ NextByteArrives
    /\ Advance

LocksFit == mLockedProtocol = bus.version /\ mLockedChecksum = bus.checksum

\* A byte 194 that is no request, but taken for one, tells nothing.
TaskAnswers ==
    /\ Answer
    /\ IF Head(rx).trigger
       THEN /\ missed' = 0
            /\ synced' = (Len(rx) = 1 /\ mBuffer = <<>> /\ LocksFit)
       ELSE UNCHANGED <<missed, synced>>
    /\ UNCHANGED <<bus, cycle, slot, pos, faults, errors>>

\* (A request that is thrown away was late: it counts as that fault.)
TaskFlushes ==
    /\ Flush
    /\ UNCHANGED busVars

TaskParses ==
    /\ Parse
    /\ IF Head(rx).trigger
       THEN /\ missed' = IF missed <= MaxMissed THEN missed + 1 ELSE missed
            /\ synced' = FALSE
       ELSE UNCHANGED <<missed, synced>>
    /\ UNCHANGED <<bus, cycle, slot, pos, faults, errors>>

TaskReads == TaskAnswers \/ TaskFlushes \/ TaskParses

HmiReady == HmiFrameStored /\ UNCHANGED busVars

Next == BusByte \/ LoseByte \/ AlterByte \/ LateByte \/ TaskReads \/ HmiReady

\* The controller never stops sending, the task never stops reading, and an
\* HMI is there whose frame gets stored in the end.
Fairness == WF_vars(BusByte) /\ WF_vars(TaskReads) /\ WF_vars(HmiReady)

Spec == Init /\ [][Next]_vars /\ Fairness

-----------------------------------------------------------------------------
(* Properties *)

TypeOK ==
    /\ FBTypeOK
    /\ mSequence \in Seq(FrameIds) /\ Len(mSequence) <= 2
    /\ rx \in Seq(RxByte)
    /\ hasHmi \in BOOLEAN /\ sending \in BOOLEAN
    /\ cycle \in CycleKinds
    /\ slot \in 1 .. Len(Frames) /\ pos \in 1 .. Len(Frames[slot])
    /\ faults \in 0 .. MaxFaults /\ errors \in 0 .. MaxErrors
    /\ missed \in 0 .. MaxMissed + 1
    /\ synced \in BOOLEAN

\* After joining at any byte, and after every fault, at most MaxMissed requests
\* in a row go by: the FrameBuffer finds the frames again, and in time for the
\* sequence to be complete when the request arrives.
RecoversInTime == missed <= MaxMissed

\* The sequence of the task before frame k, if it has heard all the frames.
Heard(frames, k) ==
    CASE k = 2 -> <<>>
      [] k = 3 -> <<frames[2][1]>>
      [] k > 3 -> <<frames[k - 2][1], frames[k - 1][1]>>

\* No frame that follows on a sequence after which a request may come holds the
\* byte of a request.  Of the frames of task/MITM.md only the error frame 74 of
\* LEGACY and NEXT is in such a place.
QuietBuses ==
    \A b \in Buses : \A kind \in CycleKinds : \A k \in 2 .. Len(b[kind]) :
        Heard(b[kind], k) \in RequestSequences
            => \A i \in 1 .. Len(b[kind][k]) : b[kind][k][i] # HMI_MESSAGE_IDENTIFIER

\* What may stand behind byte i of frame k in a cycle of that kind.
Behind(b, kind, k, i) ==
    IF i < Len(b[kind][k]) THEN { b[kind][k][i + 1] }
    ELSE IF k < Len(b[kind]) THEN { b[kind][k + 1][1] }
    ELSE { HMI_MESSAGE_IDENTIFIER }

\* No frame holds the byte of a request; no two bytes in a row look like the header
\* of a frame where none begins; a CRC does not begin with the XOR checksum.
ClearBuses ==
    \A b \in Buses : \A kind \in CycleKinds : \A k \in 1 .. Len(b[kind]) :
        LET frame == b[kind][k] IN
        /\ \A i \in 1 .. Len(frame) :
              /\ k > 1 => frame[i] # HMI_MESSAGE_IDENTIFIER
              /\ k = 1 \/ i > 1
                    => \A next \in Behind(b, kind, k, i) : <<frame[i], next>> \notin AnyFrame
        /\ k > 1 /\ b.checksum = "CRC16"
              => frame[frame[2] + 2] # XorChecksum(SubSeq(frame, 2, frame[2] + 1))

\* The bytes of a cycle that come before frame k.
BytesBefore(frames, k) ==
    Cardinality({ byte \in (1 .. Len(frames)) \X (1 .. HEATPUMP_MAX_FRAME_LENGTH) :
                     byte[1] < k /\ byte[2] <= Len(frames[byte[1]]) })

\* With the two checksum bytes that are awaited before the kind is known, the
\* frame does not fit the ring: error frames of ODYSSEE.
TooLong(b, frame) == b.checksum = "XOR" /\ frame[2] + 3 > HEATPUMP_MAX_FRAME_LENGTH

\* Behind the frames of a cycle that are too long to be awaited, if it begins with
\* such, come more bytes than the ring holds, by enough for one pushByte for each
\* frame but the first.  The shortest cycle there is has 72 bytes behind the request
\* in two frames, and the ring holds 70: this leaves one byte.
LongCycles ==
    \A b \in Buses : \A kind \in CycleKinds : \A k \in 2 .. Len(b[kind]) :
        (\A j \in 2 .. k - 1 : TooLong(b, b[kind][j]))
            => /\ k < Len(b[kind])
               /\ BytesBefore(b[kind], k) + HEATPUMP_MAX_FRAME_LENGTH + Len(b[kind]) - k
                    <= BytesBefore(b[kind], Len(b[kind]) + 1)

\* No byte is lost or altered before the locks are taken: from what is left of two
\* frames the task could take wrong ones, and these are for ever.
LossesOnceLocked == [][LoseByte \/ AlterByte => LocksFit]_vars

\* Once a request was recognised, every later one is, as long as no byte is
\* lost, altered or late.
StaysInSync ==
    [][synced /\ faults' = faults => synced']_vars

\* In sync the task only transmits when the controller asks, and never into a
\* frame that happens to hold the byte 194 (loop, ControllerTask.cpp:57-73).
NeverTalksOver ==
    [][synced /\ ~sending /\ sending' => Head(rx).trigger]_vars

\* The controller's requests are answered again and again.
RequestsAnswered == []<>(sending /\ hasHmi /\ synced)

=============================================================================
