---------------------------- MODULE ControllerTask ----------------------------
(***************************************************************************)
(* task/ControllerTask.cpp: the task on the main controller's side.  It    *)
(* reads the serial line byte by byte, feeds a FrameBuffer, remembers the  *)
(* identifiers of the last two frames, and when the byte 194 follows a     *)
(* sequence after which the controller asks for the HMI's frame, sends     *)
(* that frame.                                                             *)
(***************************************************************************)
EXTENDS FrameBuffer

VARIABLES
    mSequence,  \* identifiers of the last frames, at most two
    rx,         \* bytes the serial driver holds, oldest first
    hasHmi,     \* HMIStateProxy::copyFrame(194) delivers a frame
    sending     \* the task waits in Serial2.flush() for its answer to be sent

taskVars == <<mBuffer, mLockedProtocol, mLockedChecksum, returned,
              mSequence, rx, hasHmi, sending>>

\* A byte on its way; trigger marks the controller's request for the HMI
\* frame.  The task cannot see the mark, the properties can.
RxByte == [val : Byte, trigger : BOOLEAN]

TaskInit ==
    /\ FBInit
    /\ mSequence = <<>>
    /\ rx = <<>>
    /\ hasHmi \in BOOLEAN
    /\ sending = FALSE

-----------------------------------------------------------------------------

\* "legacy/next sequence 67 -> 193 -> (74) -> 194",
\* "odyssee sequence 67 -> 217 -> 193 -> 194 -> 74"
RequestSequences == { <<67, 193>>, <<193, 74>>, <<217, 193>> }

MutantExpectsRequest == mSequence \in RequestSequences \ { <<193, 74>> }

ExpectsRequest == mSequence \in RequestSequences

MutantPushWhenFull(id) == IF Len(mSequence) = 2 THEN mSequence ELSE Append(mSequence, id)

MutantPushUnbounded(id) == Append(mSequence, id)

\* RingBuf<int, 2>::pushOverwrite
PushOverwrite(id) ==
    IF Len(mSequence) = 2 THEN <<mSequence[2], id>> ELSE Append(mSequence, id)

\* "if (valRead == 194)", after such a sequence.
IsRequest == Head(rx).val = HMI_MESSAGE_IDENTIFIER /\ ExpectsRequest

\* The request byte is not pushed to the FrameBuffer.  sendMessage194 writes the HMI
\* frame and waits until it is sent: until Flush, which without an HMI frame comes at
\* once, other bytes may come in.
Answer ==
    /\ rx # <<>> /\ ~sending
    /\ IsRequest
    /\ sending' = TRUE
    /\ rx' = Tail(rx)
    /\ UNCHANGED <<fbVars, mSequence, hasHmi>>

MutantFlush ==
    /\ sending
    /\ sending' = FALSE
    /\ rx' = <<>>
    /\ UNCHANGED <<fbVars, hasHmi, mSequence>>

\* What came in meanwhile is thrown away, and the sequence forgotten.
Flush ==
    /\ sending
    /\ sending' = FALSE
    /\ rx' = <<>>
    /\ mSequence' = <<>>
    /\ UNCHANGED <<fbVars, hasHmi>>

Parse ==
    /\ rx # <<>> /\ ~sending
    /\ ~IsRequest
    /\ PushByte(Head(rx).val)
    /\ mSequence' = IF returned' > 0 THEN PushOverwrite(returned') ELSE mSequence
    /\ rx' = Tail(rx)
    /\ UNCHANGED <<hasHmi, sending>>

\* The HMI task stored a first HMI frame; DHWState never forgets it.
HmiFrameStored ==
    /\ ~hasHmi
    /\ hasHmi' = TRUE
    /\ UNCHANGED <<fbVars, mSequence, rx, sending>>

=============================================================================
