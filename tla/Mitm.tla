-------------------------------- MODULE Mitm --------------------------------
(***************************************************************************)
(* AquaMQTT as man in the middle: HMITask, ControllerTask and the store    *)
(* they share, between an HMI and a main controller that believe to talk   *)
(* to each other.  The story told here is that of an error message: the    *)
(* HMI asks for it with a request id in its frame, ControllerTask passes   *)
(* the frame on, the controller answers with one error frame, and HMITask  *)
(* emits it.                                                               *)
(*                                                                         *)
(* HMI and controller are external, they behave as PROTOCOL.md observes.   *)
(* AquaMQTT may restart at any time; HMI and controller do not.            *)
(***************************************************************************)
EXTENDS HMITask

CONSTANTS
    MaxRequestId,  \* request ids count up to it and start over
    MaxGiveUps,    \* times the HMI may ask for another error before it got one
    MaxReboots     \* restarts of AquaMQTT

ASSUME MitmAssumption ==
    /\ "MAIN" \in Channels
    /\ MaxRequestId \in 1 .. UINT8_MAX
    /\ 0 .. MaxRequestId \subseteq Payload
    /\ MaxGiveUps \in Nat /\ MaxReboots \in Nat

VARIABLES
    hmiRequest,   \* the request id in the HMI's frames
    hmiGot,       \* the HMI has the error message it asks for
    seenRequest,  \* the request id in the last frame the controller got
    owes,         \* the controller is to send its error frame
    giveUps, reboots

envVars == <<hmiRequest, hmiGot, seenRequest, owes, giveUps, reboots>>
vars == <<dhwVars, line, channel, hmiTaskVars, envVars>>

\* Both sides were running before, with any request answered.
Init ==
    /\ DHWInit
    /\ ChannelInit
    /\ line \in Lines
    /\ HMITaskInit
    /\ hmiRequest \in 0 .. MaxRequestId
    /\ hmiGot = TRUE
    /\ seenRequest = hmiRequest
    /\ owes = FALSE
    /\ giveUps = MaxGiveUps
    /\ reboots = MaxReboots

-----------------------------------------------------------------------------
(* The HMI *)

\* Request ids count up and wrap around; 0 is no request.
NextRequests == IF hmiRequest = MaxRequestId THEN {0, 1} ELSE {hmiRequest + 1}

HmiAsks ==
    /\ hmiRequest' \in NextRequests \ {hmiRequest}
    /\ hmiGot' = FALSE
    /\ IF hmiGot THEN UNCHANGED giveUps ELSE giveUps > 0 /\ giveUps' = giveUps - 1
    /\ UNCHANGED <<dhwVars, line, channel, hmiTaskVars, seenRequest, owes, reboots>>

HmiAnswers ==
    /\ LoopReadsFrame(hmiRequest)
    /\ UNCHANGED envVars

\* What HMITask does besides reading a frame.
HmiTaskTurn ==
    /\ \/ LoopReadsNothing \/ Request194 \/ Send \/ EmitError
       \/ SleepGoesOn \/ SleepIsOver
    /\ hmiGot' = (hmiGot \/ (emitted' # emitted /\ emitted'.id = ERROR_MESSAGE_IDENTIFIER
                             /\ emitted'.payload = hmiRequest))
    /\ UNCHANGED <<hmiRequest, seenRequest, owes, giveUps, reboots>>

-----------------------------------------------------------------------------
(* The controller, and ControllerTask at the level of frames *)

ControllerSends(id, payload) ==
    /\ Accept("MAIN", id, payload)
    /\ UNCHANGED <<dhwVars, line, hmiTaskVars>>

ControllerSendsStatus ==
    /\ \E id \in {ENERGY_MESSAGE_IDENTIFIER, MAIN_MESSAGE_IDENTIFIER}
                 \cup (IF line.version = "ODYSSEE" THEN {EXTRA_MESSAGE_IDENTIFIER} ELSE {}) :
          ControllerSends(id, 0)
    /\ UNCHANGED envVars

\* A single error frame answers a change of the request id.  It is zeroed,
\* request id included, when the HMI asks for an error there is not.
ControllerSendsError ==
    /\ owes
    /\ owes' = FALSE
    /\ \E payload \in {seenRequest, 0} : ControllerSends(ERROR_MESSAGE_IDENTIFIER, payload)
    /\ UNCHANGED <<hmiRequest, hmiGot, seenRequest, giveUps, reboots>>

\* The controller asks, sendMessage194 answers with the HMI's frame if there
\* is one.  (Which overrides HMIStateProxy applies does not matter here.)
ControllerRequests ==
    LET frame == CopyFrame(HMI_MESSAGE_IDENTIFIER) IN
    /\ Idle("MAIN")
    /\ frame.payload # NoFrame
    /\ seenRequest' = frame.payload
    /\ owes' = (owes \/ frame.payload # seenRequest)
    /\ UNCHANGED <<dhwVars, line, channel, hmiTaskVars, hmiRequest, hmiGot, giveUps, reboots>>

Stores(c) == ChannelStep(c) /\ UNCHANGED <<hmiTaskVars, envVars>>

-----------------------------------------------------------------------------

\* Power loss, watchdog, update: everything AquaMQTT knows is gone.
Reboot ==
    /\ reboots > 0
    /\ reboots' = reboots - 1
    /\ mProtocolVersion' = "UNKNOWN" /\ mChecksumType' = "UNKNOWN"
    /\ mMessage' = [id \in FrameIds |-> NoFrame]
    /\ mNotify' = FALSE /\ notified' = {}
    /\ channel' = [c \in Channels |-> AtRest(FALSE)]
    /\ mState' = "REQUEST_194" /\ mVersion' = "UNKNOWN"
    /\ mLastEmittedRequestId' = UINT8_MAX
    /\ at' = "top" /\ requestId' = UINT8_MAX /\ asked' = FALSE
    /\ emitted' = Emission(0, NoFrame, "UNKNOWN")
    /\ UNCHANGED <<line, hmiRequest, hmiGot, seenRequest, owes, giveUps>>

Next ==
    \/ HmiAsks
    \/ HmiAnswers
    \/ HmiTaskTurn
    \/ ControllerSendsStatus
    \/ ControllerSendsError
    \/ ControllerRequests
    \/ \E c \in Channels : Stores(c)
    \/ Reboot

\* The tasks keep running and a slot ends after 100 ms.  The HMI answers again
\* and again, and the controller asks and sends what it owes again and again
\* (MainBus: requests are recognised again and again).
Fairness ==
    /\ WF_vars(HmiTaskTurn)
    /\ SF_vars(SleepIsOver /\ HmiTaskTurn)
    /\ SF_vars(HmiAnswers)
    /\ \A c \in Channels : WF_vars(Stores(c))
    /\ SF_vars(ControllerRequests)
    /\ SF_vars(ControllerSendsError)

Spec == Init /\ [][Next]_vars /\ Fairness

-----------------------------------------------------------------------------
(* Properties *)

TypeOK ==
    /\ DHWTypeOK
    /\ ChannelTypeOK
    /\ HMITaskTypeOK
    /\ hmiRequest \in 0 .. MaxRequestId /\ seenRequest \in 0 .. MaxRequestId
    /\ hmiGot \in BOOLEAN /\ owes \in BOOLEAN
    /\ giveUps \in 0 .. MaxGiveUps /\ reboots \in 0 .. MaxReboots

\* A frame that a task can copy comes with the checksum kind of this heat pump,
\* also right after the start, when setVersion, setChecksumType and storeFrame
\* are three critical sections and any other task may copy between them.
CopiesKnowChecksum ==
    \A id \in FrameIds :
        CopyFrame(id).payload # NoFrame => CopyFrame(id).checksum = line.checksum

\* Between two requests the HMI sees the frames in the order of its protocol,
\* each at most once, from the first cycle on, when the version may become
\* known in the middle of it (state machine of task/MITM.md).
Slots == IF line.version = "ODYSSEE" THEN <<194, 74, 67, 217, 193>>
                                     ELSE <<194, 67, 193, 74>>

Before(a, b) == \E i, j \in DOMAIN Slots : i < j /\ Slots[i] = a /\ Slots[j] = b

CycleOrder ==
    [][emitted' # emitted /\ emitted.id # 0 /\ emitted'.id \notin {0, HMI_MESSAGE_IDENTIFIER}
        => Before(emitted.id, emitted'.id)]_vars

\* An error frame on the HMI's line is the one the HMI asked for in its last
\* frame, and is not emitted a second time ("we emit error messages just
\* once", HMITask.cpp:298).  As long as an id means one error: an HMI that gives
\* up on a whole round of ids (MaxGiveUps >= MaxRequestId) asks for the same id
\* again, and a restart in between makes two errors of it.
EmitsError == /\ emitted' # emitted
              /\ emitted'.id = ERROR_MESSAGE_IDENTIFIER
              /\ emitted'.payload # NoFrame

ErrorIsTheRequestedOne ==
    [][EmitsError => emitted'.payload = mMessage[HMI_MESSAGE_IDENTIFIER]]_vars

ErrorOnlyOnce ==
    [][EmitsError /\ emitted'.payload \in {hmiRequest} \ {0} => ~hmiGot]_vars

\* The HMI's request reaches the controller.
RequestReachesController == []<>(seenRequest = hmiRequest)

\* An error with the id UINT8_MAX is taken for emitted before any was: the id stands
\* for "none" as well (HMITask.cpp:17, :280).
TakenForEmitted == hmiRequest = UINT8_MAX /\ mLastEmittedRequestId = UINT8_MAX

\* "If message contains request for error message (74), emit requested error
\* message if already available" (task/MITM.md:60): it does not stay available
\* and requested for ever, but for that one id right after a start.
AvailableErrorReachesHmi ==
    []<>~(/\ hmiRequest # 0 /\ ~hmiGot /\ ~TakenForEmitted
          /\ mMessage[ERROR_MESSAGE_IDENTIFIER] = hmiRequest)

=============================================================================
