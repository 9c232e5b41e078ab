------------------------------ MODULE DHWState ------------------------------
(***************************************************************************)
(* state/DHWState.cpp: the store all tasks share.  Every operation runs    *)
(* under the one mutex and is a single step.  A frame's payload is         *)
(* abstracted to what the properties tell apart.  The frame buffer         *)
(* statistics and the debug copies are left out.                           *)
(***************************************************************************)
EXTENDS MessageConstants

CONSTANTS
    Payload,  \* payloads of frames
    NoFrame   \* stands for a frame that was never stored

ASSUME DHWStateAssumption == NoFrame \notin Payload

VARIABLES
    mProtocolVersion,
    mChecksumType,
    mMessage,   \* the last payload of each frame, mMessageHmi .. mMessageExtra
    mNotify,    \* a listener is set
    notified    \* frames whose notification bit is set at the listener

dhwVars == <<mProtocolVersion, mChecksumType, mMessage, mNotify, notified>>

DHWInit ==
    /\ mProtocolVersion = "UNKNOWN"
    /\ mChecksumType = "UNKNOWN"
    /\ mMessage = [id \in FrameIds |-> NoFrame]
    /\ mNotify = FALSE
    /\ notified = {}

SetListener ==
    /\ mNotify' = TRUE
    /\ UNCHANGED <<mProtocolVersion, mChecksumType, mMessage, notified>>

SetVersion(version) ==
    /\ mProtocolVersion' = version
    /\ UNCHANGED <<mChecksumType, mMessage, mNotify, notified>>

SetChecksumType(checksum) ==
    /\ mChecksumType' = checksum
    /\ UNCHANGED <<mProtocolVersion, mMessage, mNotify, notified>>

MutantStoreFrame(id, payload) ==
    /\ mMessage' = [mMessage EXCEPT ![id] = IF @ = NoFrame THEN payload ELSE @]
    /\ UNCHANGED <<mProtocolVersion, mChecksumType, mNotify, notified>>

\* A frame equal to the stored one changes nothing and notifies no one.
StoreFrame(id, payload) ==
    /\ mMessage' = [mMessage EXCEPT ![id] = payload]
    /\ notified' = IF mNotify /\ mMessage[id] # payload THEN notified \cup {id}
                                                        ELSE notified
    /\ UNCHANGED <<mProtocolVersion, mChecksumType, mNotify>>

\* What copyFrame(id) delivers; NoFrame stands for length 0.
CopyFrame(id) ==
    [payload  |-> IF mProtocolVersion = "UNKNOWN" THEN NoFrame ELSE mMessage[id],
     version  |-> mProtocolVersion,
     checksum |-> mChecksumType]

DHWTypeOK ==
    /\ mProtocolVersion \in ProtocolVersion
    /\ mChecksumType \in ProtocolChecksum
    /\ mMessage \in [FrameIds -> Payload \cup {NoFrame}]
    /\ mNotify \in BOOLEAN
    /\ notified \subseteq FrameIds

=============================================================================
