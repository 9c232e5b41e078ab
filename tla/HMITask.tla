------------------------------- MODULE HMITask -------------------------------
(***************************************************************************)
(* task/HMITask.cpp: the task on the HMI's side.  It plays the main        *)
(* controller: one state per slot of the bus cycle, each a SEND followed   *)
(* by a SLEEP.  It reads the HMI's frames, emits what the main controller  *)
(* sent, and passes an error message on only when the HMI asks for it.     *)
(*                                                                         *)
(* The payload of the frames 194 and 74 is the request id in them.  A turn *)
(* of loop() is cut where other tasks can come in between: at each         *)
(* critical section of DHWState.  The 100 ms of a slot are a choice: a     *)
(* turn in a SLEEP state finds them over or not.                           *)
(***************************************************************************)
EXTENDS FrameChannel

CONSTANT UINT8_MAX  \* largest uint8_t, "no request id"

ASSUME HMITaskAssumption ==
    /\ UINT8_MAX \in Nat
    /\ Payload \subseteq 0 .. UINT8_MAX
    /\ "HMI" \in Channels

VARIABLES
    mState, mVersion, mLastEmittedRequestId,
    at,         \* where loop() is: its "top", the "switch", sendMessage74's "error" copy
    requestId,  \* local variable of sendMessage74
    asked,      \* the HMI was asked for its frame, the answer can still come
    emitted     \* the last thing written to the HMI's line

hmiTaskVars == <<mState, mVersion, mLastEmittedRequestId, at, requestId, asked, emitted>>

Sleep == [SEND_67 |-> "SLEEP_67", SEND_74POST |-> "SLEEP_74POST",
          SEND_193 |-> "SLEEP_193", SEND_217 |-> "SLEEP_217",
          SEND_74PRE |-> "SLEEP_74PRE", REQUEST_194 |-> "SLEEP_194"]

HMITaskState == UNION { {s, Sleep[s]} : s \in DOMAIN Sleep }

\* The checksum a frame is written with: CRC16 if so, "else" XOR.
Emission(id, payload, checksum) ==
    [id |-> id, payload |-> payload,
     checksum |-> IF checksum = "CRC16" THEN "CRC16" ELSE "XOR"]

HMITaskInit ==
    /\ mState = "REQUEST_194"
    /\ mVersion = "UNKNOWN"
    /\ mLastEmittedRequestId = UINT8_MAX
    /\ at = "top"
    /\ requestId = UINT8_MAX
    /\ asked = FALSE
    /\ emitted = Emission(0, NoFrame, "UNKNOWN")

-----------------------------------------------------------------------------

\* The top of loop(): learn the version, read what the line holds.
LoopTop ==
    /\ at = "top"
    /\ at' = "switch"
    /\ mVersion' = IF mVersion = "UNKNOWN" THEN mProtocolVersion ELSE mVersion
    /\ UNCHANGED <<mState, mLastEmittedRequestId, requestId, emitted, dhwVars, line>>

LoopReadsNothing == LoopTop /\ UNCHANGED <<asked, channel>>

LoopReadsFrame(payload) ==
    /\ LoopTop
    /\ asked
    /\ asked' = FALSE
    /\ Accept("HMI", HMI_MESSAGE_IDENTIFIER, payload)

\* The switch, once the frame read is stored.
Switch(from) ==
    /\ at = "switch"
    /\ Idle("HMI")
    /\ mState = from
    /\ UNCHANGED <<mVersion, dhwVars, line, channel>>

Request194 ==
    /\ Switch("REQUEST_194")
    /\ mState' = "SLEEP_194"
    /\ at' = "top"
    /\ asked' = TRUE
    /\ emitted' = Emission(HMI_MESSAGE_IDENTIFIER, NoFrame, "UNKNOWN")
    /\ UNCHANGED <<mLastEmittedRequestId, requestId>>

\* sendMessage67, sendMessage193 and sendMessage217: nothing is written before
\* the main controller sent such a frame.  The line is flushed either way.
SendMessage(id, state) ==
    LET frame == CopyFrame(id) IN
    /\ Switch(state)
    /\ mState' = Sleep[state]
    /\ at' = "top"
    /\ asked' = FALSE
    /\ emitted' = IF frame.payload = NoFrame THEN emitted
                  ELSE Emission(id, frame.payload, frame.checksum)
    /\ UNCHANGED <<mLastEmittedRequestId, requestId>>

MutantNoRequest == UINT8_MAX + 1

\* What sendMessage74 takes for the request before there is an HMI frame.
NoRequest == UINT8_MAX

MutantNeverEmitted(id) == FALSE

MutantEmittedUpTo(id) == id <= mLastEmittedRequestId

AlreadyEmitted(id) == mLastEmittedRequestId = id

MutantIsAvailable(id, error) == error.payload # NoFrame

\* Without an error frame the id at hand is 0.
IsAvailable(id, error) == id = IF error.payload = NoFrame THEN 0 ELSE error.payload

\* sendMessage74 up to its early return: which error does the HMI want?
SendMessage74(state) ==
    LET frame == CopyFrame(HMI_MESSAGE_IDENTIFIER)
        id    == IF frame.payload = NoFrame THEN NoRequest ELSE frame.payload
    IN
    /\ Switch(state)
    /\ mState' = Sleep[state]
    /\ IF AlreadyEmitted(id) THEN at' = "top" /\ UNCHANGED requestId
                            ELSE at' = "error" /\ requestId' = id
    /\ asked' = FALSE
    /\ UNCHANGED <<mLastEmittedRequestId, emitted>>

\* The rest of sendMessage74: emit the error frame if it is the one asked for.
EmitError ==
    LET error == CopyFrame(ERROR_MESSAGE_IDENTIFIER) IN
    /\ at = "error"
    /\ at' = "top"
    /\ IF IsAvailable(requestId, error)
       THEN /\ emitted' = Emission(ERROR_MESSAGE_IDENTIFIER, error.payload, error.checksum)
            /\ mLastEmittedRequestId' = requestId
       ELSE UNCHANGED <<emitted, mLastEmittedRequestId>>
    /\ UNCHANGED <<mState, mVersion, requestId, asked, dhwVars, line, channel>>

Send ==
    \/ SendMessage(ENERGY_MESSAGE_IDENTIFIER, "SEND_67")
    \/ SendMessage(MAIN_MESSAGE_IDENTIFIER, "SEND_193")
    \/ SendMessage(EXTRA_MESSAGE_IDENTIFIER, "SEND_217")
    \/ SendMessage74("SEND_74PRE")
    \/ SendMessage74("SEND_74POST")

MutantAfterSleep ==
    LET odyssee == mVersion = "ODYSSEE" IN
    [SLEEP_194    |-> IF odyssee THEN "SEND_74POST" ELSE "SEND_67",
     SLEEP_67     |-> IF odyssee THEN "SEND_217" ELSE "SEND_193",
     SLEEP_74POST |-> "SEND_67",
     SLEEP_193    |-> "SEND_74PRE",
     SLEEP_217    |-> "SEND_193",
     SLEEP_74PRE  |-> "REQUEST_194"]

AfterSleep ==
    LET odyssee == mVersion = "ODYSSEE" IN
    [SLEEP_194    |-> IF odyssee THEN "SEND_74POST" ELSE "SEND_67",
     SLEEP_67     |-> IF odyssee THEN "SEND_217" ELSE "SEND_193",
     SLEEP_74POST |-> "SEND_67",
     SLEEP_193    |-> IF odyssee THEN "REQUEST_194" ELSE "SEND_74PRE",
     SLEEP_217    |-> "SEND_193",
     SLEEP_74PRE  |-> "REQUEST_194"]

SleepTurn ==
    /\ \E s \in DOMAIN AfterSleep : Switch(s)
    /\ at' = "top"
    /\ UNCHANGED <<mLastEmittedRequestId, requestId, asked, emitted>>

SleepGoesOn == SleepTurn /\ UNCHANGED mState

SleepIsOver == SleepTurn /\ mState' = AfterSleep[mState]

HMITaskTypeOK ==
    /\ mState \in HMITaskState
    /\ mVersion \in ProtocolVersion
    /\ mLastEmittedRequestId \in 0 .. UINT8_MAX
    /\ at \in {"top", "switch", "error"}
    /\ requestId \in 0 .. UINT8_MAX
    /\ asked \in BOOLEAN
    /\ emitted \in [id : FrameIds \cup {0}, payload : Payload \cup {NoFrame},
                    checksum : {"CRC16", "XOR"}]

=============================================================================
