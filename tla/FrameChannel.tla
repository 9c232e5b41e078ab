---------------------------- MODULE FrameChannel ----------------------------
(***************************************************************************)
(* The other half of FrameBuffer::handleFrame: what happens to the shared  *)
(* store once a frame is accepted.  Each serial task owns one FrameBuffer, *)
(* its channel.  On the first good frame of the channel it sets version    *)
(* and checksum kind, then it stores the frame: three critical sections,   *)
(* between which the other tasks may run.  How bytes become frames is      *)
(* module FrameBuffer.                                                     *)
(***************************************************************************)
EXTENDS DHWState

CONSTANTS
    Channels,  \* the frame buffers in use
    Lines      \* the kinds of heat pump: records [version, checksum]

ASSUME LinesAssumption ==
    Lines \subseteq [version : Protocols, checksum : ProtocolChecksum \ {"UNKNOWN"}]

VARIABLES
    line,      \* the heat pump at hand, one of Lines
    channel    \* each channel's lock, step, and frame in hand

Idle(c) == channel[c].step = "idle"

AtRest(locked) == [locked |-> locked, step |-> "idle", id |-> 0, payload |-> NoFrame]

ChannelInit == channel = [c \in Channels |-> AtRest(FALSE)]

\* handleFrame found a good frame: mLockedProtocol is set without the mutex.
Accept(c, id, payload) ==
    /\ Idle(c)
    /\ channel' = [channel EXCEPT ![c] =
           [locked |-> TRUE, step |-> IF @.locked THEN "store" ELSE "version",
            id |-> id, payload |-> payload]]

MutantNextStep == [version |-> "store", store |-> "checksum", checksum |-> "idle"]

\* setVersion, setChecksumType, storeFrame.
NextStep == [version |-> "checksum", checksum |-> "store", store |-> "idle"]

At(c, step) ==
    /\ channel[c].step = step
    /\ channel' = IF NextStep[step] = "idle" THEN [channel EXCEPT ![c] = AtRest(TRUE)]
                  ELSE [channel EXCEPT ![c].step = NextStep[step]]

ChannelStep(c) ==
    /\ \/ At(c, "version")  /\ SetVersion(line.version)
       \/ At(c, "checksum") /\ SetChecksumType(line.checksum)
       \/ At(c, "store")    /\ StoreFrame(channel[c].id, channel[c].payload)
    /\ UNCHANGED line

ChannelTypeOK ==
    /\ line \in Lines
    /\ channel \in [Channels -> [locked : BOOLEAN,
                                 step : {"idle", "version", "checksum", "store"},
                                 id : FrameIds \cup {0},
                                 payload : Payload \cup {NoFrame}]]

=============================================================================
