----------------------------- MODULE Mitm_proofs -----------------------------
(***************************************************************************)
(* Whatever a task copies from the store comes with the right checksum     *)
(* kind, whatever error HMITask emits is the one the HMI's last frame asks *)
(* for and was not emitted before, and the HMI sees the frames in the      *)
(* order of its protocol, for any number of channels, any payloads and     *)
(* request ids, and any number of restarts.                                *)
(***************************************************************************)
EXTENDS Mitm, FrameChannel_proofs, TLAPS

\* A restart: nothing is stored, no channel is locked.
LEMMA InvReboot ==
    ASSUME ChannelInv, Reboot
    PROVE  ChannelInv'
  <1>1. /\ line' \in Lines
        /\ mMessage' = [id \in FrameIds |-> NoFrame]
        /\ mProtocolVersion' = "UNKNOWN" /\ mChecksumType' = "UNKNOWN"
        /\ channel' = [c \in Channels |-> AtRest(FALSE)]
    BY DEF Reboot, ChannelInv, Typed
  <1>2. Typed'
    BY <1>1 DEF Typed, AtRest
  <1>3. QED
    BY <1>1, <1>2 DEF ChannelInv, OfLine, InHand, ChannelsKnow, SetVersionBehind,
                      SetChecksumBehind, StoredKnow, AtRest

\* The HMI task's own steps do not touch the store.
LEMMA HmiTaskTurnKeepsStore == HmiTaskTurn => UNCHANGED storeVars
  <1>1. ASSUME NEW s, Switch(s)
        PROVE  UNCHANGED storeVars
    BY <1>1 DEF Switch, dhwVars, storeVars
  <1>2. LoopReadsNothing => UNCHANGED storeVars
    BY DEF LoopReadsNothing, LoopTop, dhwVars, storeVars
  <1>3. Request194 => UNCHANGED storeVars
    BY <1>1 DEF Request194
  <1>4. Send => UNCHANGED storeVars
    BY <1>1 DEF Send, SendMessage, SendMessage74
  <1>5. EmitError => UNCHANGED storeVars
    BY DEF EmitError, dhwVars, storeVars
  <1>6. SleepGoesOn \/ SleepIsOver => UNCHANGED storeVars
    BY <1>1 DEF SleepGoesOn, SleepIsOver, SleepTurn
  <1>7. QED
    BY <1>2, <1>3, <1>4, <1>5, <1>6 DEF HmiTaskTurn

\* Request ids stay in range.
RequestsTyped == hmiRequest \in 0 .. MaxRequestId /\ seenRequest \in Payload

Inv == ChannelInv /\ RequestsTyped

LEMMA InvInit == Init => Inv
  <1>1. SUFFICES ASSUME Init
                 PROVE  Inv
    OBVIOUS
  <1>2. RequestsTyped
    BY <1>1, MitmAssumption DEF Init, RequestsTyped
  <1>3. ChannelInv
    BY <1>1, ChannelInvStart DEF Init, ChannelInit, DHWInit
  <1>4. QED
    BY <1>2, <1>3 DEF Inv

\* What copyFrame(194) delivers is a payload, if it is anything.
LEMMA CopyTyped ==
    ASSUME ChannelInv, NEW id \in FrameIds
    PROVE  CopyFrame(id).payload \in Payload \cup {NoFrame}
  BY CopyIsStored DEF ChannelInv, Typed

LEMMA InvNext == Inv /\ [Next]_vars => Inv'
  <1>1. SUFFICES ASSUME Inv, [Next]_vars
                 PROVE  Inv'
    OBVIOUS
  <1>2. /\ HMI_MESSAGE_IDENTIFIER \in FrameIds
        /\ ERROR_MESSAGE_IDENTIFIER \in FrameIds
        /\ {ENERGY_MESSAGE_IDENTIFIER, MAIN_MESSAGE_IDENTIFIER, EXTRA_MESSAGE_IDENTIFIER}
               \subseteq FrameIds
    BY DEF FrameIds
  <1>3. CASE HmiAsks
    <2>1. hmiRequest' \in 0 .. MaxRequestId
      BY <1>1, <1>3, MitmAssumption, HMITaskAssumption
         DEF Inv, RequestsTyped, HmiAsks, NextRequests
    <2>2. UNCHANGED <<storeVars, seenRequest>>
      BY <1>3 DEF HmiAsks, dhwVars, storeVars
    <2>3. QED
      BY <1>1, <2>1, <2>2, ChannelInvStutter DEF Inv, RequestsTyped
  <1>4. CASE HmiAnswers
    <2>1. hmiRequest \in Payload
      BY <1>1, MitmAssumption DEF Inv, RequestsTyped
    <2>2. /\ Accept("HMI", HMI_MESSAGE_IDENTIFIER, hmiRequest)
          /\ UNCHANGED <<line, mMessage, mProtocolVersion, mChecksumType>>
      BY <1>4 DEF HmiAnswers, LoopReadsFrame, LoopTop, dhwVars
    <2>3. ChannelInv'
      BY <1>1, <1>2, <2>1, <2>2, ChannelInvAccept, HMITaskAssumption DEF Inv
    <2>4. QED
      BY <1>1, <1>4, <2>3 DEF Inv, RequestsTyped, HmiAnswers, envVars
  <1>5. CASE HmiTaskTurn
    <2>1. UNCHANGED <<storeVars, hmiRequest, seenRequest>>
      BY <1>5, HmiTaskTurnKeepsStore DEF HmiTaskTurn
    <2>2. QED
      BY <1>1, <2>1, ChannelInvStutter DEF Inv, RequestsTyped
  <1>6. CASE ControllerSendsStatus
    <2>1. PICK id \in {ENERGY_MESSAGE_IDENTIFIER, MAIN_MESSAGE_IDENTIFIER,
                       EXTRA_MESSAGE_IDENTIFIER} : ControllerSends(id, 0)
      BY <1>6 DEF ControllerSendsStatus
    <2>2. 0 \in Payload /\ "MAIN" \in Channels
      BY MitmAssumption
    <2>3. ChannelInv'
      BY <1>1, <1>2, <2>1, <2>2, ChannelInvAccept DEF Inv, ControllerSends, dhwVars
    <2>4. QED
      BY <1>1, <1>6, <2>3 DEF Inv, RequestsTyped, ControllerSendsStatus, envVars
  <1>7. CASE ControllerSendsError
    <2>1. PICK payload \in {seenRequest, 0} : ControllerSends(ERROR_MESSAGE_IDENTIFIER, payload)
      BY <1>7 DEF ControllerSendsError
    <2>2. payload \in Payload /\ "MAIN" \in Channels
      BY <1>1, <2>1, MitmAssumption DEF Inv, RequestsTyped
    <2>3. ChannelInv'
      BY <1>1, <1>2, <2>1, <2>2, ChannelInvAccept DEF Inv, ControllerSends, dhwVars
    <2>4. QED
      BY <1>1, <1>7, <2>3 DEF Inv, RequestsTyped, ControllerSendsError
  <1>8. CASE ControllerRequests
    <2>1. seenRequest' \in Payload
      BY <1>1, <1>2, <1>8, CopyTyped DEF Inv, ControllerRequests
    <2>2. UNCHANGED <<storeVars, hmiRequest>>
      BY <1>8 DEF ControllerRequests, dhwVars, storeVars
    <2>3. QED
      BY <1>1, <2>1, <2>2, ChannelInvStutter DEF Inv, RequestsTyped
  <1>9. CASE \E c \in Channels : Stores(c)
    <2>1. ChannelInv'
      BY <1>1, <1>9, ChannelInvStep DEF Inv, Stores
    <2>2. QED
      BY <1>1, <1>9, <2>1 DEF Inv, RequestsTyped, Stores, envVars
  <1>10. CASE Reboot
    <2>1. UNCHANGED <<hmiRequest, seenRequest>>
      BY <1>10 DEF Reboot
    <2>2. QED
      BY <1>1, <1>10, <2>1, InvReboot DEF Inv, RequestsTyped
  <1>11. CASE UNCHANGED vars
    <2>1. UNCHANGED <<storeVars, hmiRequest, seenRequest>>
      BY <1>11 DEF vars, dhwVars, envVars, storeVars
    <2>2. QED
      BY <1>1, <2>1, ChannelInvStutter DEF Inv, RequestsTyped
  <1>12. QED
    BY <1>1, <1>3, <1>4, <1>5, <1>6, <1>7, <1>8, <1>9, <1>10, <1>11 DEF Next

\* A frame that any task copies comes with the checksum kind of the heat pump.
THEOREM MitmCopiesKnowChecksum == Spec => []CopiesKnowChecksum
  <1>1. Inv => CopiesKnowChecksum
    BY DEF Inv, ChannelInv, StoredKnow, CopiesKnowChecksum, CopyFrame
  <1>2. QED
    BY <1>1, InvInit, InvNext, PTL DEF Spec

-----------------------------------------------------------------------------
(* The error emitted is the one requested.  Between the two copies of      *)
(* sendMessage74 the HMI's frame cannot change, as only the task itself    *)
(* reads the HMI's line, and no other channel brings such a frame.         *)

OnlyHmiBringsRequests ==
    \A c \in Channels \ {"HMI"} :
        channel[c].step # "idle" => channel[c].id # HMI_MESSAGE_IDENTIFIER

RequestStands ==
    at = "error" => /\ channel["HMI"].step = "idle"
                    /\ mMessage[HMI_MESSAGE_IDENTIFIER] # NoFrame
                    /\ requestId = mMessage[HMI_MESSAGE_IDENTIFIER]

NothingEmittedUnasked ==
    mMessage[HMI_MESSAGE_IDENTIFIER] = NoFrame => mLastEmittedRequestId = UINT8_MAX

ErrorInv == OnlyHmiBringsRequests /\ RequestStands /\ NothingEmittedUnasked

errorVars == <<channel, mMessage, at, requestId, mLastEmittedRequestId>>

LEMMA ErrorInvStutter == ErrorInv /\ UNCHANGED errorVars => ErrorInv'
  BY DEF ErrorInv, OnlyHmiBringsRequests, RequestStands, NothingEmittedUnasked, errorVars

\* A turn that does not stop at "error" and leaves the store alone.
LEMMA ErrorInvTurn ==
    ASSUME ErrorInv, UNCHANGED <<channel, mMessage>>, at' # "error",
           NothingEmittedUnasked'
    PROVE  ErrorInv'
  BY DEF ErrorInv, OnlyHmiBringsRequests, RequestStands

LEMMA ErrorInvInit == Init => ErrorInv
  <1>1. SUFFICES ASSUME Init
                 PROVE  ErrorInv
    OBVIOUS
  <1>2. OnlyHmiBringsRequests
    BY <1>1 DEF Init, ChannelInit, AtRest, OnlyHmiBringsRequests
  <1>3. RequestStands /\ NothingEmittedUnasked
    BY <1>1 DEF Init, HMITaskInit, RequestStands, NothingEmittedUnasked
  <1>4. QED
    BY <1>2, <1>3 DEF ErrorInv

\* HMITask's own turns.
LEMMA ErrorInvHmiTaskTurn ==
    ASSUME Inv, ErrorInv, HmiTaskTurn
    PROVE  ErrorInv'
  <1>1. UNCHANGED <<channel, mMessage>>
    BY HmiTaskTurnKeepsStore DEF storeVars
  <1>2. ASSUME at' # "error", UNCHANGED mLastEmittedRequestId
        PROVE  ErrorInv'
    BY <1>1, <1>2, ErrorInvTurn DEF ErrorInv, NothingEmittedUnasked
  <1>3. CASE LoopReadsNothing
    BY <1>2, <1>3 DEF LoopReadsNothing, LoopTop
  <1>4. CASE Request194
    BY <1>2, <1>4 DEF Request194
  <1>5. CASE \E id, state : SendMessage(id, state)
    BY <1>2, <1>5 DEF SendMessage
  <1>6. CASE \E state : SendMessage74(state)
    <2>1. PICK state : SendMessage74(state)
      BY <1>6
    <2> DEFINE frame == CopyFrame(HMI_MESSAGE_IDENTIFIER)
               id    == IF frame.payload = NoFrame THEN NoRequest ELSE frame.payload
    <2>2. HMI_MESSAGE_IDENTIFIER \in FrameIds
      BY DEF FrameIds
    <2>3. frame.payload = mMessage[HMI_MESSAGE_IDENTIFIER]
      BY <2>2, CopyIsStored DEF Inv
    <2>4. UNCHANGED mLastEmittedRequestId /\ channel["HMI"].step = "idle"
      BY <2>1 DEF SendMessage74, Switch, Idle
    <2>5. CASE AlreadyEmitted(id)
      BY <1>2, <2>1, <2>4, <2>5 DEF SendMessage74
    <2>6. CASE ~AlreadyEmitted(id)
      <3>1. requestId' = id
        BY <2>1, <2>6 DEF SendMessage74
      <3>2. frame.payload # NoFrame
        BY <2>3, <2>6 DEF ErrorInv, NothingEmittedUnasked, AlreadyEmitted, NoRequest
      <3>3. RequestStands'
        <4>1. /\ requestId' = mMessage[HMI_MESSAGE_IDENTIFIER]
              /\ mMessage[HMI_MESSAGE_IDENTIFIER] # NoFrame
          BY <2>3, <3>1, <3>2
        <4>2. QED
          BY <1>1, <2>4, <4>1 DEF RequestStands
      <3>4. OnlyHmiBringsRequests' /\ NothingEmittedUnasked'
        BY <1>1, <2>4 DEF ErrorInv, OnlyHmiBringsRequests, NothingEmittedUnasked
      <3>5. QED
        BY <3>3, <3>4 DEF ErrorInv
    <2>7. QED
      BY <2>5, <2>6
  <1>7. CASE EmitError
    <2>1. mMessage[HMI_MESSAGE_IDENTIFIER] # NoFrame
      BY <1>7 DEF EmitError, ErrorInv, RequestStands
    <2>2. at' = "top" /\ NothingEmittedUnasked'
      BY <1>1, <1>7, <2>1 DEF EmitError, NothingEmittedUnasked
    <2>3. QED
      BY <1>1, <2>2, ErrorInvTurn
  <1>8. CASE SleepGoesOn \/ SleepIsOver
    BY <1>2, <1>8 DEF SleepGoesOn, SleepIsOver, SleepTurn
  <1>9. QED
    BY <1>3, <1>4, <1>5, <1>6, <1>7, <1>8 DEF HmiTaskTurn, Send

\* Frames of the controller are not the HMI's.
LEMMA ErrorInvControllerSends ==
    ASSUME ChannelInv, ErrorInv, NEW id \in FrameIds \ {HMI_MESSAGE_IDENTIFIER}, NEW payload,
           ControllerSends(id, payload)
    PROVE  ErrorInv'
  <1>1. /\ UNCHANGED <<mMessage, at, requestId, mLastEmittedRequestId>>
        /\ channel' = [channel EXCEPT !["MAIN"] =
              [locked |-> TRUE, step |-> IF @.locked THEN "store" ELSE "version",
               id |-> id, payload |-> payload]]
    BY DEF ControllerSends, Accept, dhwVars, hmiTaskVars
  <1>2. OnlyHmiBringsRequests'
    BY <1>1 DEF ErrorInv, OnlyHmiBringsRequests, ChannelInv, Typed
  <1>3. channel'["HMI"] = channel["HMI"]
    BY <1>1 DEF ChannelInv, Typed
  <1>4. RequestStands' /\ NothingEmittedUnasked'
    BY <1>1, <1>3 DEF ErrorInv, RequestStands, NothingEmittedUnasked
  <1>5. QED
    BY <1>2, <1>4 DEF ErrorInv

\* A critical section of a channel: HMITask waits for its own.
LEMMA ErrorInvStores ==
    ASSUME ChannelInv, ErrorInv, NEW c \in Channels, Stores(c)
    PROVE  ErrorInv'
  <1>0. HMI_MESSAGE_IDENTIFIER \in FrameIds
    BY DEF FrameIds
  <1>1. UNCHANGED <<at, requestId, mLastEmittedRequestId>>
    BY DEF Stores, hmiTaskVars
  <1>2. channel[c].step # "idle"
    BY DEF Stores, ChannelStep, At
  <1>3. channel[c].id \in FrameIds /\ channel[c].payload # NoFrame
    BY <1>2, DHWStateAssumption DEF ChannelInv, InHand
  <1>4. \A d \in Channels : d # c => channel'[d] = channel[d]
    BY DEF Stores, ChannelStep, At, ChannelInv, Typed
  <1>5. channel'[c].step # "idle" => channel'[c].id = channel[c].id
    BY DEF Stores, ChannelStep, At, AtRest, ChannelInv, Typed
  <1>6. \/ UNCHANGED mMessage
        \/ mMessage' = [mMessage EXCEPT ![channel[c].id] = channel[c].payload]
    BY DEF Stores, ChannelStep, SetVersion, SetChecksumType, StoreFrame
  <1>7. OnlyHmiBringsRequests'
    BY <1>2, <1>4, <1>5 DEF ErrorInv, OnlyHmiBringsRequests
  <1>8. mMessage[HMI_MESSAGE_IDENTIFIER] # NoFrame => mMessage'[HMI_MESSAGE_IDENTIFIER] # NoFrame
    BY <1>0, <1>3, <1>6 DEF ChannelInv, Typed
  <1>9. NothingEmittedUnasked'
    BY <1>1, <1>8 DEF ErrorInv, NothingEmittedUnasked
  <1>10. RequestStands'
    <2>1. SUFFICES ASSUME at = "error"
                   PROVE  /\ channel'["HMI"] = channel["HMI"]
                          /\ mMessage'[HMI_MESSAGE_IDENTIFIER] = mMessage[HMI_MESSAGE_IDENTIFIER]
      BY <1>1 DEF ErrorInv, RequestStands
    <2>2. c # "HMI"
      BY <1>2, <2>1 DEF ErrorInv, RequestStands
    <2>3. channel[c].id # HMI_MESSAGE_IDENTIFIER
      BY <1>2, <2>2 DEF ErrorInv, OnlyHmiBringsRequests
    <2>4. QED
      BY <1>0, <1>4, <1>6, <2>2, <2>3, HMITaskAssumption DEF ChannelInv, Typed
  <1>11. QED
    BY <1>7, <1>9, <1>10 DEF ErrorInv

LEMMA ErrorInvNext == Inv /\ ErrorInv /\ [Next]_vars => ErrorInv'
  <1>1. SUFFICES ASSUME Inv, ErrorInv, [Next]_vars
                 PROVE  ErrorInv'
    OBVIOUS
  <1>2. ChannelInv
    BY <1>1 DEF Inv
  <1>3. CASE HmiAsks
    BY <1>1, <1>3, ErrorInvStutter DEF HmiAsks, dhwVars, hmiTaskVars, errorVars
  <1>4. CASE HmiAnswers
    <2>1. /\ at' = "switch"
          /\ UNCHANGED <<mMessage, mLastEmittedRequestId>>
          /\ \A c \in Channels \ {"HMI"} : channel'[c] = channel[c]
      BY <1>2, <1>4 DEF HmiAnswers, LoopReadsFrame, LoopTop, Accept, dhwVars, ChannelInv, Typed
    <2>2. QED
      BY <1>1, <2>1 DEF ErrorInv, OnlyHmiBringsRequests, RequestStands, NothingEmittedUnasked
  <1>5. CASE HmiTaskTurn
    BY <1>1, <1>5, ErrorInvHmiTaskTurn
  <1>6. CASE ControllerSendsStatus
    <2>1. PICK id \in {ENERGY_MESSAGE_IDENTIFIER, MAIN_MESSAGE_IDENTIFIER,
                       EXTRA_MESSAGE_IDENTIFIER} : ControllerSends(id, 0)
      BY <1>6 DEF ControllerSendsStatus
    <2>2. id \in FrameIds \ {HMI_MESSAGE_IDENTIFIER}
      BY DEF FrameIds, HMI_MESSAGE_IDENTIFIER, ENERGY_MESSAGE_IDENTIFIER,
             MAIN_MESSAGE_IDENTIFIER, EXTRA_MESSAGE_IDENTIFIER
    <2>3. QED
      BY <1>1, <1>2, <2>1, <2>2, ErrorInvControllerSends
  <1>7. CASE ControllerSendsError
    <2>1. PICK payload : ControllerSends(ERROR_MESSAGE_IDENTIFIER, payload)
      BY <1>7 DEF ControllerSendsError
    <2>2. ERROR_MESSAGE_IDENTIFIER \in FrameIds \ {HMI_MESSAGE_IDENTIFIER}
      BY DEF FrameIds, HMI_MESSAGE_IDENTIFIER, ERROR_MESSAGE_IDENTIFIER
    <2>3. QED
      BY <1>1, <1>2, <2>1, <2>2, ErrorInvControllerSends
  <1>8. CASE ControllerRequests
    BY <1>1, <1>8, ErrorInvStutter DEF ControllerRequests, dhwVars, hmiTaskVars, errorVars
  <1>9. CASE \E c \in Channels : Stores(c)
    BY <1>1, <1>2, <1>9, ErrorInvStores
  <1>10. CASE Reboot
    BY <1>10 DEF Reboot, AtRest, ErrorInv, OnlyHmiBringsRequests, RequestStands,
                 NothingEmittedUnasked
  <1>11. CASE UNCHANGED vars
    BY <1>1, <1>11, ErrorInvStutter DEF vars, dhwVars, hmiTaskVars, errorVars
  <1>12. QED
    BY <1>1, <1>3, <1>4, <1>5, <1>6, <1>7, <1>8, <1>9, <1>10, <1>11 DEF Next

\* Only sendMessage74 emits an error frame with something in it.
LEMMA OnlyEmitErrorEmitsErrors ==
    ASSUME [Next]_vars, EmitsError
    PROVE  HmiTaskTurn /\ EmitError
  <1>1. CASE HmiTaskTurn
    <2>1. /\ ENERGY_MESSAGE_IDENTIFIER # ERROR_MESSAGE_IDENTIFIER
          /\ MAIN_MESSAGE_IDENTIFIER # ERROR_MESSAGE_IDENTIFIER
          /\ EXTRA_MESSAGE_IDENTIFIER # ERROR_MESSAGE_IDENTIFIER
          /\ HMI_MESSAGE_IDENTIFIER # ERROR_MESSAGE_IDENTIFIER
      BY DEF ENERGY_MESSAGE_IDENTIFIER, MAIN_MESSAGE_IDENTIFIER, EXTRA_MESSAGE_IDENTIFIER,
             HMI_MESSAGE_IDENTIFIER, ERROR_MESSAGE_IDENTIFIER
    <2>2. ~LoopReadsNothing
      BY DEF LoopReadsNothing, LoopTop, EmitsError
    <2>3. ~Request194
      BY <2>1 DEF Request194, Emission, EmitsError
    <2>4. ASSUME NEW id, NEW state, SendMessage(id, state)
          PROVE  id = ERROR_MESSAGE_IDENTIFIER
      BY <2>4 DEF SendMessage, Emission, EmitsError
    <2>5. ~\E state : SendMessage74(state)
      BY DEF SendMessage74, EmitsError
    <2>6. ~Send
      BY <2>1, <2>4, <2>5 DEF Send
    <2>7. ~SleepGoesOn /\ ~SleepIsOver
      BY DEF SleepGoesOn, SleepIsOver, SleepTurn, EmitsError
    <2>8. QED
      BY <1>1, <2>2, <2>3, <2>6, <2>7 DEF HmiTaskTurn
  <1>2. CASE UNCHANGED emitted
    BY <1>2 DEF EmitsError
  <1>3. CASE Reboot
    BY <1>3 DEF Reboot, Emission, EmitsError, ERROR_MESSAGE_IDENTIFIER
  <1>4. CASE HmiAnswers
    BY <1>2, <1>4 DEF HmiAnswers, LoopReadsFrame, LoopTop
  <1>5. CASE ControllerSendsStatus \/ ControllerSendsError
    BY <1>2, <1>5 DEF ControllerSendsStatus, ControllerSendsError, ControllerSends, hmiTaskVars
  <1>6. CASE HmiAsks \/ ControllerRequests \/ \E c \in Channels : Stores(c)
    BY <1>2, <1>6 DEF HmiAsks, ControllerRequests, Stores, hmiTaskVars
  <1>7. CASE UNCHANGED vars
    BY <1>2, <1>7 DEF vars, hmiTaskVars
  <1>8. QED
    BY <1>1, <1>3, <1>4, <1>5, <1>6, <1>7 DEF Next

\* An error frame on the HMI's line is the one its last frame asks for.
THEOREM MitmErrorIsTheRequestedOne == Spec => ErrorIsTheRequestedOne
  <1>1. Inv /\ ErrorInv /\ [Next]_vars
            => [EmitsError => emitted'.payload = mMessage[HMI_MESSAGE_IDENTIFIER]]_vars
    <2>1. SUFFICES ASSUME Inv, ErrorInv, [Next]_vars, EmitsError
                   PROVE  emitted'.payload = mMessage[HMI_MESSAGE_IDENTIFIER]
      OBVIOUS
    <2>2. EmitError
      BY <2>1, OnlyEmitErrorEmitsErrors
    <2> DEFINE error == CopyFrame(ERROR_MESSAGE_IDENTIFIER)
    <2>3. IsAvailable(requestId, error) /\ emitted'.payload = error.payload
      BY <2>1, <2>2 DEF EmitError, EmitsError, Emission
    <2>4. requestId = error.payload
      BY <2>1, <2>3 DEF IsAvailable, EmitsError
    <2>5. QED
      BY <2>1, <2>2, <2>3, <2>4 DEF ErrorInv, RequestStands, EmitError
  <1>2. QED
    BY <1>1, InvInit, InvNext, ErrorInvInit, ErrorInvNext, PTL DEF Spec, ErrorIsTheRequestedOne

-----------------------------------------------------------------------------
(* Types: what ChannelInv says nothing about. *)

\* The HMI's request ids stay in range on their way through channel and store.
RequestsInRange ==
    /\ hmiRequest \in 0 .. MaxRequestId /\ seenRequest \in 0 .. MaxRequestId
    /\ mMessage[HMI_MESSAGE_IDENTIFIER] \in 0 .. MaxRequestId \cup {NoFrame}
    /\ \A c \in Channels :
          channel[c].step # "idle" /\ channel[c].id = HMI_MESSAGE_IDENTIFIER
              => channel[c].payload \in 0 .. MaxRequestId

BoundsTyped ==
    /\ hmiGot \in BOOLEAN /\ owes \in BOOLEAN
    /\ giveUps \in 0 .. MaxGiveUps /\ reboots \in 0 .. MaxReboots

TypeInv == RequestsInRange /\ BoundsTyped /\ NotificationsTyped /\ HMITaskTypeOK

LEMMA EmissionTyped ==
    ASSUME NEW id \in FrameIds \cup {0}, NEW payload \in Payload \cup {NoFrame}, NEW checksum
    PROVE  Emission(id, payload, checksum) \in
               [id : FrameIds \cup {0}, payload : Payload \cup {NoFrame},
                checksum : {"CRC16", "XOR"}]
  BY DEF Emission

\* The start, and every restart, of the task.
LEMMA HMITaskInitTyped == HMITaskInit => HMITaskTypeOK
  <1>1. Emission(0, NoFrame, "UNKNOWN") \in
            [id : FrameIds \cup {0}, payload : Payload \cup {NoFrame},
             checksum : {"CRC16", "XOR"}]
    BY EmissionTyped
  <1>2. /\ "REQUEST_194" \in HMITaskState /\ "UNKNOWN" \in ProtocolVersion
        /\ UINT8_MAX \in 0 .. UINT8_MAX
    BY HMITaskAssumption DEF HMITaskState, Sleep, ProtocolVersion
  <1>3. QED
    BY <1>1, <1>2 DEF HMITaskInit, HMITaskTypeOK

LEMMA TypeInvInit == Init => TypeInv
  <1>1. SUFFICES ASSUME Init
                 PROVE  TypeInv
    OBVIOUS
  <1>2. HMITaskTypeOK
    BY <1>1, HMITaskInitTyped DEF Init
  <1>3. BoundsTyped
    <2>1. giveUps \in 0 .. MaxGiveUps /\ reboots \in 0 .. MaxReboots
      BY <1>1, MitmAssumption DEF Init
    <2>2. QED
      BY <1>1, <2>1 DEF Init, BoundsTyped
  <1>4. RequestsInRange /\ NotificationsTyped
    BY <1>1 DEF Init, DHWInit, ChannelInit, AtRest, RequestsInRange, NotificationsTyped, FrameIds
  <1>5. QED
    BY <1>2, <1>3, <1>4 DEF TypeInv

\* A turn of the HMI task.
LEMMA HMITaskTypedTurn ==
    ASSUME ChannelInv, HMITaskTypeOK, HmiTaskTurn
    PROVE  HMITaskTypeOK'
  <1>1. HMITaskState = {"SEND_67", "SEND_74POST", "SEND_193", "SEND_217", "SEND_74PRE",
                        "REQUEST_194", "SLEEP_67", "SLEEP_74POST", "SLEEP_193", "SLEEP_217",
                        "SLEEP_74PRE", "SLEEP_194"}
    BY DEF HMITaskState, Sleep
  <1>2. CASE LoopReadsNothing
    BY <1>2, ChannelInvTypes DEF LoopReadsNothing, LoopTop, HMITaskTypeOK
  <1>3. CASE Request194
    <2>1. HMI_MESSAGE_IDENTIFIER \in FrameIds
      BY DEF FrameIds
    <2>2. emitted' \in [id : FrameIds \cup {0}, payload : Payload \cup {NoFrame},
                        checksum : {"CRC16", "XOR"}]
      BY <1>3, <2>1, EmissionTyped DEF Request194
    <2>3. QED
      BY <1>1, <1>3, <2>2 DEF Request194, Switch, HMITaskTypeOK
  <1>4. ASSUME NEW id \in FrameIds, NEW state \in DOMAIN Sleep, SendMessage(id, state)
        PROVE  HMITaskTypeOK'
    <2>1. CopyFrame(id).payload \in Payload \cup {NoFrame}
      BY CopyTyped
    <2>2. emitted' \in [id : FrameIds \cup {0}, payload : Payload \cup {NoFrame},
                        checksum : {"CRC16", "XOR"}]
      BY <1>4, <2>1, EmissionTyped DEF SendMessage, HMITaskTypeOK
    <2>3. mState' \in HMITaskState
      BY <1>4 DEF SendMessage, HMITaskState
    <2>4. QED
      BY <1>4, <2>2, <2>3 DEF SendMessage, Switch, HMITaskTypeOK
  <1>5. ASSUME NEW state \in DOMAIN Sleep, SendMessage74(state)
        PROVE  HMITaskTypeOK'
    <2> DEFINE frame == CopyFrame(HMI_MESSAGE_IDENTIFIER)
               id    == IF frame.payload = NoFrame THEN NoRequest ELSE frame.payload
    <2>1. frame.payload \in Payload \cup {NoFrame}
      BY CopyTyped DEF FrameIds
    <2>2. id \in 0 .. UINT8_MAX
      <3>1. CASE frame.payload = NoFrame
        BY <3>1, HMITaskAssumption DEF NoRequest
      <3>2. CASE frame.payload # NoFrame
        <4>1. frame.payload \in 0 .. UINT8_MAX
          BY <2>1, <3>2, HMITaskAssumption
        <4>2. QED
          BY <3>2, <4>1
      <3>3. QED
        BY <3>1, <3>2
    <2>3. /\ requestId' \in {id, requestId} /\ at' \in {"top", "error"}
          /\ asked' = FALSE
          /\ UNCHANGED <<mVersion, mLastEmittedRequestId, emitted>>
      BY <1>5 DEF SendMessage74, Switch
    <2>4. mState' \in HMITaskState
      BY <1>5 DEF SendMessage74, HMITaskState
    <2>5. QED
      BY <2>2, <2>3, <2>4 DEF HMITaskTypeOK
  <1>6. CASE Send
    <2>1. /\ {"SEND_67", "SEND_193", "SEND_217", "SEND_74PRE", "SEND_74POST"} \subseteq DOMAIN Sleep
          /\ {ENERGY_MESSAGE_IDENTIFIER, MAIN_MESSAGE_IDENTIFIER, EXTRA_MESSAGE_IDENTIFIER}
                 \subseteq FrameIds
      BY DEF Sleep, FrameIds
    <2>2. QED
      BY <1>4, <1>5, <1>6, <2>1 DEF Send
  <1>7. CASE EmitError
    <2>1. ERROR_MESSAGE_IDENTIFIER \in FrameIds
      BY DEF FrameIds
    <2>2. CopyFrame(ERROR_MESSAGE_IDENTIFIER).payload \in Payload \cup {NoFrame}
      BY <2>1, CopyTyped
    <2>3. emitted' \in [id : FrameIds \cup {0}, payload : Payload \cup {NoFrame},
                        checksum : {"CRC16", "XOR"}]
      BY <1>7, <2>1, <2>2, EmissionTyped DEF EmitError, HMITaskTypeOK
    <2>4. QED
      BY <1>7, <2>3 DEF EmitError, HMITaskTypeOK
  <1>8. CASE SleepGoesOn \/ SleepIsOver
    <2>1. mState' \in HMITaskState
      <3>1. CASE SleepGoesOn
        BY <3>1 DEF SleepGoesOn, HMITaskTypeOK
      <3>2. CASE SleepIsOver
        BY <1>1, <3>2 DEF SleepIsOver, SleepTurn, Switch, AfterSleep
      <3>3. QED
        BY <1>8, <3>1, <3>2
    <2>2. /\ at' = "top"
          /\ UNCHANGED <<mVersion, mLastEmittedRequestId, requestId, asked, emitted>>
      BY <1>8 DEF SleepGoesOn, SleepIsOver, SleepTurn, Switch
    <2>3. QED
      BY <2>1, <2>2 DEF HMITaskTypeOK
  <1>9. QED
    BY <1>2, <1>3, <1>6, <1>7, <1>8 DEF HmiTaskTurn

\* Only the HMI brings request ids, and they are in range.
LEMMA RequestsInRangeAccept ==
    ASSUME ChannelInv, RequestsInRange, NEW c \in Channels, NEW id \in FrameIds, NEW payload,
           id = HMI_MESSAGE_IDENTIFIER => payload \in 0 .. MaxRequestId,
           Accept(c, id, payload), UNCHANGED <<mMessage, hmiRequest, seenRequest>>
    PROVE  RequestsInRange'
  BY DEF Accept, RequestsInRange, ChannelInv, Typed

\* A channel hands over what it has in hand.
LEMMA RequestsInRangeStores ==
    ASSUME ChannelInv, RequestsInRange, NEW c \in Channels, Stores(c)
    PROVE  RequestsInRange'
  <1>1. UNCHANGED <<hmiRequest, seenRequest>>
    BY DEF Stores, envVars
  <1>2. channel[c].step # "idle"
    BY DEF Stores, ChannelStep, At
  <1>3. \A d \in Channels : d # c => channel'[d] = channel[d]
    BY DEF Stores, ChannelStep, At, ChannelInv, Typed
  <1>4. channel'[c].step # "idle" =>
            channel'[c].id = channel[c].id /\ channel'[c].payload = channel[c].payload
    BY DEF Stores, ChannelStep, At, AtRest, ChannelInv, Typed
  <1>5. \/ UNCHANGED mMessage
        \/ mMessage' = [mMessage EXCEPT ![channel[c].id] = channel[c].payload]
    BY DEF Stores, ChannelStep, SetVersion, SetChecksumType, StoreFrame
  <1>6. HMI_MESSAGE_IDENTIFIER \in FrameIds
    BY DEF FrameIds
  <1>7. mMessage'[HMI_MESSAGE_IDENTIFIER] \in 0 .. MaxRequestId \cup {NoFrame}
    BY <1>2, <1>5, <1>6 DEF RequestsInRange, ChannelInv, Typed
  <1>8. QED
    BY <1>1, <1>2, <1>3, <1>4, <1>7 DEF RequestsInRange

LEMMA TypeInvNext == Inv /\ TypeInv /\ [Next]_vars => TypeInv'
  <1>1. SUFFICES ASSUME Inv, TypeInv, [Next]_vars
                 PROVE  TypeInv'
    OBVIOUS
  <1>2. ChannelInv /\ RequestsInRange
    BY <1>1 DEF Inv, TypeInv
  <1>3. ASSUME UNCHANGED <<channel, mMessage, mNotify, notified>>,
               hmiRequest' \in 0 .. MaxRequestId, seenRequest' \in 0 .. MaxRequestId
        PROVE  RequestsInRange' /\ NotificationsTyped'
    BY <1>1, <1>3 DEF TypeInv, RequestsInRange, NotificationsTyped
  <1>4. CASE HmiAsks
    <2>1. hmiRequest' \in 0 .. MaxRequestId
      BY <1>2, <1>4, MitmAssumption, HMITaskAssumption DEF RequestsInRange, HmiAsks, NextRequests
    <2>2. RequestsInRange' /\ NotificationsTyped'
      BY <1>2, <1>3, <1>4, <2>1 DEF HmiAsks, dhwVars, RequestsInRange
    <2>3. BoundsTyped'
      <3>1. giveUps' = giveUps \/ (giveUps > 0 /\ giveUps' = giveUps - 1)
        BY <1>4 DEF HmiAsks
      <3>2. giveUps \in 0 .. MaxGiveUps
        BY <1>1 DEF TypeInv, BoundsTyped
      <3>3. giveUps' \in 0 .. MaxGiveUps
        BY <3>1, <3>2, MitmAssumption
      <3>4. QED
        BY <1>1, <1>4, <3>3 DEF HmiAsks, TypeInv, BoundsTyped
    <2>4. QED
      BY <1>1, <1>4, <2>2, <2>3 DEF HmiAsks, hmiTaskVars, TypeInv, HMITaskTypeOK
  <1>5. CASE HmiAnswers
    <2>1. /\ Accept("HMI", HMI_MESSAGE_IDENTIFIER, hmiRequest)
          /\ UNCHANGED <<mMessage, mNotify, notified, hmiRequest, seenRequest>>
      BY <1>5 DEF HmiAnswers, LoopReadsFrame, LoopTop, dhwVars, envVars
    <2>2. RequestsInRange'
      BY <1>2, <2>1, RequestsInRangeAccept, HMITaskAssumption DEF RequestsInRange, FrameIds
    <2>3. BoundsTyped' /\ NotificationsTyped'
      BY <1>1, <1>5, <2>1 DEF HmiAnswers, envVars, TypeInv, BoundsTyped, NotificationsTyped
    <2>4. HMITaskTypeOK'
      BY <1>1, <1>2, <1>5, ChannelInvTypes
         DEF HmiAnswers, LoopReadsFrame, LoopTop, TypeInv, HMITaskTypeOK
    <2>5. QED
      BY <2>2, <2>3, <2>4 DEF TypeInv
  <1>6. CASE HmiTaskTurn
    <2>1. HMITaskTypeOK'
      BY <1>1, <1>2, <1>6, HMITaskTypedTurn DEF TypeInv
    <2>2. UNCHANGED <<channel, mMessage, mNotify, notified>>
      BY <1>6 DEF HmiTaskTurn, LoopReadsNothing, LoopTop, Request194, Send, SendMessage,
                  SendMessage74, EmitError, SleepGoesOn, SleepIsOver, SleepTurn, Switch, dhwVars
    <2>3. RequestsInRange' /\ NotificationsTyped'
      BY <1>2, <1>3, <1>6, <2>2 DEF HmiTaskTurn, RequestsInRange
    <2>4. BoundsTyped'
      BY <1>1, <1>6 DEF HmiTaskTurn, TypeInv, BoundsTyped
    <2>5. QED
      BY <2>1, <2>3, <2>4 DEF TypeInv
  <1>7. ASSUME NEW id \in FrameIds \ {HMI_MESSAGE_IDENTIFIER}, NEW payload,
               ControllerSends(id, payload), UNCHANGED <<hmiRequest, seenRequest>>,
               BoundsTyped'
        PROVE  TypeInv'
    <2>1. RequestsInRange'
      BY <1>2, <1>7, RequestsInRangeAccept, MitmAssumption DEF ControllerSends, dhwVars
    <2>2. HMITaskTypeOK' /\ NotificationsTyped'
      BY <1>1, <1>7 DEF ControllerSends, dhwVars, hmiTaskVars, TypeInv, HMITaskTypeOK,
                        NotificationsTyped
    <2>3. QED
      BY <1>7, <2>1, <2>2 DEF TypeInv
  <1>8. CASE ControllerSendsStatus
    <2>1. PICK id \in {ENERGY_MESSAGE_IDENTIFIER, MAIN_MESSAGE_IDENTIFIER,
                       EXTRA_MESSAGE_IDENTIFIER} : ControllerSends(id, 0)
      BY <1>8 DEF ControllerSendsStatus
    <2>2. id \in FrameIds \ {HMI_MESSAGE_IDENTIFIER}
      BY DEF FrameIds, HMI_MESSAGE_IDENTIFIER, ENERGY_MESSAGE_IDENTIFIER,
             MAIN_MESSAGE_IDENTIFIER, EXTRA_MESSAGE_IDENTIFIER
    <2>3. UNCHANGED <<hmiRequest, seenRequest>> /\ BoundsTyped'
      BY <1>1, <1>8 DEF ControllerSendsStatus, envVars, TypeInv, BoundsTyped
    <2>4. QED
      BY <1>7, <2>1, <2>2, <2>3
  <1>9. CASE ControllerSendsError
    <2>1. PICK payload : ControllerSends(ERROR_MESSAGE_IDENTIFIER, payload)
      BY <1>9 DEF ControllerSendsError
    <2>2. ERROR_MESSAGE_IDENTIFIER \in FrameIds \ {HMI_MESSAGE_IDENTIFIER}
      BY DEF FrameIds, HMI_MESSAGE_IDENTIFIER, ERROR_MESSAGE_IDENTIFIER
    <2>3. UNCHANGED <<hmiRequest, seenRequest>> /\ BoundsTyped'
      BY <1>1, <1>9 DEF ControllerSendsError, TypeInv, BoundsTyped
    <2>4. QED
      BY <1>7, <2>1, <2>2, <2>3
  <1>10. CASE ControllerRequests
    <2>1. seenRequest' \in 0 .. MaxRequestId
      BY <1>2, <1>10, CopyIsStored DEF ControllerRequests, RequestsInRange, FrameIds
    <2>2. RequestsInRange' /\ NotificationsTyped'
      BY <1>2, <1>3, <1>10, <2>1 DEF ControllerRequests, dhwVars, RequestsInRange
    <2>3. BoundsTyped' /\ HMITaskTypeOK'
      BY <1>1, <1>10 DEF ControllerRequests, hmiTaskVars, TypeInv, BoundsTyped, HMITaskTypeOK
    <2>4. QED
      BY <2>2, <2>3 DEF TypeInv
  <1>11. ASSUME NEW c \in Channels, Stores(c)
         PROVE  TypeInv'
    <2>1. RequestsInRange' /\ NotificationsTyped'
      BY <1>1, <1>2, <1>11, RequestsInRangeStores, NotificationsTypedStep DEF Stores, TypeInv
    <2>2. BoundsTyped' /\ HMITaskTypeOK'
      BY <1>1, <1>11 DEF Stores, envVars, hmiTaskVars, TypeInv, BoundsTyped, HMITaskTypeOK
    <2>3. QED
      BY <2>1, <2>2 DEF TypeInv
  <1>12. CASE Reboot
    <2>1. HMITaskInit'
      BY <1>12 DEF Reboot, HMITaskInit
    <2>2. HMITaskTypeOK'
      BY <2>1, HMITaskInitTyped, PTL
    <2>3. RequestsInRange' /\ NotificationsTyped'
      BY <1>2, <1>12 DEF Reboot, AtRest, RequestsInRange, NotificationsTyped, FrameIds
    <2>4. BoundsTyped'
      BY <1>1, <1>12, MitmAssumption DEF Reboot, TypeInv, BoundsTyped
    <2>5. QED
      BY <2>2, <2>3, <2>4 DEF TypeInv
  <1>13. CASE UNCHANGED vars
    BY <1>1, <1>13 DEF vars, dhwVars, hmiTaskVars, envVars, TypeInv, RequestsInRange,
                       BoundsTyped, NotificationsTyped, HMITaskTypeOK
  <1>14. QED
    BY <1>1, <1>4, <1>5, <1>6, <1>8, <1>9, <1>10, <1>11, <1>12, <1>13 DEF Next

\* Every variable stays in its type: above all, request ids are uint8_t and no
\* slot of the bus cycle leads out of the state machine.
THEOREM MitmTypeCorrect == Spec => []TypeOK
  <1>1. Inv /\ TypeInv => TypeOK
    BY ChannelInvTypes DEF Inv, TypeInv, RequestsInRange, BoundsTyped, NotificationsTyped,
                           DHWTypeOK, TypeOK
  <1>2. QED
    BY <1>1, InvInit, InvNext, TypeInvInit, TypeInvNext, PTL DEF Spec

-----------------------------------------------------------------------------
(* The order of a cycle.  The version may become known in the middle of    *)
(* it; but something but the request was only emitted if it is known to    *)
(* the store, and then the task learns it before it leaves the slot.       *)

\* What can be the last frame emitted in this cycle, when the task is in a state.
Passed ==
    IF line.version = "ODYSSEE"
    THEN [SLEEP_194 |-> {}, SEND_74POST |-> {}, SLEEP_74POST |-> {74},
          SEND_67 |-> {74}, SLEEP_67 |-> {74, 67}, SEND_217 |-> {74, 67},
          SLEEP_217 |-> {74, 67, 217}, SEND_193 |-> {74, 67, 217},
          SLEEP_193 |-> {74, 67, 217, 193}, SEND_74PRE |-> {}, SLEEP_74PRE |-> {74},
          REQUEST_194 |-> {74, 67, 217, 193}]
    ELSE [SLEEP_194 |-> {}, SEND_67 |-> {}, SLEEP_67 |-> {67}, SEND_193 |-> {67},
          SLEEP_193 |-> {67, 193}, SEND_74PRE |-> {67, 193}, SLEEP_74PRE |-> {67, 193, 74},
          REQUEST_194 |-> {67, 193, 74}]

EmittedInSlot ==
    \/ emitted.id \in {0, 194}
    \/ /\ mProtocolVersion = line.version
       /\ at # "top" => mVersion = line.version
       /\ emitted.id \in Passed[mState]

OrderInv ==
    /\ mVersion \in {"UNKNOWN", line.version}
    /\ mState \in DOMAIN Passed
    /\ at = "error" => mState \in {"SLEEP_74PRE", "SLEEP_74POST"} /\ emitted.id # 74
    /\ EmittedInSlot

orderVars == <<line, mProtocolVersion, mVersion, mState, at, emitted>>

LEMMA OrderInvStutter == OrderInv /\ UNCHANGED orderVars => OrderInv'
  BY DEF OrderInv, EmittedInSlot, Passed, orderVars

LEMMA OrderInvInit == Init => OrderInv
  BY DEF Init, HMITaskInit, Emission, OrderInv, EmittedInSlot, Passed

\* The slots of both kinds of cycle.
LEMMA SlotsInOrder ==
    IF line.version = "ODYSSEE"
    THEN /\ \A id \in {74, 67, 217, 193} : Before(194, id)
         /\ \A id \in {67, 217, 193} : Before(74, id)
         /\ \A id \in {217, 193} : Before(67, id)
         /\ Before(217, 193)
    ELSE /\ \A id \in {67, 193, 74} : Before(194, id)
         /\ \A id \in {193, 74} : Before(67, id)
         /\ Before(193, 74)
  <1>1. \A i, j \in DOMAIN Slots : i < j => Before(Slots[i], Slots[j])
    BY DEF Before
  <1>2. CASE line.version = "ODYSSEE"
    <2>1. /\ DOMAIN Slots = 1 .. 5
          /\ Slots[1] = 194 /\ Slots[2] = 74 /\ Slots[3] = 67
          /\ Slots[4] = 217 /\ Slots[5] = 193
      BY <1>2 DEF Slots
    <2>2. QED
      BY <1>1, <1>2, <2>1
  <1>3. CASE line.version # "ODYSSEE"
    <2>1. /\ DOMAIN Slots = 1 .. 4
          /\ Slots[1] = 194 /\ Slots[2] = 67 /\ Slots[3] = 193 /\ Slots[4] = 74
      BY <1>3 DEF Slots
    <2>2. QED
      BY <1>1, <1>3, <2>1
  <1>4. QED
    BY <1>2, <1>3

\* A frame is emitted in the slot where its state belongs.
SendStates == { <<67, "SEND_67">>, <<193, "SEND_193">>, <<217, "SEND_217">> }

LEMMA PassedSend ==
    ASSUME NEW id, NEW state, <<id, state>> \in SendStates, state \in DOMAIN Passed
    PROVE  /\ Sleep[state] \in DOMAIN Passed
           /\ Passed[state] \cup {id} \subseteq Passed[Sleep[state]]
           /\ \A other \in Passed[state] \cup {194} : Before(other, id)
  <1>1. CASE id = 67 /\ state = "SEND_67"
    BY <1>1, SlotsInOrder DEF Passed, Sleep
  <1>2. CASE id = 193 /\ state = "SEND_193"
    BY <1>2, SlotsInOrder DEF Passed, Sleep
  <1>3. CASE id = 217 /\ state = "SEND_217"
    BY <1>3, SlotsInOrder DEF Passed, Sleep
  <1>4. QED
    BY <1>1, <1>2, <1>3 DEF SendStates

LEMMA PassedSend74 ==
    ASSUME NEW state \in {"SEND_74PRE", "SEND_74POST"}, state \in DOMAIN Passed
    PROVE  /\ Sleep[state] \in {"SLEEP_74PRE", "SLEEP_74POST"} \cap DOMAIN Passed
           /\ Passed[state] \subseteq Passed[Sleep[state]] \ {74}
  BY DEF Passed, Sleep

LEMMA PassedError ==
    ASSUME NEW state \in {"SLEEP_74PRE", "SLEEP_74POST"}, state \in DOMAIN Passed
    PROVE  /\ 74 \in Passed[state]
           /\ \A other \in (Passed[state] \ {74}) \cup {194} : Before(other, 74)
  BY SlotsInOrder DEF Passed

\* What copyFrame delivers was stored with the version.
LEMMA CopyKnowsVersion ==
    ASSUME ChannelInv, NEW id, CopyFrame(id).payload # NoFrame
    PROVE  mProtocolVersion = line.version
  BY DEF CopyFrame, ChannelInv, OfLine

LEMMA OrderInvHmiTaskTurn ==
    ASSUME ChannelInv, RequestStands, OrderInv, HmiTaskTurn
    PROVE  /\ OrderInv'
           /\ \/ emitted' = emitted
              \/ emitted.id = 0 \/ emitted'.id \in {0, 194}
              \/ Before(emitted.id, emitted'.id)
  <1>1. UNCHANGED <<line, mProtocolVersion>>
    BY HmiTaskTurnKeepsStore DEF storeVars
  <1>2. CASE LoopReadsNothing
    BY <1>1, <1>2 DEF LoopReadsNothing, LoopTop, ChannelInv, OfLine, OrderInv, EmittedInSlot, Passed
  <1>3. CASE Request194
    <2>1. emitted'.id = 194
      BY <1>3 DEF Request194, Emission, HMI_MESSAGE_IDENTIFIER
    <2>2. mState' = "SLEEP_194" /\ at' = "top" /\ mVersion' = mVersion
      BY <1>3 DEF Request194, Switch
    <2>3. QED
      BY <1>1, <2>1, <2>2 DEF OrderInv, EmittedInSlot, Passed
  <1>4. ASSUME NEW id, NEW state, <<id, state>> \in SendStates, SendMessage(id, state)
        PROVE  /\ OrderInv'
               /\ \/ emitted' = emitted \/ emitted.id = 0
                  \/ Before(emitted.id, emitted'.id)
    <2>1. /\ mState = state /\ mState' = Sleep[state] /\ at = "switch" /\ at' = "top"
          /\ mVersion' = mVersion
      BY <1>4 DEF SendMessage, Switch
    <2>2. /\ mState' \in DOMAIN Passed
          /\ Passed[mState] \cup {id} \subseteq Passed[mState']
          /\ \A other \in Passed[mState] \cup {194} : Before(other, id)
      BY <1>4, <2>1, PassedSend DEF OrderInv
    <2>3. Passed' = Passed
      BY <1>1 DEF Passed
    <2>4. CASE emitted' = emitted
      BY <1>1, <2>1, <2>2, <2>3, <2>4 DEF OrderInv, EmittedInSlot
    <2>5. CASE emitted' # emitted
      <3>1. emitted'.id = id /\ mProtocolVersion = line.version
        BY <1>4, <2>5, CopyKnowsVersion DEF SendMessage, Emission
      <3>2. OrderInv'
        BY <1>1, <2>1, <2>2, <2>3, <3>1 DEF OrderInv, EmittedInSlot
      <3>3. emitted.id = 0 \/ Before(emitted.id, id)
        BY <2>2 DEF OrderInv, EmittedInSlot
      <3>4. QED
        BY <3>1, <3>2, <3>3
    <2>6. QED
      BY <2>4, <2>5
  <1>5. ASSUME NEW state \in {"SEND_74PRE", "SEND_74POST"}, SendMessage74(state)
        PROVE  OrderInv' /\ emitted' = emitted
    <2>1. /\ mState = state /\ mState' = Sleep[state] /\ at = "switch"
          /\ UNCHANGED <<mVersion, emitted>>
      BY <1>5 DEF SendMessage74, Switch
    <2>2. /\ mState' \in {"SLEEP_74PRE", "SLEEP_74POST"} \cap DOMAIN Passed
          /\ Passed[mState] \subseteq Passed[mState'] \ {74}
      BY <2>1, PassedSend74 DEF OrderInv
    <2>3. Passed' = Passed
      BY <1>1 DEF Passed
    <2>4. emitted.id # 74
      BY <2>2 DEF OrderInv, EmittedInSlot
    <2>5. QED
      BY <1>1, <2>1, <2>2, <2>3, <2>4 DEF OrderInv, EmittedInSlot
  <1>6. CASE Send
    <2>1. /\ <<ENERGY_MESSAGE_IDENTIFIER, "SEND_67">> \in SendStates
          /\ <<MAIN_MESSAGE_IDENTIFIER, "SEND_193">> \in SendStates
          /\ <<EXTRA_MESSAGE_IDENTIFIER, "SEND_217">> \in SendStates
      BY DEF SendStates, ENERGY_MESSAGE_IDENTIFIER, MAIN_MESSAGE_IDENTIFIER,
             EXTRA_MESSAGE_IDENTIFIER
    <2>2. QED
      BY <1>4, <1>5, <1>6, <2>1 DEF Send
  <1>7. CASE EmitError
    <2>1. /\ at = "error" /\ at' = "top"
          /\ UNCHANGED <<mState, mVersion>>
      BY <1>7 DEF EmitError
    <2>2. Passed' = Passed
      BY <1>1 DEF Passed
    <2>3. CASE emitted' = emitted
      BY <1>1, <2>1, <2>2, <2>3 DEF OrderInv, EmittedInSlot
    <2>4. CASE emitted' # emitted
      <3>1. emitted'.id = 74
        BY <1>7, <2>4 DEF EmitError, Emission, ERROR_MESSAGE_IDENTIFIER
      <3>2. mProtocolVersion = line.version
        BY <2>1 DEF RequestStands, ChannelInv, StoredKnow, FrameIds
      <3>3. /\ 74 \in Passed[mState]
            /\ \A other \in (Passed[mState] \ {74}) \cup {194} : Before(other, 74)
        BY <2>1, PassedError DEF OrderInv
      <3>4. OrderInv'
        BY <1>1, <2>1, <2>2, <3>1, <3>2, <3>3 DEF OrderInv, EmittedInSlot
      <3>5. emitted.id = 0 \/ Before(emitted.id, 74)
        BY <2>1, <3>3 DEF OrderInv, EmittedInSlot
      <3>6. QED
        BY <3>1, <3>4, <3>5
    <2>5. QED
      BY <2>3, <2>4
  <1>8. CASE SleepGoesOn \/ SleepIsOver
    <2>1. at = "switch" /\ at' = "top" /\ UNCHANGED <<mVersion, emitted>>
      BY <1>8 DEF SleepGoesOn, SleepIsOver, SleepTurn, Switch
    <2>2. Passed' = Passed
      BY <1>1 DEF Passed
    <2>3. \/ mState' = mState
          \/ mState' = AfterSleep[mState] /\ mState \in DOMAIN AfterSleep
      BY <1>8 DEF SleepGoesOn, SleepIsOver, SleepTurn, Switch
    <2>4. CASE mState' = mState
      BY <1>1, <2>1, <2>2, <2>4 DEF OrderInv, EmittedInSlot
    <2>5. CASE mState' = AfterSleep[mState] /\ mState \in DOMAIN AfterSleep
      <3>1. /\ mState' \in DOMAIN Passed
            /\ mVersion = line.version => Passed[mState] \subseteq Passed[mState']
        <4>1. mVersion = "ODYSSEE" => line.version = "ODYSSEE"
          BY DEF OrderInv
        <4>2. mState \in {"SLEEP_194", "SLEEP_67", "SLEEP_74POST", "SLEEP_193", "SLEEP_217",
                          "SLEEP_74PRE"} \cap DOMAIN Passed
          BY <2>5 DEF AfterSleep, OrderInv
        <4>3. QED
          BY <2>5, <4>1, <4>2 DEF AfterSleep, Passed
      <3>2. QED
        BY <1>1, <2>1, <2>2, <3>1 DEF OrderInv, EmittedInSlot
    <2>6. QED
      BY <2>1, <2>3, <2>4, <2>5
  <1>9. QED
    BY <1>2, <1>3, <1>6, <1>7, <1>8 DEF HmiTaskTurn, LoopReadsNothing, LoopTop, Request194,
       Emission, HMI_MESSAGE_IDENTIFIER

LEMMA OrderInvNext == Inv /\ ErrorInv /\ OrderInv /\ [Next]_vars => OrderInv'
  <1>1. SUFFICES ASSUME Inv, ErrorInv, OrderInv, [Next]_vars
                 PROVE  OrderInv'
    OBVIOUS
  <1>2. CASE HmiAsks \/ ControllerRequests
    BY <1>1, <1>2, OrderInvStutter DEF HmiAsks, ControllerRequests, dhwVars, hmiTaskVars, orderVars
  <1>3. CASE HmiAnswers
    <2>1. /\ mVersion' = IF mVersion = "UNKNOWN" THEN mProtocolVersion ELSE mVersion
          /\ at' = "switch" /\ UNCHANGED <<line, mProtocolVersion, mState, emitted>>
      BY <1>3 DEF HmiAnswers, LoopReadsFrame, LoopTop, dhwVars
    <2>2. QED
      BY <1>1, <2>1 DEF Inv, ChannelInv, OfLine, OrderInv, EmittedInSlot, Passed
  <1>4. CASE HmiTaskTurn
    BY <1>1, <1>4, OrderInvHmiTaskTurn DEF Inv, ErrorInv
  <1>5. CASE ControllerSendsStatus \/ ControllerSendsError
    BY <1>1, <1>5, OrderInvStutter
       DEF ControllerSendsStatus, ControllerSendsError, ControllerSends, dhwVars, hmiTaskVars,
           orderVars
  <1>6. CASE \E c \in Channels : Stores(c)
    <2>1. mProtocolVersion' \in {mProtocolVersion, line.version}
      BY <1>6 DEF Stores, ChannelStep, SetVersion, SetChecksumType, StoreFrame
    <2>2. UNCHANGED <<line, mVersion, mState, at, emitted>>
      BY <1>6 DEF Stores, ChannelStep, hmiTaskVars
    <2>3. QED
      BY <1>1, <2>1, <2>2 DEF OrderInv, EmittedInSlot, Passed
  <1>7. CASE Reboot
    BY <1>7 DEF Reboot, Emission, OrderInv, EmittedInSlot, Passed
  <1>8. CASE UNCHANGED vars
    BY <1>1, <1>8, OrderInvStutter DEF vars, dhwVars, hmiTaskVars, orderVars
  <1>9. QED
    BY <1>1, <1>2, <1>3, <1>4, <1>5, <1>6, <1>7, <1>8 DEF Next

\* Between two requests the HMI sees the frames in the order of its protocol,
\* each at most once, also when the version becomes known within the cycle.
THEOREM MitmCycleOrder == Spec => CycleOrder
  <1>1. Inv /\ ErrorInv /\ OrderInv /\ [Next]_vars
            => [emitted' # emitted /\ emitted.id # 0
                    /\ emitted'.id \notin {0, HMI_MESSAGE_IDENTIFIER}
                  => Before(emitted.id, emitted'.id)]_vars
    <2>1. SUFFICES ASSUME Inv, ErrorInv, OrderInv, [Next]_vars, emitted' # emitted,
                          emitted.id # 0, emitted'.id \notin {0, HMI_MESSAGE_IDENTIFIER}
                   PROVE  Before(emitted.id, emitted'.id)
      OBVIOUS
    <2>2. CASE HmiTaskTurn
      BY <2>1, <2>2, OrderInvHmiTaskTurn DEF Inv, ErrorInv, HMI_MESSAGE_IDENTIFIER
    <2>3. CASE Reboot
      BY <2>1, <2>3 DEF Reboot, Emission
    <2>4. CASE HmiAnswers
      BY <2>1, <2>4 DEF HmiAnswers, LoopReadsFrame, LoopTop
    <2>5. CASE ControllerSendsStatus \/ ControllerSendsError
      BY <2>1, <2>5 DEF ControllerSendsStatus, ControllerSendsError, ControllerSends, hmiTaskVars
    <2>6. CASE HmiAsks \/ ControllerRequests \/ \E c \in Channels : Stores(c)
      BY <2>1, <2>6 DEF HmiAsks, ControllerRequests, Stores, hmiTaskVars
    <2>7. CASE UNCHANGED vars
      BY <2>1, <2>7 DEF vars, hmiTaskVars
    <2>8. QED
      BY <2>1, <2>2, <2>3, <2>4, <2>5, <2>6, <2>7 DEF Next
  <1>2. QED
    BY <1>1, InvInit, InvNext, ErrorInvInit, ErrorInvNext, OrderInvInit, OrderInvNext, PTL
       DEF Spec, CycleOrder

-----------------------------------------------------------------------------
(* An error is emitted once.  An id may be anywhere between HMI, store and *)
(* controller when the HMI turns to it: what keeps a late answer to an     *)
(* earlier use of the id away is that the HMI does not get round all ids   *)
(* before it has an answer.                                                *)

\* Where request ids are besides hmiRequest and seenRequest: with the HMI's frame
\* and in the store; and on the way back.
HmiBrings == IF Idle("HMI") THEN NoFrame ELSE channel["HMI"].payload

Asked == mMessage[HMI_MESSAGE_IDENTIFIER]

MainBrings == IF ~Idle("MAIN") /\ channel["MAIN"].id = ERROR_MESSAGE_IDENTIFIER
              THEN channel["MAIN"].payload ELSE NoFrame

Answer == mMessage[ERROR_MESSAGE_IDENTIFIER]

\* How many ids further on an id comes next.
Ahead(id) == IF id > hmiRequest THEN id - hmiRequest ELSE id + MaxRequestId - hmiRequest

\* How far the HMI can count before it gets the answer to a request.
Budget == IF hmiGot \/ hmiRequest = 0 THEN giveUps + 1 ELSE giveUps

\* The ids the HMI can turn to before it gets an answer to another.
Fresh == {id \in 1 .. MaxRequestId : Ahead(id) <= Budget}

\* The controller has seen the id, and owes nothing for it.
Settled(id) == seenRequest = id /\ ~owes

\* No other id is asked for, stored or on its way.
Only(id) == Asked \in {id, NoFrame} /\ HmiBrings \in {id, NoFrame}

\* An earlier use of a fresh id is over: no answer to it will come any more, and
\* the one in the store was emitted.
FreshInv ==
    /\ HmiBrings \in Fresh => Asked \in {HmiBrings, NoFrame} /\ Settled(HmiBrings)
    /\ Asked \in Fresh => Settled(Asked)
    /\ seenRequest \in Fresh => ~owes
    /\ MainBrings \notin Fresh
    /\ Answer \in Fresh => mLastEmittedRequestId = Answer

\* The last answer to the request at hand is in the store, and no other follows.
Answered == /\ Settled(hmiRequest)
            /\ Only(hmiRequest)
            /\ MainBrings \in {0, NoFrame}

\* The request at hand, on its way: each party that has it has let go of the ids
\* before, and so none of those comes in again and makes it look new.
RequestInv ==
    hmiRequest # 0 =>
        /\ Asked = hmiRequest /\ ~Settled(hmiRequest) => HmiBrings \in {hmiRequest, NoFrame}
        /\ owes /\ seenRequest = hmiRequest => Only(hmiRequest)
        /\ MainBrings = hmiRequest => Settled(hmiRequest) /\ Only(hmiRequest)
        /\ Answer = hmiRequest /\ mLastEmittedRequestId # hmiRequest => Answered
        /\ hmiGot => Answered /\ (Answer = hmiRequest => mLastEmittedRequestId = hmiRequest)

\* HMI and controller have a channel each, and at the copy of the error message
\* the request was not emitted.
Routes ==
    /\ \A c \in Channels \ {"HMI", "MAIN"} : Idle(c)
    /\ ~Idle("HMI") => channel["HMI"].id = HMI_MESSAGE_IDENTIFIER
    /\ at = "error" => requestId # mLastEmittedRequestId

OnceInv == Routes /\ FreshInv /\ RequestInv

\* The types this part needs.
OnceTyped ==
    /\ hmiRequest \in 0 .. MaxRequestId /\ seenRequest \in 0 .. MaxRequestId
    /\ HmiBrings \in 0 .. MaxRequestId \cup {NoFrame}
    /\ Asked \in 0 .. MaxRequestId \cup {NoFrame}
    /\ Answer \in Payload \cup {NoFrame}
    /\ giveUps \in 0 .. MaxGiveUps
    /\ hmiGot \in BOOLEAN /\ owes \in BOOLEAN
    /\ NoFrame \notin 0 .. MaxRequestId

\* It follows from the types of the model.
LEMMA OnceTypedHolds ==
    ASSUME Inv, TypeInv, Routes
    PROVE  OnceTyped
  <1>1. NoFrame \notin 0 .. MaxRequestId
    BY DHWStateAssumption, MitmAssumption
  <1>2. HmiBrings \in 0 .. MaxRequestId \cup {NoFrame}
    BY HMITaskAssumption DEF HmiBrings, Idle, TypeInv, RequestsInRange, Routes
  <1>3. Answer \in Payload \cup {NoFrame}
    BY DEF Inv, ChannelInv, Typed, Answer, FrameIds
  <1>4. QED
    BY <1>1, <1>2, <1>3 DEF OnceTyped, TypeInv, RequestsInRange, BoundsTyped, Asked

\* A fresh id is a request, and the one at hand only if it was answered.
LEMMA FreshIds ==
    ASSUME MaxGiveUps < MaxRequestId, OnceTyped
    PROVE  /\ 0 \notin Fresh /\ NoFrame \notin Fresh
           /\ hmiRequest \in Fresh => hmiGot
  <1>1. 0 \notin Fresh /\ NoFrame \notin Fresh
    BY MitmAssumption, HMITaskAssumption DEF OnceTyped, Fresh
  <1>2. ASSUME hmiRequest \in Fresh, ~hmiGot
        PROVE  FALSE
    <2>1. Budget = giveUps
      BY <1>1, <1>2 DEF Budget
    <2>2. Ahead(hmiRequest) = MaxRequestId
      BY MitmAssumption, HMITaskAssumption DEF Ahead, OnceTyped
    <2>3. Ahead(hmiRequest) <= Budget
      BY <1>2 DEF Fresh
    <2>4. QED
      BY <2>1, <2>2, <2>3, MitmAssumption, HMITaskAssumption DEF OnceTyped
  <1>3. QED
    BY <1>1, <1>2

\* The HMI turns to a fresh id, which is none from then on.
LEMMA FreshAsks ==
    ASSUME MaxGiveUps < MaxRequestId, OnceTyped, HmiAsks
    PROVE  /\ Fresh' \subseteq Fresh
           /\ hmiRequest' # 0 => hmiRequest' \in Fresh /\ hmiRequest' \notin Fresh'
  <1>1. /\ MaxRequestId \in Nat \ {0} /\ MaxGiveUps \in Nat
        /\ hmiRequest \in 0 .. MaxRequestId /\ giveUps \in 0 .. MaxGiveUps
    BY MitmAssumption, HMITaskAssumption DEF OnceTyped
  <1>2. CASE hmiRequest = MaxRequestId /\ hmiRequest' = 0
    <2>1. \A id \in 1 .. MaxRequestId : Ahead(id)' = id /\ Ahead(id) = id
      BY <1>1, <1>2 DEF Ahead
    <2>2. Budget' = Budget
      <3>1. Budget' = giveUps' + 1
        BY <1>2 DEF Budget
      <3>2. CASE hmiGot
        BY <3>1, <3>2 DEF HmiAsks, Budget
      <3>3. CASE ~hmiGot
        BY <1>1, <1>2, <3>1, <3>3 DEF HmiAsks, Budget
      <3>4. QED
        BY <3>2, <3>3
    <2>3. QED
      BY <1>2, <2>1, <2>2 DEF Fresh
  <1>3. CASE /\ hmiRequest' \in 1 .. MaxRequestId
             /\ \/ hmiRequest' = hmiRequest + 1
                \/ hmiRequest = MaxRequestId /\ hmiRequest' = 1
    <2>1. /\ Ahead(hmiRequest') = 1
          /\ \A id \in 1 .. MaxRequestId :
                /\ id # hmiRequest' => Ahead(id)' = Ahead(id) - 1
                /\ id = hmiRequest' => Ahead(id)' = MaxRequestId
      <3>1. \A id : Ahead(id)' = IF id > hmiRequest' THEN id - hmiRequest'
                                ELSE id + MaxRequestId - hmiRequest'
        BY DEF Ahead
      <3>2. hmiRequest' # hmiRequest
        BY DEF HmiAsks
      <3>3. CASE hmiRequest' = hmiRequest + 1
        BY <1>1, <1>3, <3>1, <3>3 DEF Ahead
      <3>4. CASE hmiRequest = MaxRequestId /\ hmiRequest' = 1
        BY <1>1, <1>3, <3>1, <3>2, <3>4 DEF Ahead
      <3>5. QED
        BY <1>3, <3>3, <3>4
    <2>2. giveUps' \in 0 .. MaxGiveUps /\ Budget' = giveUps'
      <3>1. ~hmiGot' /\ hmiRequest' # 0
        BY <1>1, <1>3 DEF HmiAsks
      <3>2. giveUps' \in 0 .. MaxGiveUps
        BY <1>1 DEF HmiAsks
      <3>3. QED
        BY <3>1, <3>2 DEF Budget
    <2>3. Budget' <= Budget - 1 /\ 1 <= Budget
      <3>1. CASE hmiGot
        BY <1>1, <2>2, <3>1 DEF HmiAsks, Budget
      <3>2. CASE ~hmiGot
        BY <1>1, <2>2, <3>2 DEF HmiAsks, Budget
      <3>3. QED
        BY <3>1, <3>2
    <2>4. \A id \in 1 .. MaxRequestId : Ahead(id) \in Nat
      BY <1>1 DEF Ahead
    <2>5. Budget \in Nat /\ Budget' \in Nat
      <3>1. Budget \in {giveUps, giveUps + 1}
        BY DEF Budget
      <3>2. QED
        BY <1>1, <2>2, <3>1
    <2>6. Fresh' \subseteq Fresh /\ hmiRequest' \notin Fresh'
      <3>1. ASSUME NEW id \in 1 .. MaxRequestId, Ahead(id)' <= Budget'
            PROVE  Ahead(id) <= Budget /\ id # hmiRequest'
        <4>1. id # hmiRequest'
          BY <1>1, <2>1, <2>2, <3>1
        <4>2. Ahead(id)' = Ahead(id) - 1
          BY <2>1, <4>1
        <4>3. QED
          BY <2>3, <2>4, <2>5, <3>1, <4>1, <4>2
      <3>2. QED
        BY <1>1, <3>1 DEF Fresh
    <2>7. hmiRequest' \in Fresh
      BY <1>3, <2>1, <2>3 DEF Fresh
    <2>8. QED
      BY <2>6, <2>7
  <1>4. QED
    BY <1>1, <1>2, <1>3 DEF HmiAsks, NextRequests

\* What OnceInv is about, besides Routes.
onceVars == <<HmiBrings, Asked, MainBrings, Answer, seenRequest, owes, hmiRequest, hmiGot,
              giveUps, mLastEmittedRequestId>>

requestVars == <<hmiRequest, hmiGot, giveUps>>

\* The fresh ids depend on the HMI alone.
LEMMA FreshStays == UNCHANGED requestVars => Fresh' = Fresh
  BY DEF requestVars, Fresh, Ahead, Budget

\* Nothing happened to any id.
LEMMA OnceStutter ==
    ASSUME FreshInv, RequestInv, UNCHANGED onceVars
    PROVE  FreshInv' /\ RequestInv'
  <1>1. Fresh' = Fresh
    BY FreshStays DEF onceVars, requestVars
  <1>2. UNCHANGED <<HmiBrings, Asked, MainBrings, Answer, seenRequest, owes, hmiRequest, hmiGot,
                    mLastEmittedRequestId>>
    BY DEF onceVars
  <1>3. QED
    BY <1>1, <1>2 DEF FreshInv, RequestInv, Settled, Only, Answered

\* The HMI turns to another error.  Nothing of an earlier use of its id is left.
LEMMA OnceAsks ==
    ASSUME MaxGiveUps < MaxRequestId, OnceTyped, FreshInv, RequestInv, HmiAsks,
           UNCHANGED <<HmiBrings, Asked, MainBrings, Answer, mLastEmittedRequestId>>
    PROVE  FreshInv' /\ RequestInv'
  <1>1. /\ Fresh' \subseteq Fresh
        /\ hmiRequest' # 0 => hmiRequest' \in Fresh
        /\ ~hmiGot' /\ UNCHANGED <<seenRequest, owes>>
    BY FreshAsks DEF HmiAsks
  <1>2. FreshInv'
    BY <1>1 DEF FreshInv, Settled
  <1>3. ASSUME hmiRequest' # 0
        PROVE  /\ Asked' = hmiRequest' => seenRequest' = hmiRequest' /\ ~owes'
               /\ ~(owes' /\ seenRequest' = hmiRequest')
               /\ MainBrings' # hmiRequest'
               /\ Answer' = hmiRequest' => mLastEmittedRequestId' = hmiRequest'
    BY <1>1, <1>3 DEF FreshInv, Settled
  <1>4. RequestInv'
    BY <1>1, <1>3 DEF RequestInv, Settled
  <1>5. QED
    BY <1>2, <1>4

\* The HMI's frame comes in.
LEMMA OnceAnswers ==
    ASSUME MaxGiveUps < MaxRequestId, OnceTyped, FreshInv, RequestInv,
           HmiBrings = NoFrame, HmiBrings' = hmiRequest,
           UNCHANGED <<Asked, MainBrings, Answer, seenRequest, owes, mLastEmittedRequestId>>,
           UNCHANGED requestVars
    PROVE  FreshInv' /\ RequestInv'
  <1>1. Fresh' = Fresh /\ UNCHANGED <<hmiRequest, hmiGot>>
    BY FreshStays DEF requestVars
  <1>2. hmiRequest \in Fresh => hmiRequest # 0 /\ Settled(hmiRequest) /\ Asked \in {hmiRequest, NoFrame}
    BY FreshIds DEF RequestInv, Answered, Only
  <1>3. FreshInv'
    BY <1>1, <1>2 DEF FreshInv, Settled
  <1>4. RequestInv'
    BY <1>1 DEF RequestInv, Answered, Settled, Only
  <1>5. QED
    BY <1>3, <1>4

\* The HMI's frame is stored.
LEMMA OnceHmiStores ==
    ASSUME MaxGiveUps < MaxRequestId, OnceTyped, FreshInv, RequestInv,
           HmiBrings # NoFrame, HmiBrings' = NoFrame, Asked' = HmiBrings,
           UNCHANGED <<MainBrings, Answer, seenRequest, owes, mLastEmittedRequestId>>,
           UNCHANGED requestVars
    PROVE  FreshInv' /\ RequestInv'
  <1>1. Fresh' = Fresh /\ UNCHANGED <<hmiRequest, hmiGot>> /\ NoFrame \notin Fresh
    BY FreshStays, FreshIds DEF requestVars
  <1>2. FreshInv'
    BY <1>1 DEF FreshInv, Settled
  <1>3. RequestInv'
    BY <1>1 DEF RequestInv, Answered, Settled, Only
  <1>4. QED
    BY <1>2, <1>3

\* An error frame is stored.
LEMMA OnceMainStores ==
    ASSUME MaxGiveUps < MaxRequestId, OnceTyped, FreshInv, RequestInv,
           MainBrings # NoFrame, MainBrings' = NoFrame, Answer' = MainBrings,
           UNCHANGED <<HmiBrings, Asked, seenRequest, owes, mLastEmittedRequestId>>,
           UNCHANGED requestVars
    PROVE  FreshInv' /\ RequestInv'
  <1>1. Fresh' = Fresh /\ UNCHANGED <<hmiRequest, hmiGot>> /\ NoFrame \notin Fresh
    BY FreshStays, FreshIds DEF requestVars
  <1>2. FreshInv'
    BY <1>1 DEF FreshInv, Settled
  <1>3. ASSUME hmiRequest # 0
        PROVE  RequestInv'
    <2>1. /\ Settled(hmiRequest)' <=> Settled(hmiRequest)
          /\ Only(hmiRequest)' <=> Only(hmiRequest)
          /\ Settled(hmiRequest) /\ Only(hmiRequest) => Answered'
      BY <1>1 DEF Settled, Only, Answered
    <2>2. CASE MainBrings = hmiRequest
      BY <1>1, <1>3, <2>1, <2>2 DEF RequestInv, Answered
    <2>3. CASE MainBrings # hmiRequest
      BY <1>1, <1>3, <2>1, <2>3 DEF RequestInv, Answered, OnceTyped
    <2>4. QED
      BY <2>2, <2>3
  <1>4. RequestInv'
    BY <1>1, <1>3 DEF RequestInv
  <1>5. QED
    BY <1>2, <1>4

\* The controller sends the error frame it owes.
LEMMA OnceControllerSendsError ==
    ASSUME MaxGiveUps < MaxRequestId, OnceTyped, FreshInv, RequestInv,
           owes, ~owes', MainBrings' \in {seenRequest, 0},
           UNCHANGED <<HmiBrings, Asked, Answer, seenRequest, mLastEmittedRequestId>>,
           UNCHANGED requestVars
    PROVE  FreshInv' /\ RequestInv'
  <1>1. /\ Fresh' = Fresh /\ UNCHANGED <<hmiRequest, hmiGot>>
        /\ NoFrame \notin Fresh /\ 0 \notin Fresh
    BY FreshStays, FreshIds DEF requestVars
  <1>2. FreshInv'
    BY <1>1 DEF FreshInv, Settled
  <1>3. RequestInv'
    <2>1. SUFFICES ASSUME hmiRequest # 0
                   PROVE  RequestInv'
      BY <1>1 DEF RequestInv
    <2>2. ~hmiGot /\ ~(Answer = hmiRequest /\ mLastEmittedRequestId # hmiRequest)
      BY <2>1 DEF RequestInv, Answered, Settled
    <2>3. Asked = hmiRequest /\ seenRequest # hmiRequest => HmiBrings \in {hmiRequest, NoFrame}
      BY <2>1 DEF RequestInv, Settled
    <2>4. MainBrings' = hmiRequest => seenRequest = hmiRequest /\ Only(hmiRequest)
      BY <2>1 DEF RequestInv
    <2>5. QED
      BY <1>1, <2>2, <2>3, <2>4 DEF RequestInv, Settled, Only
  <1>4. QED
    BY <1>2, <1>3

\* The HMI's frame is passed on to the controller.
LEMMA OnceControllerRequests ==
    ASSUME MaxGiveUps < MaxRequestId, OnceTyped, FreshInv, RequestInv,
           Asked # NoFrame, seenRequest' = Asked, owes' = (owes \/ Asked # seenRequest),
           UNCHANGED <<HmiBrings, Asked, MainBrings, Answer, mLastEmittedRequestId>>,
           UNCHANGED requestVars
    PROVE  FreshInv' /\ RequestInv'
  <1>1. Fresh' = Fresh /\ UNCHANGED <<hmiRequest, hmiGot>> /\ NoFrame \notin Fresh
    BY FreshStays, FreshIds DEF requestVars
  <1>2. \A id : Settled(id) /\ Asked \in {id, NoFrame} => Settled(id)'
    BY DEF Settled
  <1>3. FreshInv'
    BY <1>1, <1>2 DEF FreshInv, Settled
  <1>4. RequestInv'
    <2>1. SUFFICES ASSUME hmiRequest # 0
                   PROVE  RequestInv'
      BY <1>1 DEF RequestInv
    <2>2. Only(hmiRequest)' <=> Only(hmiRequest)
      BY <1>1 DEF Only
    <2>3. Answered => Answered'
      BY <1>1, <1>2, <2>2 DEF Answered, Only
    <2>4. Asked = hmiRequest /\ ~Settled(hmiRequest)' => HmiBrings \in {hmiRequest, NoFrame}
      BY <1>1, <1>2, <2>1 DEF RequestInv
    <2>5. owes' /\ seenRequest' = hmiRequest => Only(hmiRequest)
      <3>1. SUFFICES ASSUME owes', Asked = hmiRequest
                     PROVE  Only(hmiRequest)
        OBVIOUS
      <3>2. ~Settled(hmiRequest)
        BY <3>1 DEF Settled
      <3>3. QED
        BY <2>1, <3>1, <3>2 DEF RequestInv, Only
    <2>6. MainBrings = hmiRequest => Settled(hmiRequest)' /\ Only(hmiRequest)
      BY <1>1, <1>2, <2>1 DEF RequestInv, Only
    <2>7. QED
      BY <1>1, <2>1, <2>2, <2>3, <2>4, <2>5, <2>6 DEF RequestInv, Settled
  <1>5. QED
    BY <1>3, <1>4

\* An error frame is emitted, and is the one the HMI waits for, or not.
LEMMA OnceEmits ==
    ASSUME MaxGiveUps < MaxRequestId, OnceTyped, FreshInv, RequestInv,
           Answer # NoFrame, mLastEmittedRequestId # Answer, mLastEmittedRequestId' = Answer,
           \/ hmiGot' = hmiGot
           \/ Answer = hmiRequest /\ hmiGot',
           UNCHANGED <<HmiBrings, Asked, MainBrings, Answer, seenRequest, owes>>,
           UNCHANGED <<hmiRequest, giveUps>>
    PROVE  /\ FreshInv' /\ RequestInv'
           /\ Answer = hmiRequest /\ hmiRequest # 0 => ~hmiGot
  <1>1. NoFrame \notin Fresh /\ 0 \notin Fresh
    BY FreshIds
  <1>2. Answer = hmiRequest /\ hmiRequest # 0 => Answered /\ ~hmiGot
    BY DEF RequestInv
  <1>3. RequestInv'
    <2>1. SUFFICES ASSUME hmiRequest # 0
                   PROVE  RequestInv'
      BY DEF RequestInv
    <2>2. \/ hmiGot' = hmiGot
          \/ Answered
      BY <1>2, <2>1
    <2>3. QED
      BY <2>2 DEF RequestInv, Answered, Settled, Only
  <1>4. FreshInv'
    <2>1. CASE hmiGot' = hmiGot \/ hmiRequest = 0
      <3>1. Fresh' = Fresh
        BY <2>1 DEF Fresh, Ahead, Budget
      <3>2. QED
        BY <3>1 DEF FreshInv, Settled
    <2>2. CASE hmiRequest # 0 /\ Answer = hmiRequest
      <3>1. 0 \notin Fresh' /\ NoFrame \notin Fresh'
        BY MitmAssumption, HMITaskAssumption DEF OnceTyped, Fresh
      <3>2. QED
        BY <1>2, <2>2, <3>1 DEF FreshInv, Answered, Settled, Only
    <2>3. QED
      BY <2>1, <2>2
  <1>5. QED
    BY <1>2, <1>3, <1>4

\* Without an error frame in the store, what was emitted last does not matter.
LEMMA OnceEmitsNothing ==
    ASSUME MaxGiveUps < MaxRequestId, OnceTyped, FreshInv, RequestInv, Answer = NoFrame,
           UNCHANGED <<HmiBrings, Asked, MainBrings, Answer, seenRequest, owes>>,
           UNCHANGED requestVars
    PROVE  FreshInv' /\ RequestInv'
  <1>1. /\ Fresh' = Fresh /\ UNCHANGED <<hmiRequest, hmiGot>>
        /\ NoFrame \notin Fresh /\ hmiRequest # NoFrame
    BY FreshStays, FreshIds DEF requestVars, OnceTyped
  <1>2. QED
    BY <1>1 DEF FreshInv, RequestInv, Settled, Only, Answered

\* A restart of AquaMQTT: only HMI and controller know the request.
LEMMA OnceForgets ==
    ASSUME MaxGiveUps < MaxRequestId, OnceTyped, FreshInv, RequestInv,
           HmiBrings' = NoFrame, Asked' = NoFrame, MainBrings' = NoFrame, Answer' = NoFrame,
           UNCHANGED <<seenRequest, owes>>, UNCHANGED requestVars
    PROVE  FreshInv' /\ RequestInv'
  <1>1. /\ Fresh' = Fresh /\ UNCHANGED <<hmiRequest, hmiGot>>
        /\ NoFrame \notin Fresh /\ hmiRequest # NoFrame
    BY FreshStays, FreshIds DEF requestVars, OnceTyped
  <1>2. FreshInv'
    BY <1>1 DEF FreshInv, Settled
  <1>3. RequestInv'
    BY <1>1 DEF RequestInv, Settled, Only, Answered
  <1>4. QED
    BY <1>2, <1>3

\* Nothing is on its way at the start, and the request was answered.
LEMMA OnceInit == Init => OnceInv
  <1>1. SUFFICES ASSUME Init
                 PROVE  OnceInv
    OBVIOUS
  <1>2. \A c \in Channels : channel[c].step = "idle"
    BY <1>1 DEF Init, ChannelInit, AtRest
  <1>3. HmiBrings = NoFrame /\ MainBrings = NoFrame
    BY <1>2, HMITaskAssumption, MitmAssumption DEF HmiBrings, MainBrings, Idle
  <1>4. Asked = NoFrame /\ Answer = NoFrame
    BY <1>1 DEF Init, DHWInit, Asked, Answer, FrameIds
  <1>5. /\ seenRequest = hmiRequest /\ ~owes /\ hmiRequest \in 0 .. MaxRequestId
        /\ at = "top"
    BY <1>1 DEF Init, HMITaskInit
  <1>6. NoFrame \notin Fresh /\ NoFrame # hmiRequest
    BY <1>5, DHWStateAssumption, MitmAssumption DEF Fresh
  <1>7. Routes
    BY <1>2, <1>5, HMITaskAssumption DEF Routes, Idle
  <1>8. FreshInv /\ RequestInv
    BY <1>3, <1>4, <1>5, <1>6 DEF FreshInv, RequestInv, Settled, Only, Answered
  <1>9. QED
    BY <1>7, <1>8 DEF OnceInv

\* Channels and store make the ids on their way.
LEMMA ViewsStay ==
    ASSUME UNCHANGED <<channel, mMessage>>
    PROVE  UNCHANGED <<HmiBrings, Asked, MainBrings, Answer>>
  BY DEF HmiBrings, Asked, MainBrings, Answer, Idle

\* The controller's channel takes a frame.
LEMMA MainTakes ==
    ASSUME ChannelInv, Routes, NEW id, id # HMI_MESSAGE_IDENTIFIER, NEW payload,
           ControllerSends(id, payload)
    PROVE  /\ Routes'
           /\ UNCHANGED <<HmiBrings, Asked, Answer, mLastEmittedRequestId>>
           /\ MainBrings = NoFrame
           /\ MainBrings' = IF id = ERROR_MESSAGE_IDENTIFIER THEN payload ELSE NoFrame
  <1>1. /\ Idle("MAIN")
        /\ channel' = [channel EXCEPT !["MAIN"] =
              [locked |-> TRUE, step |-> IF @.locked THEN "store" ELSE "version",
               id |-> id, payload |-> payload]]
        /\ UNCHANGED <<mMessage, at, requestId, mLastEmittedRequestId>>
    BY DEF ControllerSends, Accept, dhwVars, hmiTaskVars
  <1>2. \A c \in Channels \ {"MAIN"} : channel'[c] = channel[c]
    BY <1>1 DEF ChannelInv, Typed
  <1>3. /\ channel'["MAIN"].step # "idle"
        /\ channel'["MAIN"].id = id /\ channel'["MAIN"].payload = payload
    BY <1>1, MitmAssumption DEF ChannelInv, Typed
  <1>4. channel'["HMI"] = channel["HMI"]
    BY <1>2, HMITaskAssumption
  <1>5. Routes'
    BY <1>1, <1>2, <1>4 DEF Routes, Idle
  <1>6. UNCHANGED <<HmiBrings, Asked, Answer>>
    BY <1>1, <1>4 DEF HmiBrings, Asked, Answer, Idle
  <1>7. QED
    BY <1>1, <1>3, <1>5, <1>6 DEF MainBrings, Idle

\* What a channel does to the ids on their way when it stores, and before.
LEMMA ChannelViews ==
    ASSUME ChannelInv, OnlyHmiBringsRequests, Routes, NEW c \in Channels, Stores(c)
    PROVE  /\ Routes'
           /\ \/ UNCHANGED <<HmiBrings, Asked, MainBrings, Answer>>
              \/ /\ HmiBrings # NoFrame /\ HmiBrings' = NoFrame /\ Asked' = HmiBrings
                 /\ UNCHANGED <<MainBrings, Answer>>
              \/ /\ MainBrings # NoFrame /\ MainBrings' = NoFrame /\ Answer' = MainBrings
                 /\ UNCHANGED <<HmiBrings, Asked>>
  <1>0. /\ HMI_MESSAGE_IDENTIFIER \in FrameIds /\ ERROR_MESSAGE_IDENTIFIER \in FrameIds
        /\ HMI_MESSAGE_IDENTIFIER # ERROR_MESSAGE_IDENTIFIER
    BY DEF FrameIds, HMI_MESSAGE_IDENTIFIER, ERROR_MESSAGE_IDENTIFIER
  <1>1. /\ UNCHANGED <<at, requestId, mLastEmittedRequestId>>
        /\ channel[c].step # "idle"
    BY DEF Stores, hmiTaskVars, ChannelStep, At
  <1>2. c \in {"HMI", "MAIN"} /\ (c = "HMI" => channel[c].id = HMI_MESSAGE_IDENTIFIER)
    BY <1>1 DEF Routes, Idle
  <1>3. \A d \in Channels : d # c => channel'[d] = channel[d]
    BY DEF Stores, ChannelStep, At, ChannelInv, Typed
  <1>4. "HMI" \in Channels /\ "MAIN" \in Channels /\ "HMI" # "MAIN"
    BY HMITaskAssumption, MitmAssumption
  <1>5. \/ /\ channel'[c].step # "idle" /\ UNCHANGED mMessage
           /\ channel'[c].id = channel[c].id /\ channel'[c].payload = channel[c].payload
        \/ /\ channel'[c].step = "idle"
           /\ mMessage' = [mMessage EXCEPT ![channel[c].id] = channel[c].payload]
    <2>1. CASE At(c, "version") /\ SetVersion(line.version)
      BY <2>1 DEF At, NextStep, SetVersion, ChannelInv, Typed
    <2>2. CASE At(c, "checksum") /\ SetChecksumType(line.checksum)
      BY <2>2 DEF At, NextStep, SetChecksumType, ChannelInv, Typed
    <2>3. CASE At(c, "store") /\ StoreFrame(channel[c].id, channel[c].payload)
      BY <2>3 DEF At, NextStep, AtRest, StoreFrame, ChannelInv, Typed
    <2>4. QED
      BY <2>1, <2>2, <2>3 DEF Stores, ChannelStep
  <1>6. Routes'
    <2>1. \A d \in Channels \ {"HMI", "MAIN"} : Idle(d)'
      BY <1>2, <1>3 DEF Routes, Idle
    <2>2. ~Idle("HMI")' => channel'["HMI"].id = HMI_MESSAGE_IDENTIFIER
      BY <1>2, <1>3, <1>4, <1>5 DEF Routes, Idle
    <2>3. QED
      BY <1>1, <2>1, <2>2 DEF Routes
  <1>7. channel[c].payload # NoFrame /\ channel[c].id \in FrameIds
    BY <1>1, DHWStateAssumption DEF ChannelInv, InHand
  <1>8. CASE channel'[c].step # "idle"
    <2>1. \A d \in Channels : /\ channel'[d].step = "idle" <=> channel[d].step = "idle"
                              /\ channel'[d].id = channel[d].id
                              /\ channel'[d].payload = channel[d].payload
      BY <1>1, <1>3, <1>5, <1>8
    <2>2. UNCHANGED <<HmiBrings, Asked, MainBrings, Answer>>
      BY <1>4, <1>5, <1>8, <2>1 DEF HmiBrings, Asked, MainBrings, Answer, Idle
    <2>3. QED
      BY <1>6, <2>2
  <1>9. CASE channel'[c].step = "idle"
    <2>1. mMessage' = [mMessage EXCEPT ![channel[c].id] = channel[c].payload]
      BY <1>5, <1>9
    <2>2. mMessage \in [FrameIds -> Payload \cup {NoFrame}]
      BY DEF ChannelInv, Typed
    <2>3. CASE c = "HMI"
      <3>1. /\ HmiBrings = channel[c].payload /\ HmiBrings' = NoFrame
            /\ Asked' = channel[c].payload /\ UNCHANGED Answer
        BY <1>0, <1>1, <1>2, <1>9, <2>1, <2>2, <2>3 DEF HmiBrings, Asked, Answer, Idle
      <3>2. UNCHANGED MainBrings
        BY <1>3, <1>4, <2>3 DEF MainBrings, Idle
      <3>3. QED
        BY <1>6, <1>7, <3>1, <3>2
    <2>4. CASE c = "MAIN" /\ channel[c].id = ERROR_MESSAGE_IDENTIFIER
      <3>1. /\ MainBrings = channel[c].payload /\ MainBrings' = NoFrame
            /\ Answer' = channel[c].payload /\ UNCHANGED Asked
        BY <1>0, <1>1, <1>9, <2>1, <2>2, <2>4 DEF MainBrings, Asked, Answer, Idle
      <3>2. UNCHANGED HmiBrings
        BY <1>3, <1>4, <2>4 DEF HmiBrings, Idle
      <3>3. QED
        BY <1>6, <1>7, <3>1, <3>2
    <2>5. CASE c = "MAIN" /\ channel[c].id # ERROR_MESSAGE_IDENTIFIER
      <3>1. MainBrings = NoFrame /\ MainBrings' = NoFrame /\ UNCHANGED Answer
        BY <1>0, <1>7, <1>9, <2>1, <2>2, <2>5 DEF MainBrings, Answer, Idle
      <3>2. UNCHANGED HmiBrings
        BY <1>3, <1>4, <2>5 DEF HmiBrings, Idle
      <3>3. UNCHANGED Asked
        BY <1>0, <1>1, <1>4, <1>7, <2>1, <2>2, <2>5 DEF OnlyHmiBringsRequests, Asked
      <3>4. QED
        BY <1>6, <3>1, <3>2, <3>3
    <2>6. QED
      BY <1>2, <2>3, <2>4, <2>5
  <1>10. QED
    BY <1>8, <1>9

\* A turn that emits no error frame.
LEMMA OnceQuietTurn ==
    ASSUME OnceTyped, OnceInv, HmiTaskTurn, UNCHANGED mLastEmittedRequestId,
           emitted' = emitted \/ emitted'.id # ERROR_MESSAGE_IDENTIFIER,
           at' = "error" => requestId' # mLastEmittedRequestId
    PROVE  OnceInv'
  <1>1. UNCHANGED <<channel, mMessage>>
    BY HmiTaskTurnKeepsStore DEF storeVars
  <1>2. UNCHANGED <<hmiRequest, seenRequest, owes, giveUps>>
    BY DEF HmiTaskTurn
  <1>3. hmiGot' = hmiGot
    BY Zenon DEF HmiTaskTurn, OnceTyped
  <1>4. UNCHANGED onceVars
    BY <1>1, <1>2, <1>3, ViewsStay DEF onceVars
  <1>5. Routes'
    BY <1>1 DEF OnceInv, Routes, Idle
  <1>6. QED
    BY <1>4, <1>5, OnceStutter DEF OnceInv

\* sendMessage74 emits the error frame, or does not find the one asked for.
LEMMA OnceEmitError ==
    ASSUME MaxGiveUps < MaxRequestId, Inv, ErrorInv, OnceTyped, OnceInv, HmiTaskTurn, EmitError
    PROVE  /\ OnceInv'
           /\ EmitsError /\ emitted'.payload \in {hmiRequest} \ {0} => ~hmiGot
  <1> DEFINE error == CopyFrame(ERROR_MESSAGE_IDENTIFIER)
  <1>1. error.payload = Answer
    BY CopyIsStored DEF Inv, Answer, FrameIds
  <1>2. /\ at = "error" /\ at' = "top"
        /\ requestId # mLastEmittedRequestId
    BY DEF EmitError, OnceInv, Routes
  <1>3. UNCHANGED <<channel, mMessage>>
    BY HmiTaskTurnKeepsStore DEF storeVars
  <1>4. /\ UNCHANGED <<HmiBrings, Asked, MainBrings, Answer>>
        /\ UNCHANGED <<hmiRequest, seenRequest, owes, giveUps>>
    BY <1>3, ViewsStay DEF HmiTaskTurn
  <1>5. Routes'
    BY <1>2, <1>3 DEF OnceInv, Routes, Idle
  <1>6. CASE ~IsAvailable(requestId, error)
    <2>1. UNCHANGED <<emitted, mLastEmittedRequestId>>
      BY <1>6 DEF EmitError
    <2>2. QED
      BY <1>2, <2>1, OnceQuietTurn DEF EmitsError
  <1>7. CASE IsAvailable(requestId, error) /\ Answer = NoFrame
    <2>1. emitted'.payload = NoFrame /\ NoFrame # hmiRequest
      BY <1>1, <1>7 DEF EmitError, Emission, OnceTyped
    <2>2. hmiGot' = hmiGot
      BY <2>1, Zenon DEF HmiTaskTurn, OnceTyped
    <2>3. FreshInv' /\ RequestInv'
      BY <1>4, <1>7, <2>2, OnceEmitsNothing DEF OnceInv, requestVars
    <2>4. QED
      BY <1>5, <2>1, <2>3 DEF OnceInv, EmitsError
  <1>8. CASE IsAvailable(requestId, error) /\ Answer # NoFrame
    <2>1. requestId = Answer
      BY <1>1, <1>8 DEF IsAvailable
    <2>2. emitted'.payload = Answer /\ mLastEmittedRequestId' = Answer
      BY <1>1, <1>8, <2>1 DEF EmitError, Emission
    <2>3. \/ hmiGot' = hmiGot
          \/ Answer = hmiRequest /\ hmiGot'
      BY <2>2, Zenon DEF HmiTaskTurn, OnceTyped
    <2>4. /\ FreshInv' /\ RequestInv'
          /\ Answer = hmiRequest /\ hmiRequest # 0 => ~hmiGot
      BY <1>2, <1>4, <1>8, <2>1, <2>2, <2>3, OnceEmits DEF OnceInv
    <2>5. QED
      BY <1>5, <2>2, <2>4 DEF OnceInv
  <1>9. QED
    BY <1>6, <1>7, <1>8

\* HMITask's turns.
LEMMA OnceTurn ==
    ASSUME MaxGiveUps < MaxRequestId, Inv, ErrorInv, OnceTyped, OnceInv, HmiTaskTurn
    PROVE  OnceInv'
  <1>1. ASSUME UNCHANGED <<emitted, mLastEmittedRequestId>>, at' # "error"
        PROVE  OnceInv'
    BY <1>1, OnceQuietTurn
  <1>2. CASE LoopReadsNothing
    BY <1>1, <1>2 DEF LoopReadsNothing, LoopTop
  <1>3. CASE Request194
    <2>1. emitted'.id # ERROR_MESSAGE_IDENTIFIER
      BY <1>3 DEF Request194, Emission, HMI_MESSAGE_IDENTIFIER, ERROR_MESSAGE_IDENTIFIER
    <2>2. at' # "error" /\ UNCHANGED mLastEmittedRequestId
      BY <1>3 DEF Request194
    <2>3. QED
      BY <2>1, <2>2, OnceQuietTurn
  <1>4. ASSUME NEW id, id # ERROR_MESSAGE_IDENTIFIER, NEW state, SendMessage(id, state)
        PROVE  OnceInv'
    <2>1. emitted' = emitted \/ emitted'.id # ERROR_MESSAGE_IDENTIFIER
      BY <1>4 DEF SendMessage, Emission
    <2>2. at' # "error" /\ UNCHANGED mLastEmittedRequestId
      BY <1>4 DEF SendMessage
    <2>3. QED
      BY <2>1, <2>2, OnceQuietTurn
  <1>5. ASSUME NEW state, SendMessage74(state)
        PROVE  OnceInv'
    <2>1. UNCHANGED <<emitted, mLastEmittedRequestId>>
      BY <1>5 DEF SendMessage74
    <2>2. at' = "error" => requestId' # mLastEmittedRequestId
      BY <1>5 DEF SendMessage74, AlreadyEmitted
    <2>3. QED
      BY <2>1, <2>2, OnceQuietTurn
  <1>6. CASE Send
    <2>1. /\ ENERGY_MESSAGE_IDENTIFIER # ERROR_MESSAGE_IDENTIFIER
          /\ MAIN_MESSAGE_IDENTIFIER # ERROR_MESSAGE_IDENTIFIER
          /\ EXTRA_MESSAGE_IDENTIFIER # ERROR_MESSAGE_IDENTIFIER
      BY DEF ENERGY_MESSAGE_IDENTIFIER, MAIN_MESSAGE_IDENTIFIER, EXTRA_MESSAGE_IDENTIFIER,
             ERROR_MESSAGE_IDENTIFIER
    <2>2. QED
      BY <1>4, <1>5, <1>6, <2>1 DEF Send
  <1>7. CASE EmitError
    BY <1>7, OnceEmitError
  <1>8. CASE SleepGoesOn \/ SleepIsOver
    BY <1>1, <1>8 DEF SleepGoesOn, SleepIsOver, SleepTurn
  <1>9. QED
    BY <1>2, <1>3, <1>6, <1>7, <1>8 DEF HmiTaskTurn

\* No step brings back an earlier use of an id.
LEMMA OnceNext ==
    ASSUME MaxGiveUps < MaxRequestId, Inv, ErrorInv, TypeInv, OnceInv, [Next]_vars
    PROVE  OnceInv'
  <1>1. OnceTyped /\ ChannelInv /\ OnlyHmiBringsRequests /\ Routes /\ FreshInv /\ RequestInv
    BY OnceTypedHolds DEF OnceInv, Inv, ErrorInv
  <1>2. /\ HMI_MESSAGE_IDENTIFIER # ERROR_MESSAGE_IDENTIFIER
        /\ HMI_MESSAGE_IDENTIFIER \in FrameIds
    BY DEF HMI_MESSAGE_IDENTIFIER, ERROR_MESSAGE_IDENTIFIER, FrameIds
  <1>3. CASE HmiAsks
    <2>1. UNCHANGED <<channel, mMessage, mLastEmittedRequestId, at, requestId>>
      BY <1>3 DEF HmiAsks, dhwVars, hmiTaskVars
    <2>2. FreshInv' /\ RequestInv'
      BY <1>1, <1>3, <2>1, ViewsStay, OnceAsks
    <2>3. QED
      BY <1>1, <2>1, <2>2 DEF OnceInv, Routes, Idle
  <1>4. CASE HmiAnswers
    <2>1. /\ Idle("HMI") /\ at' = "switch"
          /\ channel' = [channel EXCEPT !["HMI"] =
                [locked |-> TRUE, step |-> IF @.locked THEN "store" ELSE "version",
                 id |-> HMI_MESSAGE_IDENTIFIER, payload |-> hmiRequest]]
          /\ UNCHANGED <<mMessage, mLastEmittedRequestId>>
          /\ UNCHANGED <<hmiRequest, hmiGot, giveUps, seenRequest, owes>>
      BY <1>4 DEF HmiAnswers, LoopReadsFrame, LoopTop, Accept, dhwVars, envVars
    <2>2. /\ \A c \in Channels \ {"HMI"} : channel'[c] = channel[c]
          /\ channel'["HMI"].step # "idle"
          /\ channel'["HMI"].id = HMI_MESSAGE_IDENTIFIER
          /\ channel'["HMI"].payload = hmiRequest
      BY <1>1, <2>1, HMITaskAssumption DEF ChannelInv, Typed
    <2>3. HmiBrings = NoFrame /\ HmiBrings' = hmiRequest
      BY <2>1, <2>2 DEF HmiBrings, Idle
    <2>4. channel'["MAIN"] = channel["MAIN"]
      BY <2>2, MitmAssumption
    <2>5. UNCHANGED <<Asked, MainBrings, Answer>>
      BY <2>1, <2>4 DEF Asked, MainBrings, Answer, Idle
    <2>6. FreshInv' /\ RequestInv'
      BY <1>1, <2>1, <2>3, <2>5, OnceAnswers DEF requestVars
    <2>7. Routes'
      BY <1>1, <2>1, <2>2 DEF Routes, Idle
    <2>8. QED
      BY <2>6, <2>7 DEF OnceInv
  <1>5. CASE HmiTaskTurn
    BY <1>1, <1>5, OnceTurn
  <1>6. CASE ControllerSendsStatus
    <2>1. PICK id \in {ENERGY_MESSAGE_IDENTIFIER, MAIN_MESSAGE_IDENTIFIER,
                       EXTRA_MESSAGE_IDENTIFIER} : ControllerSends(id, 0)
      BY <1>6 DEF ControllerSendsStatus
    <2>2. id # HMI_MESSAGE_IDENTIFIER /\ id # ERROR_MESSAGE_IDENTIFIER
      BY DEF HMI_MESSAGE_IDENTIFIER, ENERGY_MESSAGE_IDENTIFIER, ERROR_MESSAGE_IDENTIFIER,
             MAIN_MESSAGE_IDENTIFIER, EXTRA_MESSAGE_IDENTIFIER
    <2>3. Routes' /\ UNCHANGED <<HmiBrings, Asked, MainBrings, Answer, mLastEmittedRequestId>>
      BY <1>1, <2>1, <2>2, MainTakes
    <2>4. UNCHANGED onceVars
      BY <1>6, <2>3 DEF ControllerSendsStatus, envVars, onceVars
    <2>5. QED
      BY <1>1, <2>3, <2>4, OnceStutter DEF OnceInv
  <1>7. CASE ControllerSendsError
    <2>1. PICK payload \in {seenRequest, 0} : ControllerSends(ERROR_MESSAGE_IDENTIFIER, payload)
      BY <1>7 DEF ControllerSendsError
    <2>2. /\ Routes' /\ UNCHANGED <<HmiBrings, Asked, Answer, mLastEmittedRequestId>>
          /\ MainBrings' \in {seenRequest, 0}
      BY <1>1, <1>2, <2>1, MainTakes
    <2>3. owes /\ ~owes' /\ UNCHANGED <<hmiRequest, hmiGot, giveUps, seenRequest>>
      BY <1>7 DEF ControllerSendsError
    <2>4. FreshInv' /\ RequestInv'
      BY <1>1, <2>2, <2>3, OnceControllerSendsError DEF requestVars
    <2>5. QED
      BY <2>2, <2>4 DEF OnceInv
  <1>8. CASE ControllerRequests
    <2>1. CopyFrame(HMI_MESSAGE_IDENTIFIER).payload = Asked
      BY <1>1, <1>2, CopyIsStored DEF Asked
    <2>2. /\ Asked # NoFrame /\ seenRequest' = Asked
          /\ owes' = (owes \/ Asked # seenRequest)
          /\ UNCHANGED requestVars
      BY <1>8, <2>1 DEF ControllerRequests, requestVars
    <2>3. UNCHANGED <<channel, mMessage, mLastEmittedRequestId, at, requestId>>
      BY <1>8 DEF ControllerRequests, dhwVars, hmiTaskVars
    <2>4. FreshInv' /\ RequestInv'
      BY <1>1, <2>2, <2>3, ViewsStay, OnceControllerRequests
    <2>5. QED
      BY <1>1, <2>3, <2>4 DEF OnceInv, Routes, Idle
  <1>9. ASSUME NEW c \in Channels, Stores(c)
        PROVE  OnceInv'
    <2>1. /\ UNCHANGED requestVars
          /\ UNCHANGED <<seenRequest, owes, mLastEmittedRequestId>>
      BY <1>9 DEF Stores, envVars, hmiTaskVars, requestVars
    <2>2. Routes'
      BY <1>1, <1>9, ChannelViews
    <2>3. CASE UNCHANGED <<HmiBrings, Asked, MainBrings, Answer>>
      BY <1>1, <2>1, <2>2, <2>3, OnceStutter DEF OnceInv, onceVars, requestVars
    <2>4. CASE /\ HmiBrings # NoFrame /\ HmiBrings' = NoFrame /\ Asked' = HmiBrings
               /\ UNCHANGED <<MainBrings, Answer>>
      BY <1>1, <2>1, <2>2, <2>4, OnceHmiStores DEF OnceInv
    <2>5. CASE /\ MainBrings # NoFrame /\ MainBrings' = NoFrame /\ Answer' = MainBrings
               /\ UNCHANGED <<HmiBrings, Asked>>
      BY <1>1, <2>1, <2>2, <2>5, OnceMainStores DEF OnceInv
    <2>6. QED
      BY <1>1, <1>9, <2>3, <2>4, <2>5, ChannelViews
  <1>10. CASE Reboot
    <2>1. /\ mMessage' = [id \in FrameIds |-> NoFrame] /\ at' = "top"
          /\ \A c \in Channels : channel'[c].step = "idle"
          /\ UNCHANGED <<hmiRequest, hmiGot, giveUps, seenRequest, owes>>
      BY <1>10 DEF Reboot, AtRest
    <2>2. Routes' /\ HmiBrings' = NoFrame /\ MainBrings' = NoFrame
      BY <2>1, HMITaskAssumption, MitmAssumption DEF Routes, HmiBrings, MainBrings, Idle
    <2>3. Asked' = NoFrame /\ Answer' = NoFrame
      BY <2>1 DEF Asked, Answer, FrameIds
    <2>4. FreshInv' /\ RequestInv'
      BY <1>1, <2>1, <2>2, <2>3, OnceForgets DEF requestVars
    <2>5. QED
      BY <2>2, <2>4 DEF OnceInv
  <1>11. CASE UNCHANGED vars
    <2>1. /\ UNCHANGED <<channel, mMessage, at, requestId, mLastEmittedRequestId>>
          /\ UNCHANGED envVars
      BY <1>11 DEF vars, dhwVars, hmiTaskVars
    <2>2. FreshInv' /\ RequestInv'
      BY <1>1, <2>1, ViewsStay, OnceStutter DEF envVars, onceVars
    <2>3. QED
      BY <1>1, <2>1, <2>2 DEF OnceInv, Routes, Idle
  <1>12. QED
    BY <1>3, <1>4, <1>5, <1>6, <1>7, <1>8, <1>9, <1>10, <1>11 DEF Next

\* A request is answered by an error frame at most once, over restarts of AquaMQTT
\* too, if the HMI never gives up on as many requests as there are ids.
THEOREM MitmErrorOnlyOnce ==
    ASSUME MaxGiveUps < MaxRequestId
    PROVE  Spec => ErrorOnlyOnce
  <1>1. Inv /\ ErrorInv /\ TypeInv /\ OnceInv /\ [Next]_vars
            => [EmitsError /\ emitted'.payload \in {hmiRequest} \ {0} => ~hmiGot]_vars
    <2>1. SUFFICES ASSUME Inv, ErrorInv, TypeInv, OnceInv, [Next]_vars, EmitsError,
                          emitted'.payload \in {hmiRequest} \ {0}
                   PROVE  ~hmiGot
      OBVIOUS
    <2>2. HmiTaskTurn /\ EmitError
      BY <2>1, OnlyEmitErrorEmitsErrors
    <2>3. OnceTyped
      BY <2>1, OnceTypedHolds DEF OnceInv
    <2>4. QED
      BY <2>1, <2>2, <2>3, OnceEmitError
  <1>2. Inv /\ ErrorInv /\ TypeInv /\ OnceInv /\ [Next]_vars => OnceInv'
    BY OnceNext
  <1>3. QED
    BY <1>1, <1>2, InvInit, InvNext, ErrorInvInit, ErrorInvNext, TypeInvInit, TypeInvNext,
       OnceInit, PTL DEF Spec, ErrorOnlyOnce

=============================================================================
