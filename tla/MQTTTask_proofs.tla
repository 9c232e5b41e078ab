--------------------------- MODULE MQTTTask_proofs ---------------------------
(***************************************************************************)
(* No change of a frame is lost between the tasks that store it and the    *)
(* one that publishes it, for any payloads and overrides, and any number   *)
(* of frames, control messages and lost connections.                       *)
(***************************************************************************)
EXTENDS MQTTTask, FrameChannel_proofs, TLAPS

-----------------------------------------------------------------------------
(* The inductive invariant *)

OverrideTyped == override \in [{"HMI", "MAIN"} -> Override]

\* A turn does not end before it looked at all frames.
TurnsEnd == at # "frames" => todo = {}

\* There is no copy of what was never stored.
CopiesWereStored ==
    \A id \in FrameIds : mMessage[id] = NoFrame => mLastProcessed[id] = NoFrame

CopiesTyped == mLastProcessed \in [FrameIds -> Payload \cup {NoFrame}]

WakeupInv ==
    OverrideTyped /\ TurnsEnd /\ CopiesWereStored /\ CopiesTyped /\ NoLostWakeup

wakeupVars == <<mMessage, override, at, todo, mLastProcessed, notified, missed>>

LEMMA WakeupInvStutter == WakeupInv /\ UNCHANGED wakeupVars => WakeupInv'
  BY DEF WakeupInv, OverrideTyped, TurnsEnd, CopiesWereStored, CopiesTyped, NoLostWakeup,
         Shown, wakeupVars

\* The frame the proxies show is one, if and only if one is stored.
LEMMA ShownTyped ==
    ASSUME OverrideTyped, NEW id \in FrameIds, NEW payload \in Payload \cup {NoFrame}
    PROVE  /\ Shown(id, payload) \in Payload \cup {NoFrame}
           /\ Shown(id, payload) = NoFrame <=> payload = NoFrame
  <1>1. override.HMI \in Override /\ override.MAIN \in Override
    BY DEF OverrideTyped
  <1>2. CASE payload = NoFrame
    BY <1>2 DEF Shown
  <1>3. CASE payload \in Payload
    <2>1. payload # NoFrame
      BY <1>3, DHWStateAssumption
    <2>2. /\ Overridden(payload, override.HMI) \in Payload
          /\ Overridden(payload, override.MAIN) \in Payload
      BY <1>1, <1>3, MQTTTaskAssumption
    <2>3. Shown(id, payload) \in Payload
      <3>1. CASE id = HMI_MESSAGE_IDENTIFIER
        BY <2>1, <2>2, <3>1 DEF Shown
      <3>2. CASE id # HMI_MESSAGE_IDENTIFIER /\ id = MAIN_MESSAGE_IDENTIFIER
        BY <2>1, <2>2, <3>2 DEF Shown
      <3>3. CASE id # HMI_MESSAGE_IDENTIFIER /\ id # MAIN_MESSAGE_IDENTIFIER
        BY <1>3, <2>1, <3>3 DEF Shown
      <3>4. QED
        BY <3>1, <3>2, <3>3
    <2>4. QED
      BY <2>1, <2>3, DHWStateAssumption
  <1>4. QED
    BY <1>2, <1>3

-----------------------------------------------------------------------------

LEMMA WakeupInvInit == Init => ChannelInv /\ WakeupInv
  <1>1. SUFFICES ASSUME Init
                 PROVE  ChannelInv /\ WakeupInv
    OBVIOUS
  <1>2. ChannelInv
    BY <1>1, ChannelInvStart DEF Init, ChannelInit, DHWInit
  <1>3. OverrideTyped
    BY <1>1, MQTTTaskAssumption DEF Init, OverrideTyped, ProxyIds
  <1>4. TurnsEnd /\ CopiesWereStored /\ CopiesTyped /\ NoLostWakeup
    BY <1>1 DEF Init, DHWInit, TurnsEnd, CopiesWereStored, CopiesTyped, NoLostWakeup, Shown
  <1>5. QED
    BY <1>2, <1>3, <1>4 DEF WakeupInv

\* What is stored is notified, or marked as missed before there is a listener.
LEMMA WakeupInvStores ==
    ASSUME ChannelInv, WakeupInv, NEW c \in Channels, Stores(c)
    PROVE  WakeupInv'
  <1>1. UNCHANGED <<override, at, todo, mLastProcessed>>
    BY DEF Stores, mqttVars
  <1>2. CASE UNCHANGED <<mMessage, notified>>
    <2>1. missed \subseteq missed'
      BY DEF Stores
    <2>2. NoLostWakeup'
      BY <1>1, <1>2, <2>1 DEF WakeupInv, NoLostWakeup, Shown
    <2>3. QED
      BY <1>1, <1>2, <2>2 DEF WakeupInv, OverrideTyped, TurnsEnd, CopiesWereStored, CopiesTyped
  <1>3. CASE At(c, "store") /\ StoreFrame(channel[c].id, channel[c].payload)
    <2> DEFINE new == channel[c].id
    <2>1. new \in FrameIds /\ channel[c].payload \in Payload
      BY <1>3 DEF At, ChannelInv, InHand
    <2>2. /\ mMessage'[new] # NoFrame
          /\ \A id \in FrameIds : id # new => mMessage'[id] = mMessage[id]
      BY <1>3, <2>1, DHWStateAssumption DEF StoreFrame, ChannelInv, Typed
    <2>3. \A id \in FrameIds :
             mMessage'[id] # mMessage[id] => id \in notified' \cup missed'
      <3>1. SUFFICES ASSUME NEW id \in FrameIds, mMessage'[id] # mMessage[id]
                     PROVE  id \in notified' \cup missed'
        OBVIOUS
      <3>2. CASE mNotify
        <4>1. id = new /\ mMessage[new] # channel[c].payload
          BY <1>3, <2>1, <2>2, <3>1 DEF StoreFrame, ChannelInv, Typed
        <4>2. QED
          BY <1>3, <3>2, <4>1 DEF StoreFrame
      <3>3. CASE ~mNotify
        BY <3>1, <3>3 DEF Stores
      <3>4. QED
        BY <3>2, <3>3
    <2>4. notified \subseteq notified' /\ missed \subseteq missed'
      BY <1>3 DEF StoreFrame, Stores
    <2>5. NoLostWakeup'
      <3>1. SUFFICES ASSUME NEW id \in FrameIds,
                            Shown(id, mMessage[id])' # mLastProcessed[id]'
                     PROVE  id \in (notified \cup todo \cup missed)'
        BY DEF NoLostWakeup
      <3>2. CASE mMessage'[id] = mMessage[id]
        BY <1>1, <2>4, <3>1, <3>2 DEF WakeupInv, NoLostWakeup, Shown
      <3>3. CASE mMessage'[id] # mMessage[id]
        BY <2>3, <3>3
      <3>4. QED
        BY <3>2, <3>3
    <2>6. CopiesWereStored'
      BY <1>1, <2>2 DEF WakeupInv, CopiesWereStored
    <2>7. QED
      BY <1>1, <2>5, <2>6 DEF WakeupInv, OverrideTyped, TurnsEnd, CopiesTyped
  <1>4. QED
    BY <1>2, <1>3 DEF Stores, ChannelStep, SetVersion, SetChecksumType

\* The bits taken are looked at in this turn.
LEMMA WakeupInvTake ==
    ASSUME WakeupInv, NEW full \in BOOLEAN, Take(full)
    PROVE  WakeupInv'
  <1>1. /\ UNCHANGED <<mMessage, override, mLastProcessed, missed>>
        /\ at' = "frames"
        /\ notified \subseteq todo'
        /\ todo = {}
    BY DEF Take, Taken, WakeupInv, TurnsEnd
  <1>2. NoLostWakeup'
    BY <1>1 DEF WakeupInv, NoLostWakeup, Shown
  <1>3. QED
    BY <1>1, <1>2 DEF WakeupInv, OverrideTyped, TurnsEnd, CopiesWereStored, CopiesTyped

\* The frame looked at is the one that is stored, at that moment.
LEMMA WakeupInvUpdate ==
    ASSUME ChannelInv, WakeupInv, NEW id \in FrameIds, Update(id)
    PROVE  WakeupInv'
  <1> DEFINE frame == Shown(id, CopyFrame(id).payload)
  <1>1. /\ UNCHANGED <<mMessage, override, notified>> /\ at = "frames" /\ at' = at
        /\ todo' = todo \ {id} /\ missed' = missed \ {id}
    BY DEF Update, dhwVars
  <1>2. frame = Shown(id, mMessage[id])
    BY CopyIsStored
  <1>3. /\ frame \in Payload \cup {NoFrame}
        /\ frame = NoFrame <=> mMessage[id] = NoFrame
    BY <1>2, ShownTyped DEF WakeupInv, ChannelInv, Typed
  <1>4. /\ mLastProcessed'[id] = frame
        /\ \A other \in FrameIds : other # id => mLastProcessed'[other] = mLastProcessed[other]
        /\ CopiesTyped'
    <2>1. CASE frame = NoFrame
      BY <1>3, <2>1 DEF Update, WakeupInv, CopiesWereStored, CopiesTyped
    <2>2. CASE frame # NoFrame
      <3>1. mLastProcessed' = [mLastProcessed EXCEPT ![id] = frame]
        BY <2>2 DEF Update
      <3>2. QED
        BY <1>3, <3>1 DEF WakeupInv, CopiesTyped
    <2>3. QED
      BY <2>1, <2>2
  <1>5. NoLostWakeup'
    <2>1. SUFFICES ASSUME NEW other \in FrameIds,
                          Shown(other, mMessage[other])' # mLastProcessed[other]'
                   PROVE  other \in (notified \cup todo \cup missed)'
      BY DEF NoLostWakeup
    <2>2. Shown(other, mMessage[other])' = Shown(other, mMessage[other])
      BY <1>1 DEF Shown
    <2>3. other # id
      BY <1>2, <1>4, <2>1, <2>2
    <2>4. QED
      BY <1>1, <1>4, <2>1, <2>2, <2>3 DEF WakeupInv, NoLostWakeup
  <1>6. CopiesWereStored'
    BY <1>1, <1>3, <1>4 DEF WakeupInv, CopiesWereStored
  <1>7. QED
    BY <1>1, <1>4, <1>5, <1>6 DEF WakeupInv, OverrideTyped, TurnsEnd

\* Only frames of the proxies that are told look different, and they notify.
LEMMA WakeupInvControl ==
    ASSUME WakeupInv, NEW told \in SUBSET {"HMI", "MAIN"}, ReceivesControl(told)
    PROVE  WakeupInv'
  <1>1. /\ UNCHANGED <<mMessage, todo, mLastProcessed>>
        /\ todo = {}
    BY DEF ReceivesControl, ClientLoop
  <1>2. PICK o \in [told -> Override] :
           override' = [p \in DOMAIN override |-> IF p \in told THEN o[p] ELSE override[p]]
    BY DEF ReceivesControl
  <1>3. /\ OverrideTyped'
        /\ \A p \in {"HMI", "MAIN"} \ told : override'[p] = override[p]
    BY <1>2 DEF WakeupInv, OverrideTyped
  <1>4. /\ notified \subseteq notified' /\ missed \subseteq missed'
        /\ \A p \in told : ProxyIds[p] \in notified' \cup missed'
    BY DEF ReceivesControl
  <1>5. NoLostWakeup'
    <2>1. SUFFICES ASSUME NEW id \in FrameIds,
                          Shown(id, mMessage[id])' # mLastProcessed[id]'
                   PROVE  id \in (notified \cup todo \cup missed)'
      BY DEF NoLostWakeup
    <2>2. CASE Shown(id, mMessage[id])' = Shown(id, mMessage[id])
      BY <1>1, <1>4, <2>1, <2>2 DEF WakeupInv, NoLostWakeup
    <2>3. CASE Shown(id, mMessage[id])' # Shown(id, mMessage[id])
      <3>1. \/ id = HMI_MESSAGE_IDENTIFIER /\ override'.HMI # override.HMI
            \/ id = MAIN_MESSAGE_IDENTIFIER /\ override'.MAIN # override.MAIN
        <4>1. CASE id = HMI_MESSAGE_IDENTIFIER
          BY <1>1, <2>3, <4>1 DEF Shown
        <4>2. CASE id # HMI_MESSAGE_IDENTIFIER /\ id = MAIN_MESSAGE_IDENTIFIER
          BY <1>1, <2>3, <4>2 DEF Shown
        <4>3. CASE id # HMI_MESSAGE_IDENTIFIER /\ id # MAIN_MESSAGE_IDENTIFIER
          BY <1>1, <2>3, <4>3 DEF Shown
        <4>4. QED
          BY <4>1, <4>2, <4>3
      <3>2. PICK p \in told : ProxyIds[p] = id
        BY <1>3, <3>1 DEF ProxyIds
      <3>3. QED
        BY <1>4, <3>2
    <2>4. QED
      BY <2>2, <2>3
  <1>6. QED
    BY <1>1, <1>3, <1>5 DEF WakeupInv, TurnsEnd, CopiesWereStored, CopiesTyped

-----------------------------------------------------------------------------

LEMMA ChannelInvNext == ChannelInv /\ [Next]_vars => ChannelInv'
  <1>1. SUFFICES ASSUME ChannelInv, [Next]_vars
                 PROVE  ChannelInv'
    OBVIOUS
  <1>2. CASE FrameArrives
    <2>1. PICK payload \in Payload :
             \/ Accept("HMI", HMI_MESSAGE_IDENTIFIER, payload)
             \/ \E id \in MainFrames : Accept("MAIN", id, payload)
      BY <1>2 DEF FrameArrives
    <2>2. UNCHANGED <<line, mMessage, mProtocolVersion, mChecksumType>>
      BY <1>2 DEF FrameArrives, dhwVars
    <2>3. /\ HMI_MESSAGE_IDENTIFIER \in FrameIds /\ MainFrames \subseteq FrameIds
          /\ "HMI" \in Channels /\ "MAIN" \in Channels
      BY MQTTTaskAssumption DEF FrameIds
    <2>4. QED
      BY <1>1, <2>1, <2>2, <2>3, ChannelInvAccept
  <1>3. CASE \E c \in Channels : Stores(c)
    BY <1>1, <1>3, ChannelInvStep DEF Stores
  <1>4. CASE SpawnSetsListeners
    BY <1>1, <1>4, ChannelInvStutter DEF SpawnSetsListeners, SetListener, dhwVars, storeVars
  <1>5. CASE ConnectionLost
    BY <1>1, <1>5, ChannelInvStutter DEF ConnectionLost, dhwVars, storeVars
  <1>6. CASE Turn
    <2>1. UNCHANGED storeVars
      BY <1>6 DEF Turn, Connect, Take, Update, ReceivesNothing, NoticesLoss, ReceivesControl,
                  ClientLoop, dhwVars, storeVars
    <2>2. QED
      BY <1>1, <2>1, ChannelInvStutter
  <1>7. CASE UNCHANGED vars
    BY <1>1, <1>7, ChannelInvStutter DEF vars, dhwVars, storeVars
  <1>8. QED
    BY <1>1, <1>2, <1>3, <1>4, <1>5, <1>6, <1>7 DEF Next

LEMMA WakeupInvNext == ChannelInv /\ WakeupInv /\ [Next]_vars => WakeupInv'
  <1>1. SUFFICES ASSUME ChannelInv, WakeupInv, [Next]_vars
                 PROVE  WakeupInv'
    OBVIOUS
  <1>2. CASE FrameArrives
    BY <1>1, <1>2, WakeupInvStutter DEF FrameArrives, dhwVars, mqttVars, wakeupVars
  <1>3. CASE \E c \in Channels : Stores(c)
    BY <1>1, <1>3, WakeupInvStores
  <1>4. CASE SpawnSetsListeners
    BY <1>1, <1>4, WakeupInvStutter DEF SpawnSetsListeners, SetListener, dhwVars, wakeupVars
  <1>5. CASE ConnectionLost
    BY <1>1, <1>5, WakeupInvStutter DEF ConnectionLost, dhwVars, wakeupVars
  <1>6. CASE Turn
    <2>1. CASE Connect
      BY <1>1, <2>1, WakeupInvStutter DEF Connect, dhwVars, wakeupVars
    <2>2. CASE \E full \in BOOLEAN : Take(full)
      BY <1>1, <2>2, WakeupInvTake
    <2>3. CASE \E id \in FrameIds : Update(id)
      BY <1>1, <2>3, WakeupInvUpdate
    <2>4. CASE ReceivesNothing \/ NoticesLoss
      BY <1>1, <2>4 DEF ReceivesNothing, NoticesLoss, ClientLoop, WakeupInv, OverrideTyped,
                        TurnsEnd, CopiesWereStored, CopiesTyped, NoLostWakeup, Shown
    <2>5. CASE ReceivesControl({"HMI"}) \/ ReceivesControl({"HMI", "MAIN"})
      BY <1>1, <2>5, WakeupInvControl
    <2>6. QED
      BY <1>6, <2>1, <2>2, <2>3, <2>4, <2>5 DEF Turn
  <1>7. CASE UNCHANGED vars
    BY <1>1, <1>7, WakeupInvStutter DEF vars, dhwVars, mqttVars, wakeupVars
  <1>8. QED
    BY <1>1, <1>2, <1>3, <1>4, <1>5, <1>6, <1>7 DEF Next

\* A frame that looks different from its last copy will be looked at again.
THEOREM MQTTNoLostWakeup == Spec => []NoLostWakeup
  <1>1. WakeupInv => NoLostWakeup
    BY DEF WakeupInv
  <1>2. QED
    BY <1>1, WakeupInvInit, ChannelInvNext, WakeupInvNext, PTL DEF Spec

-----------------------------------------------------------------------------
(* Types: what ChannelInv and WakeupInv say nothing about. *)

TaskTyped ==
    /\ NotificationsTyped
    /\ proxies \subseteq {"HMI", "MAIN"}
    /\ at \in {"top", "frames"} /\ fullUpdate \in BOOLEAN
    /\ todo \subseteq FrameIds /\ missed \subseteq FrameIds
    /\ connection \in {"up", "lost", "closed"}

LEMMA TaskTypedInit == Init => TaskTyped
  BY DEF Init, DHWInit, TaskTyped, NotificationsTyped

LEMMA TaskTypedTurn ==
    ASSUME TaskTyped, Turn
    PROVE  TaskTyped'
  <1>1. CASE Connect
    BY <1>1 DEF Connect, dhwVars, TaskTyped, NotificationsTyped
  <1>2. CASE \E full \in BOOLEAN : Take(full)
    BY <1>2 DEF Take, Taken, FullUpdateIds, TaskTyped, NotificationsTyped
  <1>3. CASE \E id \in FrameIds : Update(id)
    BY <1>3 DEF Update, dhwVars, TaskTyped, NotificationsTyped
  <1>4. CASE ReceivesNothing \/ NoticesLoss
    BY <1>4 DEF ReceivesNothing, NoticesLoss, ClientLoop, TaskTyped, NotificationsTyped
  <1>5. ASSUME NEW told \in SUBSET {"HMI", "MAIN"}, ReceivesControl(told)
        PROVE  TaskTyped'
    <2>1. \A p \in told : ProxyIds[p] \in FrameIds
      BY DEF ProxyIds, FrameIds
    <2>2. /\ NotificationsTyped'
          /\ missed' \subseteq FrameIds
      BY <1>5, <2>1 DEF ReceivesControl, ClientLoop, TaskTyped, NotificationsTyped
    <2>3. /\ at' = "top" /\ fullUpdate' = FALSE
          /\ UNCHANGED <<proxies, todo, connection>>
      BY <1>5 DEF ReceivesControl, ClientLoop
    <2>4. QED
      BY <2>2, <2>3 DEF TaskTyped
  <1>6. QED
    BY <1>1, <1>2, <1>3, <1>4, <1>5 DEF Turn

LEMMA TaskTypedNext == ChannelInv /\ TaskTyped /\ [Next]_vars => TaskTyped'
  <1>1. SUFFICES ASSUME ChannelInv, TaskTyped, [Next]_vars
                 PROVE  TaskTyped'
    OBVIOUS
  <1>2. CASE FrameArrives
    BY <1>1, <1>2 DEF FrameArrives, dhwVars, mqttVars, TaskTyped, NotificationsTyped
  <1>3. ASSUME NEW c \in Channels, Stores(c)
        PROVE  TaskTyped'
    <2>1. NotificationsTyped'
      BY <1>1, <1>3, NotificationsTypedStep DEF Stores, TaskTyped
    <2>2. UNCHANGED mqttVars /\ missed' \subseteq FrameIds
      BY <1>1, <1>3 DEF Stores, TaskTyped
    <2>3. QED
      BY <1>1, <2>1, <2>2 DEF TaskTyped, mqttVars
  <1>4. CASE SpawnSetsListeners
    BY <1>1, <1>4 DEF SpawnSetsListeners, SetListener, dhwVars, TaskTyped, NotificationsTyped
  <1>5. CASE ConnectionLost
    BY <1>1, <1>5 DEF ConnectionLost, dhwVars, TaskTyped, NotificationsTyped
  <1>6. CASE Turn
    BY <1>1, <1>6, TaskTypedTurn
  <1>7. CASE UNCHANGED vars
    BY <1>1, <1>7 DEF vars, dhwVars, mqttVars, TaskTyped, NotificationsTyped
  <1>8. QED
    BY <1>1, <1>2, <1>3, <1>4, <1>5, <1>6, <1>7 DEF Next

\* Every variable stays in its type, the store and the last copies included.
THEOREM MQTTTypeCorrect == Spec => []TypeOK
  <1>1. ChannelInv /\ WakeupInv /\ TaskTyped => TypeOK
    <2>1. SUFFICES ASSUME ChannelInv, WakeupInv, TaskTyped
                   PROVE  TypeOK
      OBVIOUS
    <2>2. DHWTypeOK /\ ChannelTypeOK
      BY <2>1, ChannelInvTypes DEF DHWTypeOK, TaskTyped, NotificationsTyped
    <2>3. DOMAIN ProxyIds = {"HMI", "MAIN"}
      BY DEF ProxyIds
    <2>4. QED
      BY <2>1, <2>2, <2>3 DEF TypeOK, TaskTyped, WakeupInv, OverrideTyped, CopiesTyped
  <1>2. QED
    BY <1>1, WakeupInvInit, ChannelInvNext, WakeupInvNext, TaskTypedInit, TaskTypedNext, PTL
       DEF Spec

=============================================================================
