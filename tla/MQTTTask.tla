------------------------------ MODULE MQTTTask ------------------------------
(***************************************************************************)
(* task/MQTTTask.cpp: the task that publishes what the serial tasks store. *)
(*                                                                         *)
(* storeFrame, and the proxies when a control message changes an override, *)
(* set one notification bit per frame at this task.  Each turn of loop()   *)
(* takes all bits at once, copies those frames and publishes the           *)
(* attributes that differ from the copy before; every 30 minutes it        *)
(* publishes everything but the error message again.                       *)
(*                                                                         *)
(* The task is created before it is set as listener.  The broker's         *)
(* connection may be lost at any time, and stay lost for a while before    *)
(* the client notices: what is published then is gone.                     *)
(***************************************************************************)
EXTENDS FrameChannel

CONSTANTS
    Attr,             \* attributes of a frame; a payload is a function on them
    Override,         \* what a proxy may override, all of it as one value
    NoOverride,
    Overridden(_, _), \* a payload with the overrides applied
    MainFrames,       \* frames the main controller sends
    MaxFrames, MaxControls, MaxLosses  \* bounds of what the surroundings do

ASSUME MQTTTaskAssumption ==
    /\ Channels = {"HMI", "MAIN"}
    /\ NoOverride \in Override
    /\ MainFrames \subseteq FrameIds \ {HMI_MESSAGE_IDENTIFIER}
    /\ \A p \in Payload, o \in Override : Overridden(p, o) \in Payload
    /\ MaxFrames \in Nat /\ MaxControls \in Nat /\ MaxLosses \in Nat

VARIABLES
    proxies,      \* proxies a listener is set at: "HMI" and "MAIN"
    override,     \* what each proxy overrides
    at,           \* where loop() is: its "top", or at the notified "frames"
    todo,         \* frames this turn has still to look at
    fullUpdate,
    mLastProcessed,  \* the last copy of each frame (of frame 74 only here: history)
    connection,   \* "up", "lost" but not noticed, or "closed"
    broker,       \* the last value published of each attribute
    missed,       \* frames changed without anyone being notified, not looked at since
    frames, controls, losses  \* what the surroundings may still do

mqttVars == <<proxies, override, at, todo, fullUpdate, mLastProcessed, connection, broker>>
envVars == <<frames, controls, losses>>
vars == <<dhwVars, line, channel, mqttVars, missed, envVars>>

ProxyIds == [HMI |-> HMI_MESSAGE_IDENTIFIER, MAIN |-> MAIN_MESSAGE_IDENTIFIER]

Init ==
    /\ DHWInit
    /\ ChannelInit
    /\ line \in Lines
    /\ proxies = {}
    /\ override = [p \in DOMAIN ProxyIds |-> NoOverride]
    /\ at = "top"
    /\ todo = {}
    /\ fullUpdate = FALSE
    /\ mLastProcessed = [id \in FrameIds |-> NoFrame]
    /\ connection = "closed"
    /\ broker = [id \in FrameIds |-> [a \in Attr |-> NoFrame]]
    /\ missed = {}
    /\ frames = MaxFrames /\ controls = MaxControls /\ losses = MaxLosses

-----------------------------------------------------------------------------
(* The surroundings: frames, the start of the task, the network *)

FrameArrives ==
    /\ frames > 0
    /\ frames' = frames - 1
    /\ \E payload \in Payload :
          \/ Accept("HMI", HMI_MESSAGE_IDENTIFIER, payload)
          \/ \E id \in MainFrames : Accept("MAIN", id, payload)
    /\ UNCHANGED <<dhwVars, line, mqttVars, missed, controls, losses>>

Stores(c) ==
    /\ ChannelStep(c)
    /\ missed' = IF mNotify THEN missed
                 ELSE missed \cup { id \in FrameIds : mMessage'[id] # mMessage[id] }
    /\ UNCHANGED <<mqttVars, envVars>>

\* spawn, after the task was created.
SpawnSetsListeners ==
    /\ \/ ~mNotify /\ SetListener /\ UNCHANGED proxies
       \/ mNotify /\ "HMI" \notin proxies /\ proxies' = {"HMI"} /\ UNCHANGED dhwVars
       \/ proxies = {"HMI"} /\ proxies' = {"HMI", "MAIN"} /\ UNCHANGED dhwVars
    /\ UNCHANGED <<line, channel, override, at, todo, fullUpdate, mLastProcessed,
                   connection, broker, missed, envVars>>

ConnectionLost ==
    /\ losses > 0
    /\ losses' = losses - 1
    /\ connection = "up"
    /\ connection' = "lost"
    /\ UNCHANGED <<dhwVars, line, channel, proxies, override, at, todo, fullUpdate,
                   mLastProcessed, broker, missed, frames, controls>>

-----------------------------------------------------------------------------
(* loop() *)

\* check_mqtt_connection: tries until the broker is there.
Connect ==
    /\ at = "top"
    /\ connection = "closed"
    /\ connection' = "up"
    /\ UNCHANGED <<dhwVars, line, channel, proxies, override, at, todo, fullUpdate,
                   mLastProcessed, broker, missed, envVars>>

\* The frames are looked at in the order 194, 193, 67, 74, 217.
Bit == [id \in FrameIds |-> CASE id = HMI_MESSAGE_IDENTIFIER    -> 8
                              [] id = MAIN_MESSAGE_IDENTIFIER   -> 7
                              [] id = ENERGY_MESSAGE_IDENTIFIER -> 6
                              [] id = ERROR_MESSAGE_IDENTIFIER  -> 5
                              [] id = EXTRA_MESSAGE_IDENTIFIER  -> 4]

MutantTaken(bits) == bits \ {HMI_MESSAGE_IDENTIFIER}

MutantTakenBits(bits) == { Bit[id] : id \in bits }

\* What the bits taken stand for: "notify & 1 << 8" .. "notify & 1 << 4".
Taken(bits) == bits

FullUpdateIds == FrameIds \ {ERROR_MESSAGE_IDENTIFIER}

\* ulTaskNotifyTake takes all bits and clears them.
Take(full) ==
    /\ at = "top"
    /\ connection # "closed"
    /\ at' = "frames"
    /\ fullUpdate' = full
    /\ todo' = Taken(notified) \cup (IF full THEN FullUpdateIds ELSE {})
    /\ notified' = {}
    /\ UNCHANGED <<mProtocolVersion, mChecksumType, mMessage, mNotify, line, channel,
                   proxies, override, mLastProcessed, connection, broker, missed, envVars>>

IsNext(id) == id \in todo /\ \A other \in todo : Bit[other] <= Bit[id]

\* A payload as the proxies show it.
Shown(id, payload) ==
    IF payload = NoFrame THEN NoFrame
    ELSE CASE id = HMI_MESSAGE_IDENTIFIER  -> Overridden(payload, override.HMI)
           [] id = MAIN_MESSAGE_IDENTIFIER -> Overridden(payload, override.MAIN)
           [] OTHER                        -> payload

MutantPublishes(id, frame, a) ==
    mLastProcessed[id] = NoFrame \/ frame[a] # mLastProcessed[id][a]

\* updateHMIStatus .. updateExtraStatus: a new attribute, or all of them.
Publishes(id, frame, a) ==
    \/ fullUpdate
    \/ id = ERROR_MESSAGE_IDENTIFIER
    \/ mLastProcessed[id] = NoFrame
    \/ frame[a] # mLastProcessed[id][a]

Update(id) ==
    LET frame == Shown(id, CopyFrame(id).payload) IN
    /\ at = "frames"
    /\ IsNext(id)
    /\ todo' = todo \ {id}
    /\ missed' = missed \ {id}
    /\ IF frame = NoFrame
       THEN UNCHANGED <<mLastProcessed, broker>>
       ELSE /\ mLastProcessed' = [mLastProcessed EXCEPT ![id] = frame]
            /\ broker' = IF connection # "up" THEN broker
                         ELSE [broker EXCEPT ![id] =
                                 [a \in Attr |-> IF Publishes(id, frame, a)
                                                 THEN frame[a] ELSE @[a]]]
    /\ UNCHANGED <<dhwVars, line, channel, proxies, override, at, fullUpdate,
                   connection, envVars>>

\* mMQTTClient.loop(), at the end of the turn.
ClientLoop ==
    /\ at = "frames"
    /\ todo = {}
    /\ at' = "top"
    /\ fullUpdate' = FALSE
    /\ UNCHANGED <<mProtocolVersion, mChecksumType, mMessage, mNotify, line, channel,
                   proxies, todo, mLastProcessed, broker, frames, losses>>

ReceivesNothing ==
    /\ ClientLoop
    /\ UNCHANGED <<notified, override, connection, missed, controls>>

NoticesLoss ==
    /\ ClientLoop
    /\ connection = "lost"
    /\ connection' = "closed"
    /\ UNCHANGED <<notified, override, missed, controls>>

\* A control message changes what these proxies override; a proxy notifies its
\* listener.  Both are told of the PV flags.
ReceivesControl(told) ==
    LET ids(ps) == { ProxyIds[p] : p \in ps } IN
    /\ ClientLoop
    /\ connection = "up"
    /\ controls > 0
    /\ controls' = controls - 1
    /\ \E o \in [told -> Override] :
          override' = [p \in DOMAIN override |-> IF p \in told THEN o[p] ELSE override[p]]
    /\ notified' = notified \cup ids(told \cap proxies)
    /\ missed' = missed \cup ids(told \ proxies)
    /\ UNCHANGED connection

Turn ==
    \/ Connect
    \/ \E full \in BOOLEAN : Take(full)
    \/ \E id \in FrameIds : Update(id)
    \/ ReceivesNothing
    \/ NoticesLoss
    \/ ReceivesControl({"HMI"})
    \/ ReceivesControl({"HMI", "MAIN"})

Next ==
    \/ FrameArrives
    \/ \E c \in Channels : Stores(c)
    \/ SpawnSetsListeners
    \/ ConnectionLost
    \/ Turn

\* The task keeps running, setup() ends, the client notices a lost connection
\* in the end and 30 minutes pass again and again.
Fairness ==
    /\ \A c \in Channels : WF_vars(Stores(c))
    /\ WF_vars(SpawnSetsListeners)
    /\ WF_vars(Turn)
    /\ SF_vars(NoticesLoss)
    /\ SF_vars(Take(TRUE))

Spec == Init /\ [][Next]_vars /\ Fairness

-----------------------------------------------------------------------------
(* Properties *)

TypeOK ==
    /\ DHWTypeOK
    /\ ChannelTypeOK
    /\ proxies \subseteq DOMAIN ProxyIds
    /\ override \in [DOMAIN ProxyIds -> Override]
    /\ at \in {"top", "frames"} /\ fullUpdate \in BOOLEAN
    /\ todo \subseteq FrameIds /\ missed \subseteq FrameIds
    /\ mLastProcessed \in [FrameIds -> Payload \cup {NoFrame}]
    /\ connection \in {"up", "lost", "closed"}

\* No notification is lost between the tasks: a frame that differs from the
\* last copy of it is notified, or this turn will still look at it.  (Except
\* what changed before the listener was set.)
NoLostWakeup ==
    \A id \in FrameIds :
        Shown(id, mMessage[id]) # mLastProcessed[id] => id \in notified \cup todo \cup missed

\* Whatever was lost on the way, in the end the broker has the last value of
\* each attribute, overrides included: the full update sees to it.
BrokerCatchesUp ==
    <>[](\A id \in FullUpdateIds : \A a \in Attr :
            mMessage[id] # NoFrame => broker[id][a] = Shown(id, mMessage[id])[a])

=============================================================================
