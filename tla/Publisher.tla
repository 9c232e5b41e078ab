------------------------------ MODULE Publisher ------------------------------
(***************************************************************************)
(* task/MQTTTask.cpp: what a copied frame publishes.                       *)
(*                                                                         *)
(* updateHMIStatus .. updateExtraStatus build the message of the protocol's *)
(* version from the frame and from the one processed before, and publish   *)
(* the topics compareWith says have changed; every 30 minutes all of them. *)
(* Once per connection, sendHomeassistantDiscovery announces the entities  *)
(* that read these topics.                                                 *)
(*                                                                         *)
(* A step is one of these calls.  The connection may break at any time,    *)
(* within a call too, and is lost for a while before that is noticed: what *)
(* is published then is gone, but counts as processed.                     *)
(*                                                                         *)
(* When frames come is MQTTTask.tla's matter.  The values of updateStats   *)
(* are left out, and so is what publishFloat and its like print of a value.*)
(***************************************************************************)
EXTENDS Topics, Naturals

Discovery == INSTANCE MQTTDiscovery

CONSTANTS
    Setups,     \* heat pumps: a version, AquaMQTT's configuration, the frames sent, and
                \* (a bound) whether statistics and entities are published as well
    Estimates,  \* what the filters may estimate
    Initial,    \* the estimate they start with
    Cuts,       \* topics that are not published when the connection breaks within a call
    MaxLosses,  \* bound: how often the connection breaks
    NoFrame

ASSUME PublisherAssumption ==
    /\ \A s \in Setups :
          /\ s.version \in {"LEGACY", "NEXT", "ODYSSEE"}
          /\ s.config \in [mode : {"MITM", "LISTENER"}, statistics : BOOLEAN,
                               timeAndDate : BOOLEAN, filterNoise : BOOLEAN,
                               climateCard : BOOLEAN]
          /\ \A kind \in KindsOf(s.version) : NoFrame \notin s.frames[kind]
    /\ Initial \in Estimates

VARIABLES
    setup,                 \* chosen once
    last,                  \* mLastProcessedHMIMessage .. mLastProcessedExtraMessage
    estimate,              \* mHotWaterTempFiltered and its like, if they are what is shown
    mPublishedDiscovery,
    connection,            \* "up", "lost" but not noticed, or "closed"
    broker,                \* the last value of each topic published
    entities,              \* what Home Assistant was told of
    lagging,               \* topics whose value was lost; history
    losses                 \* how often the connection may yet break

vars == <<setup, last, estimate, mPublishedDiscovery, connection, broker, entities, lagging, losses>>

version == setup.version
config == setup.config

LastWill == <<"stats", "lwlState">>

\* The topics that show estimates.
EstimateTopics == IF config.filterNoise THEN FilteredTopics(version) ELSE {}

Init ==
    /\ setup \in Setups
    /\ last = [kind \in KindsOf(version) |-> NoFrame]
    /\ estimate = [topic \in EstimateTopics |-> Initial]
    /\ mPublishedDiscovery = FALSE
    /\ connection = "closed"
    /\ broker = [topic \in {LastWill} |-> "OFFLINE"]
    /\ entities = {}
    /\ lagging = EstimateTopics
    /\ losses = MaxLosses

\* Every topic g has a value for takes it.
Merged(f, g) ==
    [t \in DOMAIN f \cup DOMAIN g |-> IF t \in DOMAIN g THEN g[t] ELSE f[t]]

-----------------------------------------------------------------------------
(* The topics of a frame *)

\* publishul takes an unsigned long: of eight bytes it prints four.
Printed(v, kind, attr) ==
    Message(v, kind).reads[attr] \
        (IF v = "LEGACY" /\ attr = "TOTAL_ENERGY" THEN Bytes(27 .. 30) ELSE {})

\* The value of a topic: of each of its attributes the bits printed.
Value(v, kind, attrs, frame) == [attr \in attrs |-> frame \cap Printed(v, kind, attr)]

\* Without the noise filter, the temperatures are topics like any other.
TopicRows(v, c, kind) ==
    Publishable(v, kind, c.timeAndDate) \cup
    (IF kind = "MAIN" /\ ~c.filterNoise
     THEN { <<topic, Filtered[topic[2]]>> : topic \in FilteredTopics(v) } ELSE {})

TopicsOf(v, c, kind) == { row[1] : row \in TopicRows(v, c, kind) }

ValueOf(v, c, kind, frame) ==
    LET rows == TopicRows(v, c, kind) IN
    [topic \in TopicsOf(v, c, kind) |->
        Value(v, kind, (CHOOSE row \in rows : row[1] = topic)[2], frame)]

-----------------------------------------------------------------------------
(* What is published, and what of it is lost *)

Breaks ==
    /\ connection = "up"
    /\ connection' = "lost"
    /\ losses > 0
    /\ losses' = losses - 1

\* Of what a call sends, these parts may be lost: none, or one that a break of the
\* connection cuts off; all, once it is lost.
Losses(sent, cutOff) == IF connection = "up" THEN {{}} \cup cutOff ELSE {sent}

\* publish() tells whether the connection is still there; nobody asks.
Loses(lost) ==
    \/ lost = {} /\ connection # "closed" /\ UNCHANGED <<connection, losses>>
    \/ lost # {} /\ connection = "lost" /\ UNCHANGED <<connection, losses>>
    \/ lost # {} /\ Breaks

\* These values are published, after which the topics due are up to date, unless
\* theirs are lost.
Publish(values, due) ==
    \E lost \in Losses(DOMAIN values, { cut \cap DOMAIN values : cut \in Cuts }) :
        /\ Loses(lost)
        /\ broker' = Merged(broker, [topic \in DOMAIN values \ lost |-> values[topic]])
        /\ lagging' = (lagging \ (due \cup DOMAIN values)) \cup lost

-----------------------------------------------------------------------------
(* loop() *)

MutantChanged(kind, frame, full) ==
    LET message == Message(version, kind) IN
    IF last[kind] = NoFrame THEN message.has
    ELSE Marked(message.marks, last[kind], frame)

\* hasChanged of a message created with the frame processed before, or none.
Changed(kind, frame, full) ==
    LET message == Message(version, kind) IN
    IF full \/ last[kind] = NoFrame THEN message.has
    ELSE Marked(message.marks, last[kind], frame)

\* "publish the error number to the request id"
ErrorNumber(kind, frame, full) ==
    LET reads == Message(version, kind).reads
        id    == { bit[2] : bit \in frame \cap reads.HMI_ERROR_ID_REQUESTED }
    IN IF /\ kind = "HMI"
          /\ "HMI_ERROR_ID_REQUESTED" \in Changed(kind, frame, full)
          /\ id # {}
       THEN [topic \in {<<"error", id, "errorNumber">>} |->
                frame \cap reads.HMI_ERROR_NO_REQUESTED]
       ELSE <<>>

MutantEstimated(kind, new, full) ==
    [topic \in { t \in EstimateTopics : kind = "MAIN" /\ full } |-> new[topic]]

\* publishFiltered, for every topic: an estimate that moves is published.  That
\* the estimates move together is a bound.
Estimated(kind, new, full) ==
    [topic \in { t \in EstimateTopics : kind = "MAIN" /\ (full \/ new[t] # estimate[t]) } |-> new[topic]]

MutantPublished(kind, frame, full) ==
    LET changed == Changed(kind, frame, full)
        value   == ValueOf(version, config, kind, frame)
    IN [topic \in { row[1] : row \in { r \in TopicRows(version, config, kind) :
                                          r[2] \subseteq changed } } |-> value[topic]]

\* A topic is published if any of its attributes has changed.
Published(kind, frame, full) ==
    LET changed == Changed(kind, frame, full)
        value   == ValueOf(version, config, kind, frame)
    IN [topic \in { row[1] : row \in { r \in TopicRows(version, config, kind) :
                                          r[2] \cap changed # {} } } |-> value[topic]]

\* What a frame should leave up to date: all of its topics if it is the first of
\* its kind or the update a full one, and the estimates that move.
Due(kind, new, full) ==
    (IF full \/ last[kind] = NoFrame THEN TopicsOf(version, config, kind) ELSE {})
        \cup { topic \in EstimateTopics :
                  kind = "MAIN" /\ (full \/ new[topic] # estimate[topic]) }

\* The frame and the estimates are kept whatever became of their values.
Update(kind, frame, full) ==
    /\ \E new \in IF kind = "MAIN" THEN { [t \in EstimateTopics |-> e] : e \in Estimates }
                 ELSE {estimate} :
          /\ estimate' = new
          /\ Publish(Merged(Merged(Published(kind, frame, full), Estimated(kind, new, full)),
                            ErrorNumber(kind, frame, full)),
                     Due(kind, new, full))
    /\ last' = [last EXCEPT ![kind] = frame]
    /\ UNCHANGED <<setup, mPublishedDiscovery, entities>>

ErrorPicture(v, frame) ==
    LET reads == Error!ErrorMessage(v).reads
        id    == { bit[2] : bit \in frame \cap reads.ERROR_REQUEST_ID }
    IN [topic \in { <<"error", id, row[1]>> : row \in ErrorRows(v) } |->
           [attr \in ErrorTopics[topic[3]] |-> frame \cap reads[attr]]]

\* updateErrorStatus
UpdateError(frame) ==
    /\ Publish(IF Error!IsEmpty(version, frame) THEN <<>> ELSE ErrorPicture(version, frame), {})
    /\ UNCHANGED <<setup, last, estimate, mPublishedDiscovery, entities>>

StatisticsTopics(c) ==
    LET received == {"msgHandled", "msgUnhandled", "msgCRCNOK", "droppedBytes"} IN
    IF ~c.statistics THEN {}
    ELSE IF c.mode = "LISTENER" THEN {"stats"} \X received
    ELSE {"stats"} \X {"hmi", "main"} \X (received \cup {"msgSent"})

OverrideTopics(c) ==
    IF c.mode = "LISTENER" THEN {}
    ELSE ({"stats"} \X {"overrideMode", "flagPVModeHeatPump", "flagPVModeHeatElement"})
         \cup ({"stats"} \X {"activeOverrides"} \X
                  {"operationMode", "operationType", "waterTempTarget", "heatingElementEnabled",
                   "emergencyModeEnabled", "configInstallation", "configFanExhaust",
                   "configAirduct", "time/date"})
         \cup ({"stats"} \X {"activeOverridesMain"} \X {"statePV", "stateSolar"})

StatsTopics(c) ==
    ({"stats"} \X {"aquamqttMode", "ipAddress", "rssiDb", "protocolVersion"})
        \cup StatisticsTopics(c) \cup OverrideTopics(c)

\* The values are left out.
UpdateStats ==
    /\ setup.others
    /\ Publish([topic \in StatsTopics(config) |-> <<>>], {})
    /\ UNCHANGED <<setup, last, estimate, mPublishedDiscovery, entities>>

Announce(announced) ==
    /\ setup.others
    /\ ~mPublishedDiscovery
    /\ mPublishedDiscovery' = TRUE
    /\ \E lost \in Losses(announced,
                          { { entity \in announced : entity.reads \cap cut # {} } : cut \in Cuts }) :
          /\ Loses(lost)
          /\ entities' = entities \cup (announced \ lost)
    /\ UNCHANGED <<setup, last, estimate, broker, lagging>>

MutantSendDiscovery == Announce(Discovery!Entities("UNKNOWN", config))

\* sendHomeassistantDiscovery, as soon as the protocol is known.
SendDiscovery == Announce(Discovery!Entities(version, config))

\* check_mqtt_connection
Connect ==
    /\ connection = "closed"
    /\ connection' = "up"
    /\ broker' = [broker EXCEPT ![LastWill] = "ONLINE"]
    /\ mPublishedDiscovery' = FALSE
    /\ UNCHANGED <<setup, last, estimate, entities, lagging, losses>>

ConnectionLost ==
    /\ Breaks
    /\ UNCHANGED <<setup, last, estimate, mPublishedDiscovery, broker, entities, lagging>>

\* The broker publishes the last will; all topics keep their values.
NoticesLoss ==
    /\ connection = "lost"
    /\ connection' = "closed"
    /\ broker' = [broker EXCEPT ![LastWill] = "OFFLINE"]
    /\ UNCHANGED <<setup, last, estimate, mPublishedDiscovery, entities, lagging, losses>>

\* AquaMQTT starts again; its filters have estimated nothing yet.
Restart ==
    /\ connection' = "closed"
    /\ broker' = [broker EXCEPT ![LastWill] = "OFFLINE"]
    /\ last' = [kind \in KindsOf(version) |-> NoFrame]
    /\ estimate' = [topic \in EstimateTopics |-> Initial]
    /\ lagging' = lagging \cup EstimateTopics
    /\ mPublishedDiscovery' = FALSE
    /\ UNCHANGED <<setup, entities, losses>>

Next ==
    \/ \E kind \in KindsOf(version) : \E frame \in setup.frames[kind] :
          \E full \in BOOLEAN : Update(kind, frame, full)
    \/ \E frame \in setup.errors : UpdateError(frame)
    \/ UpdateStats
    \/ SendDiscovery
    \/ Connect
    \/ ConnectionLost
    \/ NoticesLoss
    \/ Restart

Spec == Init /\ [][Next]_vars

-----------------------------------------------------------------------------
(* Properties *)

TypeOK ==
    /\ setup \in Setups
    /\ DOMAIN last = KindsOf(version)
    /\ \A kind \in KindsOf(version) : last[kind] \in setup.frames[kind] \cup {NoFrame}
    /\ estimate \in [EstimateTopics -> Estimates]
    /\ mPublishedDiscovery \in BOOLEAN
    /\ connection \in {"up", "lost", "closed"}
    /\ broker[LastWill] \in {"ONLINE", "OFFLINE"}
    /\ entities \subseteq Discovery!Entities(version, config)

Shows(topic, value) == topic \in DOMAIN broker /\ broker[topic] = value

\* Once a kind of frame was processed, each of its topics shows the value of the
\* last one, whichever frames published it: compareWith misses no change of a
\* value, and no other kind of frame publishes to the topic.  (Except topics whose
\* last value was lost; at the latest the next full update that gets through
\* brings them up to date.)
BrokerMirrorsLast ==
    \A kind \in KindsOf(version) :
        last[kind] # NoFrame =>
            LET values == ValueOf(version, config, kind, last[kind]) IN
            \A topic \in DOMAIN values \ lagging : Shows(topic, values[topic])

\* A filtered temperature shows the estimate, from the first that differs from
\* the 0.0 the filter starts with, or from the first full update if none does.
\* (Except one whose last value was lost, until the estimate moves again or the
\* next full update gets through.)
EstimatesAreShown ==
    \A topic \in EstimateTopics \ lagging : Shows(topic, estimate[topic])

\* A topic has attributes, all of which the version has.
RowsAreOfVersion(v, c) ==
    \A kind \in KindsOf(v) : \A row \in TopicRows(v, c, kind) :
        row[2] # {} /\ row[2] \subseteq Message(v, kind).has

\* compareWith marks an attribute for every byte its value is made of.
ReadsAreMarked(v, c) ==
    \A kind \in KindsOf(v) : \A row \in TopicRows(v, c, kind) :
        \A attr \in row[2] : \A bit \in Printed(v, kind, attr) :
            \E mark \in Message(v, kind).marks : bit[1] \in mark[1] /\ attr \in mark[2]

\* A topic belongs to one kind of frames, or is a filtered temperature.
TopicsAreApart(v, c) ==
    /\ \A kind, other \in KindsOf(v) :
          kind # other => TopicsOf(v, c, kind) \cap TopicsOf(v, c, other) = {}
    /\ c.filterNoise =>
          \A kind \in KindsOf(v) : TopicsOf(v, c, kind) \cap FilteredTopics(v) = {}

\* Every source publishes something.
NoSourceIsSilent(v, c) ==
    ErrorRows(v) # {} /\ \A kind \in KindsOf(v) : TopicsOf(v, c, kind) # {}

Agree(v, c) ==
    /\ RowsAreOfVersion(v, c)
    /\ ReadsAreMarked(v, c)
    /\ TopicsAreApart(v, c)
    /\ NoSourceIsSilent(v, c)

AgreeingSetups == { s \in Setups : Agree(s.version, s.config) }

\* The tables of message/<version>/ and the topics of task/MQTTTask.cpp agree.
TablesAgree == setup \in AgreeingSetups

\* An entity of Home Assistant is not without a state for ever: once frames of
\* the kinds its topics belong to were processed, and the statistics published,
\* each topic it reads has a value, or the value was lost.
NoEntityIsEmpty ==
    \A entity \in entities : \A topic \in entity.reads :
        \/ topic \in DOMAIN broker \cup lagging
        \/ \E kind \in KindsOf(version) :
              Subtopic[kind] = topic[1] /\ last[kind] = NoFrame
        \/ topic[1] = "stats" /\ <<"stats", "aquamqttMode">> \notin DOMAIN broker \cup lagging

\* Topics Home Assistant is not told of.  The entity for anti dry heating reads
\* capabilityCommunication (MQTTDiscovery.h:1169).
Unannounced == { <<"stats", "protocolVersion">>, <<"main", "capabilityAntiDryHeating">> }

\* Once a connection has announced the entities, and while it lasts, every topic
\* but these and those of errors has one that reads it: MQTTDiscovery.h knows what
\* the version publishes, and what a lost connection announced is announced again.
EveryTopicIsAnnounced ==
    connection = "up" /\ mPublishedDiscovery =>
        \A topic \in DOMAIN broker \ Unannounced :
            topic[1] = "error" \/ \E entity \in entities : topic \in entity.reads

-----------------------------------------------------------------------------
(* Refinement *)

\* The sources of what is shown: kinds of frames, and errors by request id.
ErrorPictures(s) ==
    { ErrorPicture(s.version, frame) :
        frame \in { f \in s.errors : ~Error!IsEmpty(s.version, f) } }

RequestId(picture) == (CHOOSE topic \in DOMAIN picture : TRUE)[2]

Sources(s) ==
    { <<kind>> : kind \in KindsOf(s.version) }
        \cup { <<"ERROR", RequestId(picture)>> : picture \in ErrorPictures(s) }

PicturesOf(s, source) ==
    IF source[1] = "ERROR"
    THEN { picture \in ErrorPictures(s) : RequestId(picture) = source[2] }
    ELSE { ValueOf(s.version, s.config, source[1], frame) : frame \in s.frames[source[1]] }

Pictures == [s \in Setups |-> [source \in Sources(s) |-> PicturesOf(s, source)]]

SourceTopics ==
    [s \in Setups |-> [source \in Sources(s) |->
        IF source[1] = "ERROR"
        THEN { <<"error", source[2], row[1]>> : row \in ErrorRows(s.version) }
        ELSE TopicsOf(s.version, s.config, source[1])]]

TopicsOfSource(source) == SourceTopics[setup][source]

PictureShown(source) == [topic \in TopicsOfSource(source) \cap DOMAIN broker |-> broker[topic]]

Abstract ==
    INSTANCE Mirror WITH
        pictures <- Pictures[setup],
        shown    <- [source \in DOMAIN Pictures[setup] |-> PictureShown(source)],
        torn     <- { source \in DOMAIN Pictures[setup] : TopicsOfSource(source) \cap lagging # {} }

\* The topics of a source show nothing or the picture of one whole frame, unless
\* what a frame published was lost: from then until it is repaired they may show a
\* mixture, yet no value that none of its frames has.
ImplementsMirror == Abstract!Spec

=============================================================================
