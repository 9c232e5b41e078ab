---------------------------- MODULE OverrideBytes ----------------------------
(***************************************************************************)
(* state/HMIStateProxy.cpp on the bytes of frame 194: what a user selects, *)
(* what is written to the controller, and what is shown of it.             *)
(*                                                                         *)
(* Home Assistant sends an option MQTTDiscovery.h offers; messageReceived  *)
(* turns it into an override; applyHMIOverrides writes it, with the time,  *)
(* to the bytes of the next frame; and getAttr and the ...Str functions of *)
(* MessageConstants.h make an option of the bytes again.  Overrides.tla    *)
(* does the same with records of values, and is implemented by this.       *)
(***************************************************************************)
EXTENDS HMISetters, Integers, Functions

Discovery == INSTANCE MQTTDiscovery

CONSTANTS
    Versions, None,
    TargetTemperatures,  \* what MQTT clients ask for, in tenths of a degree
    Times,               \* what updateTime is called with
    Frames,              \* for each version, payloads the HMI sends
    Combinations         \* overrides, PV flags and time in use together

\* The year has seven bits in the frame, from 2000 on.
Years == 2000 .. 2127

Clock == [seconds : 0 .. 59, minutes : 0 .. 59, hours : 0 .. 23,
          day : 1 .. 31, month : 1 .. 12, year : Years]

ASSUME OverrideBytesAssumption ==
    /\ Versions \subseteq {"LEGACY", "NEXT", "ODYSSEE"}
    /\ TargetTemperatures \subseteq Nat
    /\ Times \subseteq Clock /\ None \notin Times
    /\ None \notin TargetTemperatures /\ None \notin BOOLEAN
    /\ \A v \in Versions : \A frame \in Frames[v] :
          Get(v, "EMERGENCY_MODE_ENABLED", frame) /\ v # "ODYSSEE" =>
              Get(v, "HEATING_ELEMENT_ALLOWED", frame)

MAX_WATER_TEMPERATURE     == 620
ABSENCE_WATER_TEMPERATURE == 200

VARIABLES
    version,
    override,      \* mOperationMode .. mHeatingElementEnabled
    hmiFlags,      \* mPVModeHeatPump, mPVModeHeatElement
    mainFlags,     \* MainStateProxy's
    received,      \* the flag messageReceived still has to tell MainStateProxy, or None
    time,          \* mTimeHours .. mTimeYear, None unless mTimeIsSet
    sent           \* the payload last written to the controller

vars == <<version, override, hmiFlags, mainFlags, received, time, sent>>

Topics == {"configInstallation", "operationMode", "operationType", "configFanExhaust",
           "configAirduct", "heatingElementEnabled", "emergencyModeEnabled", "waterTempTarget"}

Init ==
    /\ version \in Versions
    /\ override = [topic \in Topics |-> None]
    /\ hmiFlags = [heatPump |-> FALSE, heatElement |-> FALSE]
    /\ mainFlags = hmiFlags
    /\ received = None
    /\ time = None
    /\ sent \in Frames[version]

InForce == { topic \in Topics : override[topic] # None }

NoFlag == hmiFlags = [heatPump |-> FALSE, heatElement |-> FALSE]

\* With the flag that is on its way to MainStateProxy.
InUse == InForce \cup { flag \in DOMAIN hmiFlags : hmiFlags[flag] \/ flag = received }
                 \cup (IF time = None THEN {} ELSE {"time"})

-----------------------------------------------------------------------------
(* Options *)

\* The attribute a topic shows and sets, and the option for each of its values.
Attribute ==
    [configInstallation    |-> "STATE_INSTALLATION_MODE",
     operationMode         |-> "OPERATION_MODE",
     operationType         |-> "OPERATION_TYPE",
     configFanExhaust      |-> "CONFIG_FAN_EXHAUST",
     configAirduct         |-> "CONFIG_AIRDUCT",
     heatingElementEnabled |-> "HEATING_ELEMENT_ALLOWED",
     emergencyModeEnabled  |-> "EMERGENCY_MODE_ENABLED"]

Flags == {"heatingElementEnabled", "emergencyModeEnabled"}

Strings ==
    [configInstallation |->
        [HP_ONLY             |-> "HEAT PUMP ONLY",
         HP_AND_EXT_PRIO_HP  |-> "BOILER BACKUP / HEAT PUMP PRIORITY",
         HP_AND_EXT_OPT_HP   |-> "BOILER BACKUP / HEAT PUMP OPTIMIZED",
         HP_AND_EXT_OPT_EXT  |-> "BOILER BACKUP / BOILER OPTIMIZED",
         HP_AND_EXT_PRIO_EXT |-> "BOILER BACKUP / BOILER PRIORITY",
         HP_AND_SOLAR        |-> "HEAT PUMP AND SOLAR BACKUP"],
     operationMode |->
        [ABSENCE |-> "ABSENCE", ECO_ACTIVE |-> "MAN ECO ON", ECO_INACTIVE |-> "MAN ECO OFF",
         BOOST |-> "BOOST", AUTO |-> "AUTO"],
     operationType |->
        [ALWAYS_ON |-> "ALWAYS ON", TIMER |-> "TIME WINDOW", OFF_PEAK_HOURS |-> "OFF-PEAK HOURS"],
     configFanExhaust |->
        [STOP |-> "STOP", LOW_SPEED |-> "LOW SPEED", HIGH_SPEED |-> "HIGH SPEED"],
     configAirduct |->
        [INT_INT |-> "INT/INT", INT_EXT |-> "INT/EXT", EXT_EXT |-> "EXT/EXT"]]

ASSUME NoneAssumption == \A topic \in DOMAIN Strings : None \notin DOMAIN Strings[topic]

\* publishString of a ...Str function, publishi of a flag.
Shown(topic, payload) ==
    LET value == Get(version, Attribute[topic], payload) IN
    CASE topic \in Flags                                      -> IF value THEN "1" ELSE "0"
      [] topic \notin Flags /\ value = "UNKNOWN"            -> "UNKNOWN"
      [] topic \notin Flags /\ value # "UNKNOWN"            -> Strings[topic][value]

\* messageReceived: what names no value is the end of the override.
Selected(topic, option) ==
    IF topic \in Flags THEN IF option = "" THEN None ELSE option = "1"
    ELSE LET meant == { v \in DOMAIN Strings[topic] : Strings[topic][v] = option } IN
         IF meant = {} THEN None ELSE CHOOSE v \in meant : TRUE

\* What Home Assistant offers for a topic.
Offered(topic) ==
    LET config   == [mode |-> "MITM"]
        entities == { e \in Discovery!Selects(version, config)
                            \cup Discovery!Switches(version, config) : topic \in e.writes }
    IN UNION { e.options : e \in entities }

-----------------------------------------------------------------------------
(* applyHMIOverrides *)

SetInstallation(value, p) == SetField(version, "STATE_INSTALLATION_MODE", value, p)

PVMode(mode, p) ==
    SetTemperature(version, MAX_WATER_TEMPERATURE,
        SetMode(version, mode, SetType(version, "ALWAYS_ON", SetInstallation("HP_ONLY", p))))

PVHeatPumpOnly(p) ==
    SetElement(version, FALSE, SetEmergency(version, FALSE,
        PVMode(IF version = "ODYSSEE" THEN "ECO_ACTIVE" ELSE "ECO_INACTIVE", p)))

PVHeatElementOnly(p) ==
    SetElement(version, TRUE, SetEmergency(version, TRUE, PVMode("ECO_INACTIVE", p)))

PVFull(p) == PVMode("BOOST", p)

\* A setter is called if there is a value.
Or(value, set(_, _), p) == IF value = None THEN p ELSE set(value, p)

OverrideTemperature(p) ==
    IF /\ override.waterTempTarget # None
       /\ override.waterTempTarget \in ABSENCE_WATER_TEMPERATURE .. MAX_WATER_TEMPERATURE
    THEN SetTemperature(version, override.waterTempTarget, p) ELSE p

\* BOOST and ABSENCE decide the target temperature, too.
OverrideMode(p) ==
    LET mode == override.operationMode
        q    == SetMode(version, mode, p)
    IN CASE mode = None      -> p
         [] mode = "BOOST"   -> SetTemperature(version, MAX_WATER_TEMPERATURE, q)
         [] mode = "ABSENCE" -> SetTemperature(version, ABSENCE_WATER_TEMPERATURE, q)
         [] OTHER            -> q

Standard(p) ==
    LET SetFan(value, q)     == SetField(version, "CONFIG_FAN_EXHAUST", value, q)
        SetAirduct(value, q) == SetField(version, "CONFIG_AIRDUCT", value, q)
        Type(value, q)       == SetType(version, value, q)
        Element(value, q)    == SetElement(version, value, q)
        Emergency(value, q)  == SetEmergency(version, value, q)
        settings ==
            Or(override.configAirduct, SetAirduct,
               Or(override.configFanExhaust, SetFan,
                  Or(override.configInstallation, SetInstallation, OverrideTemperature(p))))
    IN Or(override.emergencyModeEnabled, Emergency,
          Or(override.heatingElementEnabled, Element,
             Or(override.operationType, Type, OverrideMode(settings))))

\* "if time has been set by rtc / ntp, override time and date in hmi message"
ApplyHMIOverrides(p) ==
    LET q == CASE hmiFlags.heatPump /\ hmiFlags.heatElement   -> PVFull(p)
               [] hmiFlags.heatPump /\ ~hmiFlags.heatElement  -> PVHeatPumpOnly(p)
               [] ~hmiFlags.heatPump /\ hmiFlags.heatElement  -> PVHeatElementOnly(p)
               [] ~hmiFlags.heatPump /\ ~hmiFlags.heatElement -> Standard(p)
    IN IF time = None THEN q ELSE SetTime(version, time, q)

\* getOverrides, and mTimeIsSet: the attributes said to be overridden.
GetOverrides ==
    LET pv == {"operationMode", "operationType", "waterTempTarget", "configInstallation"} IN
    CASE hmiFlags.heatPump /\ hmiFlags.heatElement   -> pv
      [] hmiFlags.heatPump # hmiFlags.heatElement    -> pv \cup Flags
      [] ~hmiFlags.heatPump /\ ~hmiFlags.heatElement -> InForce

-----------------------------------------------------------------------------
(* Actions *)

Bounded == InUse \in Combinations

\* Any client may send an option, offered or not, or a payload that names none.
OnOption(topic) ==
    /\ received = None
    /\ \E option \in (IF topic \in Flags THEN {"1", "0"} ELSE Range(Strings[topic])) \cup {""} :
          override' = [override EXCEPT ![topic] = Selected(topic, option)]
    /\ UNCHANGED <<version, hmiFlags, mainFlags, received, time, sent>>
    /\ Bounded'

OnWaterTempTarget ==
    /\ received = None
    /\ \E value \in TargetTemperatures \cup {None} :
          override' = [override EXCEPT !.waterTempTarget = value]
    /\ UNCHANGED <<version, hmiFlags, mainFlags, received, time, sent>>
    /\ Bounded'

OnResetOverrides ==
    /\ received = None
    /\ override' = [topic \in Topics |-> None]
    /\ UNCHANGED <<version, hmiFlags, mainFlags, received, time, sent>>

OnPVModeEnabled(flag, enabled) ==
    /\ received = None
    /\ hmiFlags' = [hmiFlags EXCEPT ![flag] = enabled]
    /\ received' = flag
    /\ UNCHANGED <<version, override, mainFlags, time, sent>>
    /\ Bounded'

MainOnPVModeEnabled ==
    /\ received # None
    /\ mainFlags' = [mainFlags EXCEPT ![received] = hmiFlags[received]]
    /\ received' = None
    /\ UNCHANGED <<version, override, hmiFlags, time, sent>>

\* RTCHandler::loop; once set, the time is never unset.
UpdateTime ==
    /\ time' \in Times
    /\ UNCHANGED <<version, override, hmiFlags, mainFlags, received, sent>>
    /\ Bounded'

\* ControllerTask::sendMessage194
SendHmiFrame(frame) ==
    /\ UNCHANGED <<version, override, hmiFlags, mainFlags, received, time>>
    /\ sent' = ApplyHMIOverrides(frame)

Next ==
    \/ \E topic \in DOMAIN Attribute : OnOption(topic)
    \/ OnWaterTempTarget
    \/ OnResetOverrides
    \/ \E flag \in {"heatPump", "heatElement"}, enabled \in BOOLEAN :
          OnPVModeEnabled(flag, enabled)
    \/ MainOnPVModeEnabled
    \/ UpdateTime
    \/ \E frame \in Frames[version] : SendHmiFrame(frame)

Spec == Init /\ [][Next]_vars

-----------------------------------------------------------------------------
(* Properties *)

\* The bits an attribute is read from; ODYSSEE reads mode and type from one byte.
BitsOfTopic(topic) ==
    LET reads == HMIMessage(version).reads
        attr  == IF topic = "waterTempTarget" THEN "WATER_TARGET_TEMPERATURE"
                 ELSE IF version = "ODYSSEE" /\ topic = "operationType" THEN "OPERATION_MODE"
                 ELSE Attribute[topic]
    IN IF attr \in DOMAIN reads THEN reads[attr] ELSE {}

BitsOfTime ==
    UNION { HMIMessage(version).reads[attr] : attr \in TimeAndDate \cap DOMAIN HMIMessage(version).reads }

\* "Operation Mode BOOST overrides target temperature", and so does ABSENCE.
OverriddenTopics ==
    GetOverrides \cup (IF NoFlag /\ override.operationMode \in {"BOOST", "ABSENCE"}
                       THEN {"waterTempTarget"} ELSE {})

OverriddenBits ==
    (UNION { BitsOfTopic(topic) : topic \in OverriddenTopics })
        \cup (IF time = None THEN {} ELSE BitsOfTime)

\* ODYSSEE: neither mode nor type is changed if the byte of both is unknown.
ByteUnknown(frame) ==
    version = "ODYSSEE" /\ "UNKNOWN" \in {Get(version, "OPERATION_MODE", frame),
                                           Get(version, "OPERATION_TYPE", frame)}

\* Of the HMI's frame, the controller gets every bit but those of what AquaMQTT
\* says it overrides (getOverrides), and of those that share a byte, mode and
\* type, each keeps its value without an override of its own.
OnlyOverriddenChanges ==
    [][\A frame \in Frames[version] : SendHmiFrame(frame) =>
        /\ frame \ OverriddenBits = sent' \ OverriddenBits
        /\ \A topic \in {"operationMode", "operationType"} \ OverriddenTopics :
              ByteUnknown(frame) \/ Shown(topic, sent') = Shown(topic, frame)]_vars

\* A setter, or a bit no setter writes, stands against the override.
Refused(topic, frame) ==
    \/ topic \in {"operationMode", "operationType"} /\ ByteUnknown(frame)
    \/ topic = "heatingElementEnabled" /\ override[topic] = FALSE
          /\ Get(version, "EMERGENCY_MODE_ENABLED", frame)
    \/ topic = "emergencyModeEnabled" /\ override[topic] = TRUE
          /\ version # "ODYSSEE" /\ Shown("heatingElementEnabled", sent') = "0"
    \/ topic = "configAirduct"
          /\ frame \cap Mask(Fields(version).CONFIG_AIRDUCT.byte, \hC0) # {}

\* What a user selects from what Home Assistant offers is what it shows, once
\* the next frame has passed without a PV mode; a temperature, less than a degree
\* below, or a tenth where the heat pump knows tenths.
SelectedIsShown ==
    [][\A frame \in Frames[version] : NoFlag /\ InForce # {} /\ SendHmiFrame(frame) =>
        /\ \A topic \in InForce \ {"waterTempTarget"} :
              \A option \in Offered(topic) : Selected(topic, option) = override[topic] =>
                  Refused(topic, frame) \/ Shown(topic, sent') = option
        /\ LET value == override.waterTempTarget
               lost  == value - GetTemperature(version, sent')
           IN (value # None /\ value \in ABSENCE_WATER_TEMPERATURE .. MAX_WATER_TEMPERATURE
                  /\ override.operationMode \notin {"BOOST", "ABSENCE"}) =>
                 lost \in (IF version = "LEGACY" THEN {0, 1} ELSE 0 .. 9)]_vars

\* The controller's time is AquaMQTT's, in every month.
TimeIsShown ==
    [][\A frame \in Frames[version] : time # None /\ SendHmiFrame(frame) =>
        GetTime(version, sent') =
            [time EXCEPT !.seconds = IF version = "ODYSSEE" THEN 0 ELSE time.seconds]]_vars

-----------------------------------------------------------------------------
(* Refinement *)

\* A frame of Overrides.tla; what the version lacks has one value.
Decode(v, payload) ==
    [installation      |-> IF v = "ODYSSEE" THEN "HP_ONLY"
                           ELSE Get(v, "STATE_INSTALLATION_MODE", payload),
     operationMode     |-> Get(v, "OPERATION_MODE", payload),
     operationType     |-> Get(v, "OPERATION_TYPE", payload),
     targetTemperature |-> GetTemperature(v, payload),
     heatingElement    |-> v = "ODYSSEE" \/ Get(v, "HEATING_ELEMENT_ALLOWED", payload),
     emergencyMode     |-> Get(v, "EMERGENCY_MODE_ENABLED", payload)]

DecodedFrames == UNION { { Decode(v, frame) : frame \in Frames[v] } : v \in Versions }

Abstract ==
    INSTANCE Overrides WITH
        Installations <- DOMAIN LegacyFields.STATE_INSTALLATION_MODE.code,
        OperationModes <- DOMAIN Strings.operationMode,
        OperationTypes <- DOMAIN Strings.operationType,
        MaxOverrides <- 6,
        HMIFrames <- DecodedFrames,
        override <- [installation      |-> override.configInstallation,
                     operationMode     |-> override.operationMode,
                     operationType     |-> override.operationType,
                     targetTemperature |-> override.waterTempTarget,
                     heatingElement    |-> override.heatingElementEnabled,
                     emergencyMode     |-> override.emergencyModeEnabled],
        sent <- Decode(version, sent)

\* The setters do to the bytes what Overrides.tla says they do to the values.
ImplementsOverrides == Abstract!Spec

=============================================================================
