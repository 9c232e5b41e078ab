------------------------------ MODULE Overrides ------------------------------
(***************************************************************************)
(* state/HMIStateProxy.cpp and state/MainStateProxy.cpp: what MQTT control *)
(* messages change in the frames that pass through AquaMQTT.               *)
(*                                                                         *)
(* MQTTTask sets overrides and the two PV flags.  ControllerTask copies    *)
(* the HMI's frame out of DHWState and then, in a second critical section, *)
(* applies them with the setters of message/<version>/HMIMessage.cpp: the  *)
(* frame may be any the HMI sent before.                                   *)
(*                                                                         *)
(* A frame is a record of the attributes that interact.  Left out: air     *)
(* duct, fan exhaust, time and date, which are set and touch nothing else. *)
(* Temperatures are in tenths of a degree.                                 *)
(***************************************************************************)
EXTENDS Integers, FiniteSets

HMI == INSTANCE HMISetters

CONSTANTS
    Versions,        \* protocol versions of the heat pump
    Installations, OperationModes, OperationTypes,  \* the enums, without UNKNOWN
    TargetTemperatures,  \* what an HMI or an MQTT client may ask for
    None,            \* no override
    MaxOverrides     \* overrides in force at a time

MAX_WATER_TEMPERATURE     == 620
ABSENCE_WATER_TEMPERATURE == 200

ASSUME OverridesAssumption ==
    /\ Versions \subseteq {"LEGACY", "NEXT", "ODYSSEE"}
    /\ MaxOverrides \in Nat
    /\ "HP_ONLY" \in Installations
    /\ {"ECO_ACTIVE", "ECO_INACTIVE", "BOOST", "ABSENCE", "AUTO"} \subseteq OperationModes
    /\ {"ALWAYS_ON", "TIMER", "OFF_PEAK_HOURS"} \subseteq OperationTypes
    /\ TargetTemperatures \subseteq Nat
    /\ None \notin {"heatPump", "heatElement"}
    /\ None \notin Installations \cup OperationModes \cup OperationTypes
    /\ None \notin TargetTemperatures /\ None \notin BOOLEAN

HMIFrame == [installation      : Installations,
             operationMode     : OperationModes \cup {"UNKNOWN"},
             operationType     : OperationTypes \cup {"UNKNOWN"},
             targetTemperature : Nat,
             heatingElement    : BOOLEAN,
             emergencyMode     : BOOLEAN]

Override == [installation      : Installations \cup {None},
             operationMode     : OperationModes \cup {None},
             operationType     : OperationTypes \cup {None},
             targetTemperature : TargetTemperatures \cup {None},
             heatingElement    : BOOLEAN \cup {None},
             emergencyMode     : BOOLEAN \cup {None}]

PVFlags == [heatPump : BOOLEAN, heatElement : BOOLEAN]

\* An HMI does not ask for the emergency mode with its element disabled.
CONSTANT HMIFrames  \* frames the HMI sends
ASSUME HMIFramesAssumption ==
    /\ HMIFrames \subseteq HMIFrame
    /\ \A frame \in HMIFrames : frame.emergencyMode => frame.heatingElement

VARIABLES
    version,
    override,      \* mOperationMode .. mHeatingElementEnabled of HMIStateProxy
    hmiFlags,      \* HMIStateProxy's PV flags
    mainFlags,     \* MainStateProxy's PV flags
    received,      \* the flag messageReceived still has to tell MainStateProxy, or None
    sent           \* the HMI frame last written to the controller

vars == <<version, override, hmiFlags, mainFlags, received, sent>>

NoOverride == [installation |-> None, operationMode |-> None, operationType |-> None,
               targetTemperature |-> None, heatingElement |-> None, emergencyMode |-> None]

Init ==
    /\ version \in Versions
    /\ override = NoOverride
    /\ hmiFlags = [heatPump |-> FALSE, heatElement |-> FALSE]
    /\ mainFlags = hmiFlags
    /\ received = None
    /\ sent \in HMIFrames

-----------------------------------------------------------------------------
(* The setters of HMIMessage, for each version *)

SetInstallation(f, value) ==
    IF version = "ODYSSEE" THEN f ELSE [f EXCEPT !.installation = value]

\* ODYSSEE keeps both in one byte, which is cleared if it does not know one.
SetModeAndType(f, mode, type) ==
    IF version = "ODYSSEE" /\ "UNKNOWN" \in {mode, type}
    THEN [f EXCEPT !.operationMode = "AUTO", !.operationType = "OFF_PEAK_HOURS"]
    ELSE [f EXCEPT !.operationMode = mode, !.operationType = type]

SetOperationMode(f, value) == SetModeAndType(f, value, f.operationType)

\* "operation type off-peak hours is unsupported" by the others
SetOperationType(f, value) ==
    IF version # "ODYSSEE" /\ value = "OFF_PEAK_HOURS"
    THEN f ELSE SetModeAndType(f, f.operationMode, value)

\* "this heatpump does not support decimals"
SetTargetTemperature(f, value) ==
    [f EXCEPT !.targetTemperature = IF version = "LEGACY" THEN HMI!Tenths(value)
                                                          ELSE 10 * (value \div 10)]

MutantSetEmergencyMode(f, value) == [f EXCEPT !.emergencyMode = value]

\* "You cannot activate emergency mode if heating element is disabled"
SetEmergencyMode(f, value) ==
    IF version # "ODYSSEE" /\ value /\ ~f.heatingElement
    THEN f ELSE [f EXCEPT !.emergencyMode = value]

\* "You cannot disable heating element if emergency mode is activated"
SetHeatingElement(f, value) ==
    IF version = "ODYSSEE" \/ (~value /\ f.emergencyMode)
    THEN f ELSE [f EXCEPT !.heatingElement = value]

-----------------------------------------------------------------------------
(* applyHMIOverrides: a chain of setters, in the order of the code *)

\* All three PV modes start alike.
PVMode(f, mode) ==
    SetTargetTemperature(
        SetOperationMode(
            SetOperationType(SetInstallation(f, "HP_ONLY"), "ALWAYS_ON"), mode),
        MAX_WATER_TEMPERATURE)

MutantPVHeatPumpOnly(f) ==
    SetEmergencyMode(
        SetHeatingElement(
            PVMode(f, IF version = "ODYSSEE" THEN "ECO_ACTIVE" ELSE "ECO_INACTIVE"),
            FALSE),
        FALSE)

PVHeatPumpOnly(f) ==
    SetHeatingElement(
        SetEmergencyMode(
            PVMode(f, IF version = "ODYSSEE" THEN "ECO_ACTIVE" ELSE "ECO_INACTIVE"),
            FALSE),
        FALSE)

PVHeatElementOnly(f) ==
    SetHeatingElement(SetEmergencyMode(PVMode(f, "ECO_INACTIVE"), TRUE), TRUE)

PVFull(f) == PVMode(f, "BOOST")

\* One override: the setter is called if there is a value.
Or(f, value, g) == IF value = None THEN f ELSE g

OverrideTemperature(f) ==
    LET value == override.targetTemperature IN
    IF value # None /\ value \in ABSENCE_WATER_TEMPERATURE .. MAX_WATER_TEMPERATURE
    THEN SetTargetTemperature(f, value) ELSE f

\* BOOST and ABSENCE decide the target temperature, too.
OverrideMode(f) ==
    LET mode == override.operationMode
        g    == SetOperationMode(f, mode)
    IN CASE mode = None      -> f
         [] mode = "BOOST"   -> SetTargetTemperature(g, MAX_WATER_TEMPERATURE)
         [] mode = "ABSENCE" -> SetTargetTemperature(g, ABSENCE_WATER_TEMPERATURE)
         [] OTHER            -> g

MutantOverrideInstallation(f) == SetInstallation(f, override.installation)

OverrideInstallation(f) ==
    Or(f, override.installation, SetInstallation(f, override.installation))
OverrideType(f) ==
    Or(f, override.operationType, SetOperationType(f, override.operationType))
OverrideElement(f) ==
    Or(f, override.heatingElement, SetHeatingElement(f, override.heatingElement))
OverrideEmergency(f) ==
    Or(f, override.emergencyMode, SetEmergencyMode(f, override.emergencyMode))

MutantStandard(f) ==
    OverrideEmergency(OverrideElement(OverrideType(
        OverrideTemperature(OverrideInstallation(OverrideMode(f))))))

Standard(f) ==
    OverrideEmergency(OverrideElement(OverrideType(
        OverrideMode(OverrideInstallation(OverrideTemperature(f))))))

ApplyHMIOverrides(f) ==
    CASE hmiFlags.heatPump /\ hmiFlags.heatElement   -> PVFull(f)
      [] hmiFlags.heatPump /\ ~hmiFlags.heatElement  -> PVHeatPumpOnly(f)
      [] ~hmiFlags.heatPump /\ hmiFlags.heatElement  -> PVHeatElementOnly(f)
      [] ~hmiFlags.heatPump /\ ~hmiFlags.heatElement -> Standard(f)

-----------------------------------------------------------------------------
(* MQTTTask::messageReceived, one control message at a time *)

InForce == { attr \in DOMAIN override : override[attr] # None }

OnOverride ==
    /\ received = None
    /\ \/ \E value \in Installations \cup {None} :
             override' = [override EXCEPT !.installation = value]
       \/ \E value \in OperationModes \cup {None} :
             override' = [override EXCEPT !.operationMode = value]
       \/ \E value \in OperationTypes \cup {None} :
             override' = [override EXCEPT !.operationType = value]
       \/ \E value \in TargetTemperatures \cup {None} :
             override' = [override EXCEPT !.targetTemperature = value]
       \/ \E value \in BOOLEAN \cup {None} :
             override' = [override EXCEPT !.heatingElement = value]
       \/ \E value \in BOOLEAN \cup {None} :
             override' = [override EXCEPT !.emergencyMode = value]
    /\ Cardinality(InForce') <= MaxOverrides
    /\ UNCHANGED <<version, hmiFlags, mainFlags, received, sent>>

MutantOnResetOverrides ==
    /\ received = None
    /\ override' = NoOverride
    /\ hmiFlags' = [heatPump |-> FALSE, heatElement |-> FALSE]
    /\ UNCHANGED <<version, mainFlags, received, sent>>

\* The PV flags are no overrides, they stay.
OnResetOverrides ==
    /\ received = None
    /\ override' = NoOverride
    /\ UNCHANGED <<version, hmiFlags, mainFlags, received, sent>>

\* HMIStateProxy learns of the flag first, MainStateProxy next.
OnPVModeEnabled(flag, enabled) ==
    /\ received = None
    /\ hmiFlags' = [hmiFlags EXCEPT ![flag] = enabled]
    /\ received' = flag
    /\ UNCHANGED <<version, override, mainFlags, sent>>

MainOnPVModeEnabled ==
    /\ received # None
    /\ mainFlags' = [mainFlags EXCEPT ![received] = hmiFlags[received]]
    /\ received' = None
    /\ UNCHANGED <<version, override, hmiFlags, sent>>

-----------------------------------------------------------------------------
(* ControllerTask::sendMessage194 *)

SendHmiFrame ==
    /\ \E frame \in HMIFrames : sent' = ApplyHMIOverrides(frame)
    /\ UNCHANGED <<version, override, hmiFlags, mainFlags, received>>

Next ==
    \/ OnOverride
    \/ OnResetOverrides
    \/ \E flag \in {"heatPump", "heatElement"}, enabled \in BOOLEAN :
          OnPVModeEnabled(flag, enabled)
    \/ MainOnPVModeEnabled
    \/ SendHmiFrame

Spec == Init /\ [][Next]_vars

-----------------------------------------------------------------------------
(* Properties *)

TypeOK ==
    /\ version \in Versions
    /\ override \in Override
    /\ hmiFlags \in PVFlags /\ mainFlags \in PVFlags
    /\ received \in {"heatPump", "heatElement", None}
    /\ sent \in HMIFrame

\* Whatever was overridden in whatever order, the controller is never told to
\* use nothing but an element it may not use (the sanity of the setters,
\* legacy/HMIMessage.cpp:470 and :481).
EmergencyNeedsElement ==
    version # "ODYSSEE" /\ sent.emergencyMode => sent.heatingElement

\* README-PV.md, "PV Heat-Pump Only": whatever the HMI and the overrides say,
\* the controller is told to heat to the maximum with the pump alone.
PVHeatPumpOnlyAsDocumented ==
    [][SendHmiFrame /\ version # "ODYSSEE" /\ hmiFlags.heatPump /\ ~hmiFlags.heatElement
        => sent' = [installation |-> "HP_ONLY", operationMode |-> "ECO_INACTIVE",
                    operationType |-> "ALWAYS_ON",
                    targetTemperature |-> MAX_WATER_TEMPERATURE,
                    heatingElement |-> FALSE, emergencyMode |-> FALSE]]_vars

\* README-PV.md, "PV Heat-Element Only", the same with the element alone.
PVHeatElementOnlyAsDocumented ==
    [][SendHmiFrame /\ version # "ODYSSEE" /\ ~hmiFlags.heatPump /\ hmiFlags.heatElement
        => sent' = [installation |-> "HP_ONLY", operationMode |-> "ECO_INACTIVE",
                    operationType |-> "ALWAYS_ON",
                    targetTemperature |-> MAX_WATER_TEMPERATURE,
                    heatingElement |-> TRUE, emergencyMode |-> TRUE]]_vars

\* "BOOST and ABSENCE will automatically set the waterTempTarget accordingly"
\* (MQTT.md:148), also if an override asks for another temperature.
ModeDecidesTemperature ==
    [][SendHmiFrame /\ hmiFlags = [heatPump |-> FALSE, heatElement |-> FALSE]
        => /\ override.operationMode = "BOOST" =>
                 sent'.targetTemperature = MAX_WATER_TEMPERATURE
           /\ override.operationMode = "ABSENCE" =>
                 sent'.targetTemperature = ABSENCE_WATER_TEMPERATURE]_vars

\* Between two control messages the icons the HMI is shown and the PV mode the
\* controller is told agree: two proxies hold the same flags.
PVFlagsAgree == received = None => mainFlags = hmiFlags

=============================================================================
