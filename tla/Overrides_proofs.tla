-------------------------- MODULE Overrides_proofs --------------------------
(***************************************************************************)
(* What the controller is told, for every protocol version, any frame of   *)
(* the HMI and any overrides in force.                                     *)
(***************************************************************************)
EXTENDS Overrides, TLAPS

-----------------------------------------------------------------------------
(* The setters keep a frame sane                                           *)

\* A frame that asks for the emergency mode has its element enabled, except in
\* ODYSSEE frames, which have no setter for the element.
Sane(f) ==
    /\ f \in HMIFrame
    /\ version # "ODYSSEE" /\ f.emergencyMode => f.heatingElement

LEMMA SetInstallationSane ==
    ASSUME NEW f, Sane(f), NEW value \in Installations
    PROVE  Sane(SetInstallation(f, value))
  BY DEF Sane, HMIFrame, SetInstallation

LEMMA SetModeAndTypeSane ==
    ASSUME NEW f, Sane(f), NEW mode \in OperationModes \cup {"UNKNOWN"},
           NEW type \in OperationTypes \cup {"UNKNOWN"}
    PROVE  Sane(SetModeAndType(f, mode, type))
  BY OverridesAssumption DEF Sane, HMIFrame, SetModeAndType

LEMMA SetOperationModeSane ==
    ASSUME NEW f, Sane(f), NEW value \in OperationModes
    PROVE  Sane(SetOperationMode(f, value))
  BY SetModeAndTypeSane DEF Sane, HMIFrame, SetOperationMode

LEMMA SetOperationTypeSane ==
    ASSUME NEW f, Sane(f), NEW value \in OperationTypes
    PROVE  Sane(SetOperationType(f, value))
  BY SetModeAndTypeSane DEF Sane, HMIFrame, SetOperationType

\* What is lost of a temperature: a tenth at most, and nothing of the two limits.
LEMMA TenthsTyped ==
    ASSUME NEW value \in Nat
    PROVE  HMI!Tenths(value) \in Nat
  BY DEF HMI!Tenths, HMI!FallsShort

LEMMA TenthsOfLimits ==
    /\ HMI!Tenths(MAX_WATER_TEMPERATURE) = MAX_WATER_TEMPERATURE
    /\ HMI!Tenths(ABSENCE_WATER_TEMPERATURE) = ABSENCE_WATER_TEMPERATURE
  BY DEF HMI!Tenths, HMI!FallsShort, MAX_WATER_TEMPERATURE, ABSENCE_WATER_TEMPERATURE

LEMMA SetTargetTemperatureSane ==
    ASSUME NEW f, Sane(f), NEW value \in Nat
    PROVE  Sane(SetTargetTemperature(f, value))
  <1>1. 10 * (value \div 10) \in Nat
    OBVIOUS
  <1>2. QED
    BY <1>1, TenthsTyped DEF Sane, HMIFrame, SetTargetTemperature

LEMMA SetEmergencyModeSane ==
    ASSUME NEW f, Sane(f), NEW value \in BOOLEAN
    PROVE  Sane(SetEmergencyMode(f, value))
  BY DEF Sane, HMIFrame, SetEmergencyMode

LEMMA SetHeatingElementSane ==
    ASSUME NEW f, Sane(f), NEW value \in BOOLEAN
    PROVE  Sane(SetHeatingElement(f, value))
  BY DEF Sane, HMIFrame, SetHeatingElement

LEMMA PVModeSane ==
    ASSUME NEW f, Sane(f), NEW mode \in OperationModes
    PROVE  Sane(PVMode(f, mode))
  <1>1. /\ "HP_ONLY" \in Installations /\ "ALWAYS_ON" \in OperationTypes
        /\ MAX_WATER_TEMPERATURE \in Nat
    BY OverridesAssumption DEF MAX_WATER_TEMPERATURE
  <1>2. QED
    BY <1>1, SetInstallationSane, SetOperationTypeSane, SetOperationModeSane,
       SetTargetTemperatureSane DEF PVMode

\* One override: a value outside None is one of the setter's.
LEMMA StandardSane ==
    ASSUME NEW f, Sane(f), override \in Override
    PROVE  Sane(Standard(f))
  <1>1. /\ MAX_WATER_TEMPERATURE \in Nat /\ ABSENCE_WATER_TEMPERATURE \in Nat
        /\ TargetTemperatures \subseteq Nat
    BY OverridesAssumption DEF MAX_WATER_TEMPERATURE, ABSENCE_WATER_TEMPERATURE
  <1>2. ASSUME NEW g, Sane(g)
        PROVE  Sane(OverrideTemperature(g))
    BY <1>1, <1>2, SetTargetTemperatureSane DEF OverrideTemperature, Override
  <1>3. ASSUME NEW g, Sane(g)
        PROVE  Sane(OverrideInstallation(g))
    BY <1>3, SetInstallationSane DEF OverrideInstallation, Or, Override
  <1>4. ASSUME NEW g, Sane(g)
        PROVE  Sane(OverrideMode(g))
    <2>1. CASE override.operationMode = None
      BY <1>4, <2>1, OverridesAssumption DEF OverrideMode
    <2>2. CASE override.operationMode # None
      <3>1. Sane(SetOperationMode(g, override.operationMode))
        BY <1>4, <2>2, SetOperationModeSane DEF Override
      <3>2. /\ Sane(SetTargetTemperature(SetOperationMode(g, override.operationMode),
                                            MAX_WATER_TEMPERATURE))
            /\ Sane(SetTargetTemperature(SetOperationMode(g, override.operationMode),
                                            ABSENCE_WATER_TEMPERATURE))
        BY <1>1, <3>1, SetTargetTemperatureSane
      <3>3. CASE override.operationMode = "BOOST"
        BY <2>2, <3>2, <3>3 DEF OverrideMode
      <3>4. CASE override.operationMode # "BOOST" /\ override.operationMode = "ABSENCE"
        BY <2>2, <3>2, <3>4 DEF OverrideMode
      <3>5. CASE override.operationMode \notin {"BOOST", "ABSENCE"}
        BY <2>2, <3>1, <3>5 DEF OverrideMode
      <3>6. QED
        BY <3>3, <3>4, <3>5
    <2>3. QED
      BY <2>1, <2>2
  <1>5. ASSUME NEW g, Sane(g)
        PROVE  Sane(OverrideType(g))
    BY <1>5, SetOperationTypeSane DEF OverrideType, Or, Override
  <1>6. ASSUME NEW g, Sane(g)
        PROVE  Sane(OverrideElement(g))
    BY <1>6, SetHeatingElementSane DEF OverrideElement, Or, Override
  <1>7. ASSUME NEW g, Sane(g)
        PROVE  Sane(OverrideEmergency(g))
    BY <1>7, SetEmergencyModeSane DEF OverrideEmergency, Or, Override
  <1>8. QED
    BY <1>2, <1>3, <1>4, <1>5, <1>6, <1>7 DEF Standard

LEMMA ApplyHMIOverridesSane ==
    ASSUME NEW f, Sane(f), override \in Override, hmiFlags \in PVFlags
    PROVE  Sane(ApplyHMIOverrides(f))
  <1>1. {"ECO_ACTIVE", "ECO_INACTIVE", "BOOST"} \subseteq OperationModes
    BY OverridesAssumption
  <1>2. Sane(PVFull(f))
    BY <1>1, PVModeSane DEF PVFull
  <1>3. Sane(PVHeatPumpOnly(f))
    BY <1>1, PVModeSane, SetEmergencyModeSane, SetHeatingElementSane DEF PVHeatPumpOnly
  <1>4. Sane(PVHeatElementOnly(f))
    BY <1>1, PVModeSane, SetEmergencyModeSane, SetHeatingElementSane DEF PVHeatElementOnly
  <1>5. Sane(Standard(f))
    BY StandardSane
  <1>6. hmiFlags.heatPump \in BOOLEAN /\ hmiFlags.heatElement \in BOOLEAN
    BY DEF PVFlags
  <1>7. QED
    BY <1>2, <1>3, <1>4, <1>5, <1>6 DEF ApplyHMIOverrides

-----------------------------------------------------------------------------
(* The inductive invariant *)

\* MainStateProxy lags behind by the one flag that messageReceived still has
\* to tell it.
FlagsLag ==
    \A flag \in {"heatPump", "heatElement"} :
        flag # received => mainFlags[flag] = hmiFlags[flag]

Inv == TypeOK /\ Sane(sent) /\ FlagsLag

LEMMA InvInit == Init => Inv
  <1>1. SUFFICES ASSUME Init
                 PROVE  Inv
    OBVIOUS
  <1>2. TypeOK
    BY <1>1, HMIFramesAssumption DEF Init, TypeOK, NoOverride, Override, PVFlags
  <1>3. Sane(sent) /\ FlagsLag
    BY <1>1, HMIFramesAssumption DEF Init, Sane, FlagsLag
  <1>4. QED
    BY <1>2, <1>3 DEF Inv

LEMMA InvNext == Inv /\ [Next]_vars => Inv'
  <1>1. SUFFICES ASSUME Inv, [Next]_vars
                 PROVE  Inv'
    OBVIOUS
  <1>2. CASE OnOverride
    <2>1. override' \in Override
      BY <1>1, <1>2 DEF OnOverride, Inv, TypeOK, Override
    <2>2. QED
      BY <1>1, <1>2, <2>1 DEF OnOverride, Inv, TypeOK, Sane, FlagsLag
  <1>3. CASE OnResetOverrides
    BY <1>1, <1>3 DEF OnResetOverrides, Inv, TypeOK, Sane, FlagsLag, NoOverride, Override
  <1>4. CASE \E flag \in {"heatPump", "heatElement"}, enabled \in BOOLEAN :
                OnPVModeEnabled(flag, enabled)
    <2>1. PICK flag \in {"heatPump", "heatElement"}, enabled \in BOOLEAN :
                  OnPVModeEnabled(flag, enabled)
      BY <1>4
    <2>2. hmiFlags' \in PVFlags
      BY <1>1, <2>1 DEF OnPVModeEnabled, Inv, TypeOK, PVFlags
    <2>3. FlagsLag'
      BY <1>1, <2>1, OverridesAssumption DEF OnPVModeEnabled, Inv, TypeOK, PVFlags, FlagsLag
    <2>4. QED
      BY <1>1, <2>1, <2>2, <2>3 DEF OnPVModeEnabled, Inv, TypeOK, Sane
  <1>5. CASE MainOnPVModeEnabled
    <2>1. received \in {"heatPump", "heatElement"}
      BY <1>1, <1>5 DEF MainOnPVModeEnabled, Inv, TypeOK
    <2>2. mainFlags' \in PVFlags
      BY <1>1, <1>5, <2>1 DEF MainOnPVModeEnabled, Inv, TypeOK, PVFlags
    <2>3. FlagsLag'
      BY <1>1, <1>5, <2>1 DEF MainOnPVModeEnabled, Inv, TypeOK, PVFlags, FlagsLag
    <2>4. QED
      BY <1>1, <1>5, <2>2, <2>3 DEF MainOnPVModeEnabled, Inv, TypeOK, Sane
  <1>6. CASE SendHmiFrame
    <2>1. PICK frame \in HMIFrames : sent' = ApplyHMIOverrides(frame)
      BY <1>6 DEF SendHmiFrame
    <2>2. Sane(frame)
      BY HMIFramesAssumption DEF Sane
    <2>3. Sane(sent')
      BY <1>1, <2>1, <2>2, ApplyHMIOverridesSane DEF Inv, TypeOK
    <2>4. QED
      BY <1>1, <1>6, <2>3 DEF SendHmiFrame, Inv, TypeOK, Sane, FlagsLag
  <1>7. CASE UNCHANGED vars
    BY <1>1, <1>7 DEF vars, Inv, TypeOK, Sane, FlagsLag
  <1>8. QED
    BY <1>1, <1>2, <1>3, <1>4, <1>5, <1>6, <1>7 DEF Next

\* Every variable stays in its type; so does the frame the setters build.
THEOREM OverridesTypeCorrect == Spec => []TypeOK
  <1>1. Inv => TypeOK
    BY DEF Inv
  <1>2. QED
    BY <1>1, InvInit, InvNext, PTL DEF Spec

\* The controller is never told to use an element alone that it may not use.
THEOREM OverridesEmergencyNeedsElement == Spec => []EmergencyNeedsElement
  <1>1. Inv => EmergencyNeedsElement
    BY DEF Inv, Sane, EmergencyNeedsElement
  <1>2. QED
    BY <1>1, InvInit, InvNext, PTL DEF Spec

\* Between two control messages both proxies hold the same PV flags.
THEOREM OverridesPVFlagsAgree == Spec => []PVFlagsAgree
  <1>1. Inv => PVFlagsAgree
    BY OverridesAssumption DEF Inv, TypeOK, PVFlags, FlagsLag, PVFlagsAgree
  <1>2. QED
    BY <1>1, InvInit, InvNext, PTL DEF Spec

-----------------------------------------------------------------------------
(* What the PV mode and the operation mode promise of the frame sent *)

\* PVMode, but for ODYSSEE frames, has the same effect on any frame.
LEMMA PVModeSets ==
    ASSUME NEW f, Sane(f), version # "ODYSSEE", NEW mode \in OperationModes
    PROVE  PVMode(f, mode) =
               [installation |-> "HP_ONLY", operationMode |-> mode,
                operationType |-> "ALWAYS_ON", targetTemperature |-> MAX_WATER_TEMPERATURE,
                heatingElement |-> f.heatingElement, emergencyMode |-> f.emergencyMode]
  <1> DEFINE a == SetInstallation(f, "HP_ONLY")
             b == SetOperationType(a, "ALWAYS_ON")
             c == SetOperationMode(b, mode)
  <1>1. a = [f EXCEPT !.installation = "HP_ONLY"]
    BY DEF SetInstallation
  <1>2. b = [a EXCEPT !.operationMode = a.operationMode, !.operationType = "ALWAYS_ON"]
    BY DEF SetOperationType, SetModeAndType
  <1>3. c = [b EXCEPT !.operationMode = mode, !.operationType = b.operationType]
    BY DEF SetOperationMode, SetModeAndType
  <1>4. SetTargetTemperature(c, MAX_WATER_TEMPERATURE)
            = [c EXCEPT !.targetTemperature = MAX_WATER_TEMPERATURE]
    BY TenthsOfLimits DEF SetTargetTemperature, MAX_WATER_TEMPERATURE
  <1> HIDE DEF a, b, c
  <1>5. a \in HMIFrame /\ a.installation = "HP_ONLY"
        /\ a.heatingElement = f.heatingElement /\ a.emergencyMode = f.emergencyMode
    BY <1>1, OverridesAssumption DEF Sane, HMIFrame
  <1>6. b \in HMIFrame /\ b.installation = "HP_ONLY" /\ b.operationType = "ALWAYS_ON"
        /\ b.heatingElement = f.heatingElement /\ b.emergencyMode = f.emergencyMode
    BY <1>2, <1>5, OverridesAssumption DEF HMIFrame
  <1>7. c \in HMIFrame /\ c.installation = "HP_ONLY" /\ c.operationType = "ALWAYS_ON"
        /\ c.operationMode = mode
        /\ c.heatingElement = f.heatingElement /\ c.emergencyMode = f.emergencyMode
    BY <1>3, <1>6 DEF HMIFrame
  <1>8. PVMode(f, mode) = [c EXCEPT !.targetTemperature = MAX_WATER_TEMPERATURE]
    BY <1>4 DEF PVMode, a, b, c
  <1>9. QED
    BY <1>7, <1>8 DEF HMIFrame

\* "PV Heat-Pump Only" decides the whole frame.
THEOREM OverridesPVHeatPumpOnly == Spec => PVHeatPumpOnlyAsDocumented
  <1> DEFINE Documented == [installation |-> "HP_ONLY", operationMode |-> "ECO_INACTIVE",
                            operationType |-> "ALWAYS_ON",
                            targetTemperature |-> MAX_WATER_TEMPERATURE,
                            heatingElement |-> FALSE, emergencyMode |-> FALSE]
  <1>1. ASSUME Inv, SendHmiFrame, version # "ODYSSEE",
               hmiFlags.heatPump, ~hmiFlags.heatElement
        PROVE  sent' = Documented
    <2>1. PICK f \in HMIFrames : sent' = ApplyHMIOverrides(f)
      BY <1>1 DEF SendHmiFrame
    <2>2. sent' = PVHeatPumpOnly(f)
      BY <1>1, <2>1 DEF ApplyHMIOverrides
    <2> DEFINE g == PVMode(f, "ECO_INACTIVE")
    <2>3. Sane(f) /\ "ECO_INACTIVE" \in OperationModes
      BY HMIFramesAssumption, OverridesAssumption DEF Sane
    <2>4. g = [installation |-> "HP_ONLY", operationMode |-> "ECO_INACTIVE",
               operationType |-> "ALWAYS_ON", targetTemperature |-> MAX_WATER_TEMPERATURE,
               heatingElement |-> f.heatingElement, emergencyMode |-> f.emergencyMode]
      BY <1>1, <2>3, PVModeSets
    <2>5. SetEmergencyMode(g, FALSE) = [g EXCEPT !.emergencyMode = FALSE]
      BY DEF SetEmergencyMode
    <2> DEFINE h == SetEmergencyMode(g, FALSE)
    <2>6. h = [installation |-> "HP_ONLY", operationMode |-> "ECO_INACTIVE",
               operationType |-> "ALWAYS_ON", targetTemperature |-> MAX_WATER_TEMPERATURE,
               heatingElement |-> f.heatingElement, emergencyMode |-> FALSE]
      <3> HIDE DEF g
      <3>1. QED
        BY <2>4, <2>5
    <2>7. sent' = SetHeatingElement(h, FALSE)
      BY <1>1, <2>2 DEF PVHeatPumpOnly
    <2> HIDE DEF h
    <2>8. SetHeatingElement(h, FALSE) = [h EXCEPT !.heatingElement = FALSE]
      BY <1>1, <2>6 DEF SetHeatingElement
    <2>9. QED
      BY <2>6, <2>7, <2>8
  <1>2. Inv /\ [Next]_vars
            => [SendHmiFrame /\ version # "ODYSSEE" /\ hmiFlags.heatPump /\ ~hmiFlags.heatElement
                   => sent' = Documented]_vars
    BY <1>1
  <1>3. QED
    BY <1>2, InvInit, InvNext, PTL DEF Spec, PVHeatPumpOnlyAsDocumented

-----------------------------------------------------------------------------

\* What comes after OverrideMode leaves the temperature alone.
LEMMA LaterOverridesKeepTemperature ==
    ASSUME NEW f
    PROVE  /\ OverrideType(f).targetTemperature = f.targetTemperature
           /\ OverrideElement(f).targetTemperature = f.targetTemperature
           /\ OverrideEmergency(f).targetTemperature = f.targetTemperature
  <1>1. OverrideType(f).targetTemperature = f.targetTemperature
    BY DEF OverrideType, Or, SetOperationType, SetModeAndType
  <1>2. OverrideElement(f).targetTemperature = f.targetTemperature
    BY DEF OverrideElement, Or, SetHeatingElement
  <1>3. OverrideEmergency(f).targetTemperature = f.targetTemperature
    BY DEF OverrideEmergency, Or, SetEmergencyMode
  <1>4. QED
    BY <1>1, <1>2, <1>3

\* BOOST and ABSENCE decide the temperature, whatever is overridden besides.
THEOREM OverridesModeDecidesTemperature == Spec => ModeDecidesTemperature
  <1>1. ASSUME Inv, SendHmiFrame, hmiFlags = [heatPump |-> FALSE, heatElement |-> FALSE]
        PROVE  /\ override.operationMode = "BOOST" =>
                     sent'.targetTemperature = MAX_WATER_TEMPERATURE
               /\ override.operationMode = "ABSENCE" =>
                     sent'.targetTemperature = ABSENCE_WATER_TEMPERATURE
    <2>1. PICK f \in HMIFrames : sent' = Standard(f)
      BY <1>1 DEF SendHmiFrame, ApplyHMIOverrides
    <2> DEFINE before == OverrideInstallation(OverrideTemperature(f))
               moded  == SetOperationMode(before, override.operationMode)
    <2>2. sent'.targetTemperature = OverrideMode(before).targetTemperature
      BY <2>1, LaterOverridesKeepTemperature DEF Standard
    <2>3. f \in HMIFrame /\ Sane(f)
      BY HMIFramesAssumption DEF Sane
    <2>4. OverrideTemperature(f) \in HMIFrame
      BY <2>3, SetTargetTemperatureSane, OverridesAssumption, <1>1
         DEF OverrideTemperature, Inv, TypeOK, Override, Sane
    <2>5. before \in HMIFrame
      BY <2>4, <1>1 DEF OverrideInstallation, Or, SetInstallation, HMIFrame, Inv, TypeOK, Override
    <2> HIDE DEF before
    <2>6. moded = [before EXCEPT !.operationMode = moded.operationMode,
                                 !.operationType = moded.operationType]
      BY <2>5 DEF SetOperationMode, SetModeAndType, HMIFrame
    <2> HIDE DEF moded
    <2>7. /\ SetTargetTemperature(moded, MAX_WATER_TEMPERATURE).targetTemperature
                = MAX_WATER_TEMPERATURE
          /\ SetTargetTemperature(moded, ABSENCE_WATER_TEMPERATURE).targetTemperature
                = ABSENCE_WATER_TEMPERATURE
      BY <2>5, <2>6, TenthsOfLimits
                    DEF SetTargetTemperature, MAX_WATER_TEMPERATURE, ABSENCE_WATER_TEMPERATURE,
                        HMIFrame
    <2>8. CASE override.operationMode = "BOOST"
      BY <2>2, <2>7, <2>8, OverridesAssumption DEF OverrideMode, moded
    <2>9. CASE override.operationMode = "ABSENCE"
      BY <2>2, <2>7, <2>9, OverridesAssumption DEF OverrideMode, moded
    <2>10. QED
      BY <2>8, <2>9
  <1>2. Inv /\ [Next]_vars
            => [SendHmiFrame /\ hmiFlags = [heatPump |-> FALSE, heatElement |-> FALSE]
                  => /\ override.operationMode = "BOOST" =>
                           sent'.targetTemperature = MAX_WATER_TEMPERATURE
                     /\ override.operationMode = "ABSENCE" =>
                           sent'.targetTemperature = ABSENCE_WATER_TEMPERATURE]_vars
    BY <1>1
  <1>3. QED
    BY <1>2, InvInit, InvNext, PTL DEF Spec, ModeDecidesTemperature

=============================================================================
