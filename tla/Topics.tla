------------------------------- MODULE Topics -------------------------------
(***************************************************************************)
(* The topics updateHMIStatus .. updateExtraStatus of task/MQTTTask.cpp    *)
(* publish, each with the attributes its value is made of, and what        *)
(* message/<version>/ says of these attributes.                            *)
(*                                                                         *)
(* A topic is published if the version of the protocol has all its         *)
(* attributes.  Left out: raw frames published for debugging, the topics   *)
(* of other devices a user may configure.                                  *)
(***************************************************************************)
EXTENDS MessageBits

HMI    == INSTANCE HMIMessage
Main   == INSTANCE MainStatusMessage
Energy == INSTANCE EnergyMessage
Error  == INSTANCE ErrorMessage

Kinds == {"HMI", "MAIN", "ENERGY", "EXTRA"}

\* The frames of a heat pump: 217 is one of the ODYSSEE protocol.
KindsOf(version) == IF version = "ODYSSEE" THEN Kinds ELSE Kinds \ {"EXTRA"}

Message(version, kind) ==
    CASE kind = "HMI"    -> HMI!HMIMessage(version)
      [] kind = "MAIN"   -> Main!MainMessage(version)
      [] kind = "ENERGY" -> Energy!EnergyMessage(version)
      [] kind = "EXTRA"  -> Energy!ExtraMessage(version)

Subtopic == [HMI |-> "hmi", MAIN |-> "main", ENERGY |-> "energy", EXTRA |-> "energy"]

-----------------------------------------------------------------------------
\* "some heatpump protocols don't have TIME_SECONDS"
HMITopics(version) ==
    [waterTempTarget        |-> {"WATER_TARGET_TEMPERATURE"},
     operationMode          |-> {"OPERATION_MODE"},
     operationType          |-> {"OPERATION_TYPE"},
     time |-> {"TIME_MINUTES", "TIME_HOURS"} \cup
              (IF version = "ODYSSEE" THEN {} ELSE {"TIME_SECONDS"}),
     date                   |-> {"DATE_DAY", "DATE_MONTH", "DATE_YEAR"},
     versionHMI             |-> {"VERSION_HMI_ASCII"},
     emergencyModeEnabled   |-> {"EMERGENCY_MODE_ENABLED"},
     heatingElementEnabled  |-> {"HEATING_ELEMENT_ALLOWED"},
     pvInputActivated       |-> {"PV_INPUT_ALLOWED"}]

HMISettings ==
    [setupState             |-> {"STATE_SETUP"},
     antiLegionellaPerMonth |-> {"ANTI_LEGIONELLA_CYCLES"},
     configAirduct          |-> {"CONFIG_AIRDUCT"},
     testModeStatus         |-> {"STATE_TEST"},
     configInstallation     |-> {"STATE_INSTALLATION_MODE"},
     configFanExhaust       |-> {"CONFIG_FAN_EXHAUST"},
     timerWindowA           |-> {"TIMER_WINDOW_A"},
     timerWindowB           |-> {"TIMER_WINDOW_B"}]

MainStates ==
    [fanPWM         |-> {"FAN_SPEED_PWM"},
     stateElement   |-> {"STATE_HEATING_ELEMENT"},
     stateHeatpump  |-> {"STATE_HEATPUMP"},
     stateExtBoiler |-> {"STATE_BOILER_BACKUP"},
     stateFan       |-> {"STATE_FAN"},
     stateDefrost   |-> {"STATE_DEFROST"},
     statePV        |-> {"STATE_PV"},
     stateSolar     |-> {"STATE_SOLAR"}]

MainSettings ==
    [settingPWM_1             |-> {"SETTING_FAN_PWM_FIRST"},
     settingPWM_2             |-> {"SETTING_FAN_PWM_SECOND"},
     settingPWM_3             |-> {"SETTING_FAN_PWM_THIRD"},
     settingMinTargetTemp     |-> {"SETTING_MIN_TARGET_WATER_TEMPERATURE"},
     settingMinLegionellaTemp |-> {"SETTING_LEGIONELLA_TARGET_WATER_TEMPERATURE"},
     settingWattageElement    |-> {"SETTING_HEAT_ELEMENT_WATTAGE"},
     settingBoilerCapacity    |-> {"SETTING_BOILER_CAPACITY"},
     settingBoilerBrand       |-> {"SETTING_BRAND"},
     versionMain              |-> {"VERSION_CONTROLLER_ASCII"}]

MainCapabilities ==
    [capabilityAntiDryHeating |-> {"CAPABILITY_HAS_ANTI_DRY_HEATING"},
     capabilityCirculation    |-> {"CAPABILITY_HAS_CIRCULATION"},
     capabilityPVInput        |-> {"CAPABILITY_HAS_PV_INPUT"},
     capabilityCommunication  |-> {"CAPABILITY_HAS_COMMUNICATION"},
     capabilityHeatExchanger  |-> {"CAPABILITY_HAS_HEAT_EXCHANGER"},
     errorCode                |-> {"ERROR_CODE"}]

\* publishFiltered: what is published is an estimate of the attribute.
Filtered ==
    [waterTemp              |-> {"WATER_TEMPERATURE"},
     supplyAirTemp          |-> {"AIR_TEMPERATURE"},
     evaporatorAirTempLower |-> {"EVAPORATOR_LOWER_TEMPERATURE"},
     evaporatorAirTemp      |-> {"EVAPORATOR_UPPER_TEMPERATURE"},
     compressorOutletTemp   |-> {"COMPRESSOR_OUTLET_TEMPERATURE"},
     waterTempLower         |-> {"WATER_LOWER_TEMPERATURE"},
     waterTempUpper         |-> {"WATER_UPPER_TEMPERATURE"}]

EnergyTotals ==
    [totalHeatpumpHours    |-> {"TOTAL_HEATPUMP_HOURS"},
     totalHeatingElemHours |-> {"TOTAL_HEATING_ELEMENT_HOURS"},
     totalHours            |-> {"TOTAL_HOURS"},
     totalEnergyWh         |-> {"TOTAL_ENERGY"},
     powerHeatpump         |-> {"POWER_HEATPUMP"},
     powerHeatingElem      |-> {"POWER_HEATELEMENT"},
     powerTotal            |-> {"POWER_TOTAL"},
     totalWaterProduction  |-> {"WATER_TOTAL"}]

EnergyDiagnosis ==
    [diagAirTempMax    |-> {"DIAG_AIR_TEMP_MAX"},
     diagAirTempMin    |-> {"DIAG_AIR_TEMP_MIN"},
     diagEvaUpperMax   |-> {"DIAG_EVA_UPPER_AIR_TEMP_MAX"},
     diagEvaUpperMin   |-> {"DIAG_EVA_UPPER_AIR_TEMP_MIN"},
     diagEvaLowerMax   |-> {"DIAG_EVA_LOWER_AIR_TEMP_MAX"},
     diagEvaLowerMin   |-> {"DIAG_EVA_LOWER_AIR_TEMP_MIN"},
     diagCompressorMax |-> {"DIAG_COMPRESSOR_TEMP_MAX"},
     diagCompressorMin |-> {"DIAG_COMPRESSOR_TEMP_MIN"},
     diagWaterTempMax  |-> {"DIAG_WATER_TEMP_MAX"},
     diagWaterTempMin  |-> {"DIAG_WATER_TEMP_MIN"}]

ExtraTopics ==
    [powerTotal    |-> {"EXTRA_POWER_TOTAL"},
     voltageGrid   |-> {"EXTRA_VOLTAGE_GRID"},
     totalEnergyWh |-> {"EXTRA_TOTAL_ENERGY"},
     amperage      |-> {"EXTRA_AMPERAGE"}]

ErrorTopics ==
    [errorCode              |-> {"ERROR_ERROR_CODE"},
     date                   |-> {"ERROR_DATE_DAY", "ERROR_DATE_MONTH", "ERROR_DATE_YEAR"},
     time                   |-> {"ERROR_TIME_HOURS", "ERROR_TIME_MINUTES"},
     waterTemp              |-> {"ERROR_WATER_TEMPERATURE"},
     supplyAirTemp          |-> {"ERROR_AIR_TEMPERATURE"},
     evaporatorAirTempLower |-> {"ERROR_EVAPORATOR_LOWER_TEMPERATURE"},
     evaporatorAirTemp      |-> {"ERROR_EVAPORATOR_UPPER_TEMPERATURE"},
     fanPWM                 |-> {"ERROR_FAN_SPEED_PWM"},
     totalHeatpumpHours     |-> {"ERROR_TOTAL_HEATPUMP_HOURS"},
     totalHeatingElemHours  |-> {"ERROR_TOTAL_HEATING_ELEMENT_HOURS"}]

-----------------------------------------------------------------------------
(* What a version publishes of each kind of frame *)

\* Records of topics as one set of <<name, attributes>>.
Rows(topics) == { <<name, topics[name]>> : name \in DOMAIN topics }

AllRows(version, kind) ==
    CASE kind = "HMI"    -> Rows(HMITopics(version)) \cup Rows(HMISettings)
      [] kind = "MAIN"   -> Rows(MainStates) \cup Rows(MainSettings) \cup Rows(MainCapabilities)
      [] kind = "ENERGY" -> Rows(EnergyTotals) \cup Rows(EnergyDiagnosis)
      [] kind = "EXTRA"  -> Rows(ExtraTopics)

\* As <<subtopic, name>> with its attributes; time and date only if asked for.
Publishable(version, kind, timeAndDate) ==
    LET has == Message(version, kind).has IN
    { <<<<Subtopic[kind], row[1]>>, row[2]>> : row \in
        { r \in AllRows(version, kind) :
            /\ r[2] \subseteq has
            /\ kind = "HMI" /\ ~timeAndDate => r[1] \notin {"time", "date"} } }

FilteredTopics(version) ==
    LET has == Message(version, "MAIN").has IN
    { <<"main", name>> : name \in { n \in DOMAIN Filtered : Filtered[n] \subseteq has } }

ErrorRows(version) ==
    LET has == Error!ErrorMessage(version).has IN
    { row \in Rows(ErrorTopics) : row[2] \subseteq has }

=============================================================================
