---------------------------- MODULE MQTTDiscovery ----------------------------
(***************************************************************************)
(* mqtt/MQTTDiscovery.h: the entities Home Assistant is told of, for a     *)
(* version of the protocol and a configuration.                            *)
(*                                                                         *)
(* An entity is what it shows (the topics it reads; of a JSON topic, the   *)
(* key), what it sends (the control topics it writes), and the options a   *)
(* user may select.  Left out: names, icons, units, identifiers.           *)
(***************************************************************************)

Entity(reads, writes, options) == [reads |-> reads, writes |-> writes, options |-> options]

\* One entity per topic.
Sensors(subtopic, names) == { Entity({<<subtopic, name>>}, {}, {}) : name \in names }

Only(condition, entities) == IF condition THEN entities ELSE {}

IsMitm(config) == config.mode = "MITM"

-----------------------------------------------------------------------------
(* sensor *)

Temperatures(version) ==
    Sensors("main", {"waterTemp", "supplyAirTemp", "evaporatorAirTemp", "evaporatorAirTempLower",
                     "fanPWM"})
    \cup Only(version # "LEGACY", Sensors("main", {"compressorOutletTemp"}))
    \cup Only(version = "ODYSSEE", Sensors("main", {"waterTempUpper", "waterTempLower"}))

Device(config) ==
    Sensors("stats", {"lwlState", "ipAddress", "rssiDb", "aquamqttMode"})
    \cup Only(config.mode # "LISTENER", Sensors("stats", {"overrideMode"}))

EnergySensors(version) ==
    Sensors("energy", {"totalHeatingElemHours", "totalHeatpumpHours", "totalEnergyWh", "powerTotal"})
    \cup Only(version = "LEGACY",
              Sensors("main", {"errorCode"}) \cup
              Sensors("energy", {"totalHours", "powerHeatingElem", "powerHeatpump",
                                 "totalWaterProduction"}))
    \cup Only(version = "ODYSSEE", Sensors("energy", {"voltageGrid", "amperage"}))

SerialStatistics(config) ==
    LET received == {"msgHandled", "msgUnhandled", "msgCRCNOK", "droppedBytes"} IN
    Only(config.statistics,
         IF IsMitm(config)
         THEN UNION { { Entity({<<"stats", side, name>>}, {}, {}) :
                        name \in received \cup {"msgSent"} } : side \in {"hmi", "main"} }
         ELSE Sensors("stats", received))

HMISensors(version, config) ==
    Sensors("hmi", {"antiLegionellaPerMonth"})
    \cup Only(config.timeAndDate, Sensors("hmi", {"time", "date"}))
    \cup Only(version # "ODYSSEE", Sensors("hmi", {"timerWindowA", "timerWindowB"}))
    \cup Only(version = "LEGACY", Sensors("hmi", {"setupState"}))

Settings(version) ==
    Only(version = "LEGACY",
         Sensors("main", {"settingPWM_1", "settingPWM_2", "settingPWM_3", "settingMinTargetTemp",
                          "settingMinLegionellaTemp", "settingWattageElement",
                          "settingBoilerCapacity", "settingBoilerBrand"}))

SoftwareVersions(version) ==
    Sensors("hmi", {"versionHMI"}) \cup Sensors("main", {"versionMain"})
    \cup Only(version = "LEGACY", Sensors("hmi", {"testModeStatus"}))
    \cup Only(version # "ODYSSEE", Sensors("hmi", {"pvInputActivated"}))

MutantDiagnosis(version) ==
    Only(version = "NEXT",
         Sensors("energy", {"diagAirTempMax", "diagAirTempMin",
                            "diagEvaUpperMax", "diagEvaUpperMin",
                            "diagEvaLowerMax", "diagEvaLowerMin",
                            "diagCompressorMax", "diagCompressorMin"}))

Diagnosis(version) ==
    Only(version = "NEXT",
         Sensors("energy", {"diagAirTempMax", "diagAirTempMin",
                            "diagEvaUpperMax", "diagEvaUpperMin",
                            "diagEvaLowerMax", "diagEvaLowerMin",
                            "diagCompressorMax", "diagCompressorMin",
                            "diagWaterTempMax", "diagWaterTempMin"}))

-----------------------------------------------------------------------------
(* binary_sensor *)

MutantStates(version) ==
    Sensors("main", {"stateFan", "stateHeatpump", "stateElement", "stateExtBoiler", "stateDefrost"})
    \cup Sensors("main", {"statePV", "stateSolar"})

States(version) ==
    Sensors("main", {"stateFan", "stateHeatpump", "stateElement", "stateExtBoiler", "stateDefrost"})
    \cup Only(version # "ODYSSEE", Sensors("main", {"statePV", "stateSolar"}))

ActiveOverrides(config) ==
    Only(config.mode # "LISTENER",
         { Entity({<<"stats", "activeOverrides", key>>}, {}, {}) :
             key \in {"operationMode", "operationType", "waterTempTarget", "heatingElementEnabled",
                      "emergencyModeEnabled", "configInstallation", "configFanExhaust",
                      "configAirduct", "time/date"} }
         \cup { Entity({<<"stats", "activeOverridesMain", key>>}, {}, {}) :
                  key \in {"stateSolar", "statePV"} })

\* The fifth, MAIN_CAPABILITY_DRY_HEATING, reads the topic of another one.
Capabilities(version) ==
    Only(version = "LEGACY",
         Sensors("main", {"capabilityHeatExchanger", "capabilityCirculation", "capabilityPVInput",
                          "capabilityCommunication"}))

-----------------------------------------------------------------------------
(* What a user may change: shown by its topic, changed if AquaMQTT is MITM *)

Control(config, name, options) ==
    Entity({<<"hmi", name>>}, IF IsMitm(config) THEN {name} ELSE {}, options)

Numbers(config) == { Control(config, "waterTempTarget", {}) }

Buttons(config) == Only(config.mode # "LISTENER", { Entity({}, {"reset"}, {}) })

OperationModeOptions == {"ABSENCE", "AUTO", "BOOST", "MAN ECO OFF", "MAN ECO ON"}

OperationTypeOptions(version) ==
    {"ALWAYS ON", "TIME WINDOW"} \cup (IF version = "ODYSSEE" THEN {"OFF-PEAK HOURS"} ELSE {})

Selects(version, config) ==
    { Control(config, "operationMode", OperationModeOptions),
      Control(config, "operationType", OperationTypeOptions(version)),
      Control(config, "configAirduct", {"INT/INT", "INT/EXT", "EXT/EXT"}) }
    \cup Only(version # "ODYSSEE",
        { Control(config, "configInstallation",
            {"BOILER BACKUP / BOILER OPTIMIZED", "BOILER BACKUP / BOILER PRIORITY",
             "BOILER BACKUP / HEAT PUMP PRIORITY", "BOILER BACKUP / HEAT PUMP OPTIMIZED",
             "HEAT PUMP ONLY", "HEAT PUMP AND SOLAR BACKUP"}),
          Control(config, "configFanExhaust", {"STOP", "LOW SPEED", "HIGH SPEED"}) })

Switches(version, config) ==
    Only(config.mode # "LISTENER",
         { Entity({<<"stats", flag>>}, {flag}, {"1", "0"}) :
             flag \in {"flagPVModeHeatPump", "flagPVModeHeatElement"} })
    \cup { Control(config, "emergencyModeEnabled", {"1", "0"}) }
    \cup Only(version # "ODYSSEE", { Control(config, "heatingElementEnabled", {"1", "0"}) })

HeaterTopics == { <<"hmi", "operationMode">>, <<"hmi", "waterTempTarget">>, <<"main", "waterTemp">> }

WaterHeaters(config) ==
    { Entity(HeaterTopics,
             IF IsMitm(config) THEN {"operationMode", "waterTempTarget"} ELSE {},
             OperationModeOptions) }

\* Its modes "off", "auto" and "heat" stand for modes of operation.
Climates(config) ==
    Only(config.climateCard /\ config.mode # "LISTENER",
         { Entity(HeaterTopics, {"operationMode", "waterTempTarget"}, OperationModeOptions) })

-----------------------------------------------------------------------------
\* All that publishDiscovery publishes.
Entities(version, config) ==
    UNION { Temperatures(version), Device(config), EnergySensors(version),
            SerialStatistics(config), HMISensors(version, config), Settings(version),
            SoftwareVersions(version), Diagnosis(version), States(version),
            ActiveOverrides(config), Capabilities(version), Numbers(config), Buttons(config),
            Selects(version, config), Switches(version, config), WaterHeaters(config),
            Climates(config) }

=============================================================================
