-------------------------- MODULE MainStatusMessage --------------------------
(***************************************************************************)
(* message/<version>/MainStatusMessage.cpp: the attributes of frame 193.   *)
(* Left out: what a getter computes from the bits it reads.                *)
(***************************************************************************)
EXTENDS MessageBits

States == {"STATE_HEATING_ELEMENT", "STATE_HEATPUMP", "STATE_BOILER_BACKUP",
           "STATE_FAN", "STATE_DEFROST"}

Capabilities == {"CAPABILITY_HAS_HEAT_EXCHANGER", "CAPABILITY_HAS_CIRCULATION",
                 "CAPABILITY_HAS_PV_INPUT", "CAPABILITY_HAS_COMMUNICATION",
                 "CAPABILITY_HAS_ANTI_DRY_HEATING"}

-----------------------------------------------------------------------------
(* legacy *)

LegacyMarks ==
    { <<{1, 2},   {"WATER_TEMPERATURE"}>>,
      <<{3, 4},   {"AIR_TEMPERATURE"}>>,
      <<{5, 6},   {"EVAPORATOR_LOWER_TEMPERATURE"}>>,
      <<{7, 8},   {"EVAPORATOR_UPPER_TEMPERATURE"}>>,
      <<{14},     {"SETTING_FAN_PWM_THIRD"}>>,
      <<{15},     {"SETTING_FAN_PWM_FIRST"}>>,
      <<{16},     {"SETTING_FAN_PWM_SECOND"}>>,
      <<{17},     States>>,
      <<{18, 19}, {"FAN_SPEED_PWM"}>>,
      <<{20},     {"SETTING_MIN_TARGET_WATER_TEMPERATURE"}>>,
      <<{21},     {"SETTING_LEGIONELLA_TARGET_WATER_TEMPERATURE"}>>,
      <<{22},     {"STATE_PV", "STATE_SOLAR"}>>,
      <<{23},     {"ERROR_CODE"}>>,
      <<{28},     {"VERSION_CONTROLLER_ASCII"}>>,
      <<{32},     {"SETTING_HEAT_ELEMENT_WATTAGE"}>>,
      <<{33, 34}, {"SETTING_BOILER_CAPACITY"}>>,
      <<{35},     {"SETTING_BRAND"}>>,
      <<{36},     Capabilities>> }

LegacyReads ==
    [WATER_TEMPERATURE            |-> Bytes({1, 2}),
     AIR_TEMPERATURE              |-> Bytes({3, 4}),
     EVAPORATOR_LOWER_TEMPERATURE |-> Bytes({5, 6}),
     EVAPORATOR_UPPER_TEMPERATURE |-> Bytes({7, 8}),
     FAN_SPEED_PWM                |-> Bytes({18, 19}),
     STATE_HEATING_ELEMENT        |-> Mask(17, \h01),
     STATE_HEATPUMP               |-> Mask(17, \h02),
     STATE_BOILER_BACKUP          |-> Mask(17, \h04),
     STATE_FAN                    |-> Mask(17, \h08),
     STATE_DEFROST                |-> Mask(17, \h20),
     STATE_PV                     |-> Mask(22, \h10),
     STATE_SOLAR                  |-> Mask(22, \h20),
     CAPABILITY_HAS_HEAT_EXCHANGER   |-> Mask(36, \h01),
     CAPABILITY_HAS_CIRCULATION      |-> Mask(36, \h02),
     CAPABILITY_HAS_PV_INPUT         |-> Mask(36, \h04),
     CAPABILITY_HAS_COMMUNICATION    |-> Mask(36, \h08),
     CAPABILITY_HAS_ANTI_DRY_HEATING |-> Mask(36, \h20),
     ERROR_CODE             |-> Bytes({23}),
     SETTING_FAN_PWM_FIRST  |-> Bytes({15}),
     SETTING_FAN_PWM_SECOND |-> Bytes({16}),
     SETTING_FAN_PWM_THIRD  |-> Bytes({14}),
     SETTING_MIN_TARGET_WATER_TEMPERATURE        |-> Bytes({20}),
     SETTING_LEGIONELLA_TARGET_WATER_TEMPERATURE |-> Bytes({21}),
     SETTING_BRAND                |-> Bytes({35}),
     VERSION_CONTROLLER_ASCII     |-> Bytes({28}),
     SETTING_HEAT_ELEMENT_WATTAGE |-> Bytes({32}),
     SETTING_BOILER_CAPACITY      |-> Bytes({33, 34})]

LegacyHas == DOMAIN LegacyReads

-----------------------------------------------------------------------------
(* next, and odyssee which has two more water temperatures and no PV bits *)

NextMarks ==
    { <<{1},  {"WATER_TEMPERATURE"}>>,
      <<{3},  {"COMPRESSOR_OUTLET_TEMPERATURE"}>>,
      <<{5},  {"EVAPORATOR_UPPER_TEMPERATURE"}>>,
      <<{7},  {"EVAPORATOR_LOWER_TEMPERATURE"}>>,
      <<{9},  {"AIR_TEMPERATURE"}>>,
      <<{17}, States>>,
      <<{18}, {"FAN_SPEED_PWM"}>>,
      <<{22}, {"STATE_PV", "STATE_SOLAR"}>>,
      <<{28}, {"VERSION_CONTROLLER_ASCII"}>> }

NextReads ==
    [WATER_TEMPERATURE             |-> Bytes({1}),
     COMPRESSOR_OUTLET_TEMPERATURE |-> Bytes({3}),
     EVAPORATOR_UPPER_TEMPERATURE  |-> Bytes({5}),
     EVAPORATOR_LOWER_TEMPERATURE  |-> Bytes({7}),
     AIR_TEMPERATURE               |-> Bytes({9}),
     FAN_SPEED_PWM                 |-> Bytes({18}),
     STATE_HEATING_ELEMENT         |-> Mask(17, \h01),
     STATE_HEATPUMP                |-> Mask(17, \h02),
     STATE_BOILER_BACKUP           |-> Mask(17, \h04),
     STATE_FAN                     |-> Mask(17, \h08),
     STATE_DEFROST                 |-> Mask(17, \h20),
     STATE_PV                      |-> Mask(22, \h10),
     STATE_SOLAR                   |-> Mask(22, \h20),
     VERSION_CONTROLLER_ASCII      |-> Bytes({28})]

NextHas == DOMAIN NextReads

WaterLevels == {"WATER_UPPER_TEMPERATURE", "WATER_LOWER_TEMPERATURE"}

OdysseeMarks ==
    { r \in NextMarks : r[1] # {22} }
        \cup { <<{13}, {"WATER_UPPER_TEMPERATURE"}>>, <<{15}, {"WATER_LOWER_TEMPERATURE"}>> }

OdysseeHas == (NextHas \ {"STATE_PV", "STATE_SOLAR"}) \cup WaterLevels

OdysseeReads ==
    [a \in OdysseeHas |->
        CASE a = "WATER_UPPER_TEMPERATURE" -> Bytes({13})
          [] a = "WATER_LOWER_TEMPERATURE" -> Bytes({15})
          [] OTHER -> NextReads[a]]

-----------------------------------------------------------------------------
\* createMainMessageFromBuffer
MainMessage(version) ==
    CASE version = "NEXT"    -> [marks |-> NextMarks, reads |-> NextReads, has |-> NextHas]
      [] version = "ODYSSEE" -> [marks |-> OdysseeMarks, reads |-> OdysseeReads, has |-> OdysseeHas]
      [] OTHER               -> [marks |-> LegacyMarks, reads |-> LegacyReads, has |-> LegacyHas]

=============================================================================
