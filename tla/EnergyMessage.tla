---------------------------- MODULE EnergyMessage ----------------------------
(***************************************************************************)
(* message/<version>/MainEnergyMessage.cpp and odyssee/ExtraMessage.cpp:   *)
(* the attributes of the frames 67 and 217.                                *)
(***************************************************************************)
EXTENDS MessageBits

LegacyMarks ==
    { <<{1, 2},   {"POWER_HEATPUMP"}>>,
      <<{3, 4},   {"POWER_HEATELEMENT"}>>,
      <<{7, 8},   {"POWER_TOTAL"}>>,
      <<{9, 10},  {"WATER_TOTAL"}>>,
      <<11 .. 14, {"TOTAL_HEATPUMP_HOURS"}>>,
      <<15 .. 18, {"TOTAL_HEATING_ELEMENT_HOURS"}>>,
      <<19 .. 22, {"TOTAL_HOURS"}>>,
      <<23 .. 30, {"TOTAL_ENERGY"}>> }

LegacyReads ==
    [TOTAL_ENERGY                |-> Bytes(23 .. 30),
     TOTAL_HEATPUMP_HOURS        |-> Bytes(11 .. 14),
     TOTAL_HEATING_ELEMENT_HOURS |-> Bytes(15 .. 18),
     TOTAL_HOURS                 |-> Bytes(19 .. 22),
     POWER_HEATPUMP              |-> Bytes({1, 2}),
     POWER_HEATELEMENT           |-> Bytes({3, 4}),
     POWER_TOTAL                 |-> Bytes({7, 8}),
     WATER_TOTAL                 |-> Bytes({9, 10})]

LegacyHas == DOMAIN LegacyReads

-----------------------------------------------------------------------------
NextMarks ==
    { <<9 .. 12,  {"TOTAL_HEATING_ELEMENT_HOURS"}>>,
      <<13 .. 16, {"TOTAL_HEATPUMP_HOURS"}>>,
      <<17 .. 20, {"TOTAL_ENERGY"}>>,
      <<{21, 22}, {"POWER_HEATPUMP"}>>,
      <<{38},     {"DIAG_AIR_TEMP_MAX"}>>,
      <<{37},     {"DIAG_AIR_TEMP_MIN"}>>,
      <<{36},     {"DIAG_EVA_UPPER_AIR_TEMP_MAX"}>>,
      <<{35},     {"DIAG_EVA_UPPER_AIR_TEMP_MIN"}>>,
      <<{34},     {"DIAG_EVA_LOWER_AIR_TEMP_MAX"}>>,
      <<{33},     {"DIAG_EVA_LOWER_AIR_TEMP_MIN"}>>,
      <<{32},     {"DIAG_COMPRESSOR_TEMP_MAX"}>>,
      <<{31},     {"DIAG_COMPRESSOR_TEMP_MIN"}>>,
      <<{30},     {"DIAG_WATER_TEMP_MAX"}>>,
      <<{29},     {"DIAG_WATER_TEMP_MIN"}>> }

\* POWER_HEATELEMENT, POWER_TOTAL and WATER_TOTAL are 0 whatever the frame is.
NextReads ==
    [TOTAL_ENERGY                |-> Bytes(17 .. 20),
     TOTAL_HEATPUMP_HOURS        |-> Bytes(13 .. 16),
     TOTAL_HEATING_ELEMENT_HOURS |-> Bytes(9 .. 12),
     POWER_HEATPUMP              |-> Bytes({21, 22}),
     POWER_TOTAL                 |-> {},
     DIAG_AIR_TEMP_MAX           |-> Bytes({38}),
     DIAG_AIR_TEMP_MIN           |-> Bytes({37}),
     DIAG_EVA_UPPER_AIR_TEMP_MAX |-> Bytes({36}),
     DIAG_EVA_UPPER_AIR_TEMP_MIN |-> Bytes({35}),
     DIAG_EVA_LOWER_AIR_TEMP_MAX |-> Bytes({34}),
     DIAG_EVA_LOWER_AIR_TEMP_MIN |-> Bytes({33}),
     DIAG_COMPRESSOR_TEMP_MAX    |-> Bytes({32}),
     DIAG_COMPRESSOR_TEMP_MIN    |-> Bytes({31}),
     DIAG_WATER_TEMP_MAX         |-> Bytes({30}),
     DIAG_WATER_TEMP_MIN         |-> Bytes({29})]

\* The heat pump's power is read and marked, and not there.
NextHas == DOMAIN NextReads \ {"POWER_HEATPUMP"}

-----------------------------------------------------------------------------
MutantOdysseeMarks ==
    { <<9 .. 12,  {"TOTAL_HEATING_ELEMENT_HOURS"}>>,
      <<13 .. 15, {"TOTAL_HEATPUMP_HOURS"}>> }

OdysseeMarks ==
    { <<9 .. 12,  {"TOTAL_HEATING_ELEMENT_HOURS"}>>,
      <<13 .. 16, {"TOTAL_HEATPUMP_HOURS"}>> }

OdysseeReads ==
    [TOTAL_HEATPUMP_HOURS        |-> Bytes(13 .. 16),
     TOTAL_HEATING_ELEMENT_HOURS |-> Bytes(9 .. 12)]

OdysseeHas == DOMAIN OdysseeReads

\* createEnergyMessageFromBuffer
EnergyMessage(version) ==
    CASE version = "NEXT"    -> [marks |-> NextMarks, reads |-> NextReads, has |-> NextHas]
      [] version = "ODYSSEE" -> [marks |-> OdysseeMarks, reads |-> OdysseeReads, has |-> OdysseeHas]
      [] OTHER               -> [marks |-> LegacyMarks, reads |-> LegacyReads, has |-> LegacyHas]

-----------------------------------------------------------------------------
ExtraMarks ==
    { <<{1, 2},  {"EXTRA_AMPERAGE"}>>,
      <<{3, 4},  {"EXTRA_VOLTAGE_GRID"}>>,
      <<{5, 6},  {"EXTRA_POWER_TOTAL"}>>,
      <<9 .. 12, {"EXTRA_TOTAL_ENERGY"}>> }

ExtraReads ==
    [EXTRA_VOLTAGE_GRID |-> Bytes({3, 4}),
     EXTRA_POWER_TOTAL  |-> Bytes({5, 6}),
     EXTRA_TOTAL_ENERGY |-> Bytes(9 .. 12),
     EXTRA_AMPERAGE     |-> Bytes({1, 2})]

ExtraHas == DOMAIN ExtraReads

\* createExtraMessageFromBuffer: whatever the version is.
ExtraMessage(version) == [marks |-> ExtraMarks, reads |-> ExtraReads, has |-> ExtraHas]

=============================================================================
