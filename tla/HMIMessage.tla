----------------------------- MODULE HMIMessage -----------------------------
(***************************************************************************)
(* message/<version>/HMIMessage.cpp: the attributes of frame 194, and the  *)
(* setters AquaMQTT overrides them with.                                   *)
(*                                                                         *)
(* An attribute that is an enum or a flag is a field of one byte: "reads"  *)
(* are the bits its getter looks at, "writes" the bits its setter clears   *)
(* first, "code" the byte that stands for each value.                      *)
(***************************************************************************)
EXTENDS MessageBits

TimeAndDate == {"TIME_SECONDS", "TIME_MINUTES", "TIME_HOURS",
                "DATE_DAY", "DATE_MONTH", "DATE_YEAR"}

Date == {"DATE_DAY", "DATE_MONTH", "DATE_YEAR"}

Field(byte, reads, writes, code) ==
    [byte |-> byte, reads |-> reads, writes |-> writes, code |-> code]

MutantFlag(byte, n) ==
    Field(byte, n, \hFF, [v \in BOOLEAN |-> IF v THEN n ELSE 0])

\* One bit of a byte.
Flag(byte, n) ==
    Field(byte, n, n, [v \in BOOLEAN |-> IF v THEN n ELSE 0])

-----------------------------------------------------------------------------
(* legacy *)

LegacyMarks ==
    { <<{1, 2},   {"WATER_TARGET_TEMPERATURE"}>>,
      <<{3},      {"OPERATION_MODE", "OPERATION_TYPE"}>>,
      <<{5},      {"ANTI_LEGIONELLA_CYCLES", "CONFIG_AIRDUCT"}>>,
      <<{6},      {"EMERGENCY_MODE_ENABLED"}>>,
      <<{7},      {"STATE_INSTALLATION_MODE"}>>,
      <<{8},      {"CONFIG_FAN_EXHAUST"}>>,
      <<{9},      {"HEATING_ELEMENT_ALLOWED", "STATE_SETUP", "PV_INPUT_ALLOWED"}>>,
      <<{10},     {"TIMER_WINDOW_A", "TIMER_A_START"}>>,
      <<{11},     {"TIMER_WINDOW_A", "TIMER_A_LENGTH"}>>,
      <<{12},     {"TIMER_WINDOW_B", "TIMER_B_START"}>>,
      <<{13},     {"TIMER_WINDOW_B", "TIMER_B_LENGTH"}>>,
      <<{17},     {"TIME_SECONDS"}>>,
      <<{20},     {"TIME_MINUTES"}>>,
      <<{21},     {"TIME_HOURS"}>>,
      <<{18, 19}, Date>>,
      <<{22},     {"STATE_TEST"}>>,
      <<{27},     {"VERSION_HMI_ASCII"}>>,
      <<{28},     {"HMI_ERROR_NO_REQUESTED"}>>,
      <<{29},     {"HMI_ERROR_ID_REQUESTED"}>> }

LegacyFields ==
    [OPERATION_MODE |-> Field(3, \h0F, \h0F,
        [ABSENCE |-> 0, ECO_ACTIVE |-> 1, ECO_INACTIVE |-> 2, BOOST |-> 3, AUTO |-> 4]),
     OPERATION_TYPE |-> Field(3, \h40, \h40, [TIMER |-> \h40, ALWAYS_ON |-> 0]),
     CONFIG_AIRDUCT |-> Field(5, \hF0, \h30,
        [INT_INT |-> \h00, INT_EXT |-> \h10, EXT_EXT |-> \h20]),
     STATE_INSTALLATION_MODE |-> Field(7, \h33, \h33,
        [HP_ONLY |-> \h00, HP_AND_EXT_PRIO_HP |-> \h01, HP_AND_EXT_OPT_HP |-> \h11,
         HP_AND_EXT_OPT_EXT |-> \h21, HP_AND_EXT_PRIO_EXT |-> \h31, HP_AND_SOLAR |-> \h02]),
     CONFIG_FAN_EXHAUST |-> Field(8, \h03, \h03,
        [STOP |-> 0, LOW_SPEED |-> 1, HIGH_SPEED |-> 2]),
     EMERGENCY_MODE_ENABLED  |-> Flag(6, \h01),
     HEATING_ELEMENT_ALLOWED |-> Flag(9, \h04)]

LegacyReads ==
    [ANTI_LEGIONELLA_CYCLES  |-> Mask(5, \h0F),
     TIME_SECONDS            |-> Bytes({17}),
     TIME_MINUTES            |-> Bytes({20}),
     TIME_HOURS              |-> Bytes({21}),
     DATE_DAY                |-> Mask(18, \h1F),
     DATE_MONTH              |-> Mask(18, \hE0) \cup Mask(19, \h01),
     DATE_YEAR               |-> Mask(19, \hFE),
     STATE_SETUP             |-> Mask(9, \hA0),
     STATE_TEST              |-> Bytes({22}),
     STATE_INSTALLATION_MODE |-> Mask(7, \h33),
     CONFIG_AIRDUCT          |-> Mask(5, \hF0),
     CONFIG_FAN_EXHAUST      |-> Mask(8, \h03),
     HMI_ERROR_ID_REQUESTED  |-> Bytes({29}),
     HMI_ERROR_NO_REQUESTED  |-> Bytes({28}),
     OPERATION_MODE          |-> Mask(3, \h0F),
     OPERATION_TYPE          |-> Mask(3, \h40),
     VERSION_HMI_ASCII       |-> Bytes({27}),
     EMERGENCY_MODE_ENABLED  |-> Mask(6, \h01),
     HEATING_ELEMENT_ALLOWED |-> Mask(9, \h04),
     PV_INPUT_ALLOWED        |-> Mask(9, \h02),
     WATER_TARGET_TEMPERATURE |-> Bytes({1, 2}),
     TIMER_WINDOW_A          |-> Bytes({10, 11}),
     TIMER_WINDOW_B          |-> Bytes({12, 13})]

LegacyHas == DOMAIN LegacyReads

-----------------------------------------------------------------------------
(* next: no setup state and no test mode *)

NextMarks ==
    { <<{1},      {"WATER_TARGET_TEMPERATURE"}>>,
      <<{2},      {"OPERATION_MODE", "OPERATION_TYPE"}>>,
      <<{4},      {"ANTI_LEGIONELLA_CYCLES", "CONFIG_AIRDUCT"}>>,
      <<{5},      {"EMERGENCY_MODE_ENABLED"}>>,
      <<{6},      {"STATE_INSTALLATION_MODE"}>>,
      <<{7},      {"CONFIG_FAN_EXHAUST"}>>,
      <<{8},      {"HEATING_ELEMENT_ALLOWED", "PV_INPUT_ALLOWED"}>>,
      <<{9, 10},  {"TIMER_A_START", "TIMER_WINDOW_A"}>>,
      <<{11, 12}, {"TIMER_A_LENGTH", "TIMER_WINDOW_A"}>>,
      <<{29, 30}, {"TIMER_B_START", "TIMER_WINDOW_B"}>>,
      <<{31, 32}, {"TIMER_B_LENGTH", "TIMER_WINDOW_B"}>>,
      <<{16},     {"TIME_SECONDS"}>>,
      <<{19},     {"TIME_MINUTES"}>>,
      <<{20},     {"TIME_HOURS"}>>,
      <<{17, 18}, Date>>,
      <<{26},     {"VERSION_HMI_ASCII"}>>,
      <<{27},     {"HMI_ERROR_NO_REQUESTED"}>>,
      <<{28},     {"HMI_ERROR_ID_REQUESTED"}>> }

\* The bit of the heating element forbids it.
NextFields ==
    [OPERATION_MODE |-> Field(2, \h0F, \h0F,
        [AUTO |-> 0, ECO_ACTIVE |-> 1, ECO_INACTIVE |-> 2, BOOST |-> 9, ABSENCE |-> 5]),
     OPERATION_TYPE |-> Field(2, \hF0, \hF0, [TIMER |-> \h10, ALWAYS_ON |-> \h40]),
     CONFIG_AIRDUCT |-> Field(4, \hF0, \h30,
        [INT_INT |-> \h00, INT_EXT |-> \h10, EXT_EXT |-> \h20]),
     STATE_INSTALLATION_MODE |-> Field(6, \h33, \h33,
        [HP_ONLY |-> \h00, HP_AND_EXT_PRIO_HP |-> \h01, HP_AND_EXT_OPT_HP |-> \h11,
         HP_AND_EXT_OPT_EXT |-> \h21, HP_AND_EXT_PRIO_EXT |-> \h31, HP_AND_SOLAR |-> \h02]),
     CONFIG_FAN_EXHAUST |-> Field(7, \h03, \h03,
        [STOP |-> 0, LOW_SPEED |-> 1, HIGH_SPEED |-> 2]),
     EMERGENCY_MODE_ENABLED  |-> Flag(5, \h01),
     HEATING_ELEMENT_ALLOWED |-> Field(8, \h04, \h04,
        [v \in BOOLEAN |-> IF v THEN 0 ELSE \h04])]

NextReads ==
    [ANTI_LEGIONELLA_CYCLES  |-> Mask(4, \h0F),
     TIME_SECONDS            |-> Bytes({16}),
     TIME_MINUTES            |-> Bytes({19}),
     TIME_HOURS              |-> Bytes({20}),
     DATE_DAY                |-> Mask(17, \h1F),
     DATE_MONTH              |-> Mask(17, \hE0) \cup Mask(18, \h01),
     DATE_YEAR               |-> Mask(18, \hFE),
     STATE_INSTALLATION_MODE |-> Mask(6, \h33),
     CONFIG_AIRDUCT          |-> Mask(4, \hF0),
     CONFIG_FAN_EXHAUST      |-> Mask(7, \h03),
     HMI_ERROR_ID_REQUESTED  |-> Bytes({28}),
     HMI_ERROR_NO_REQUESTED  |-> Bytes({27}),
     OPERATION_MODE          |-> Mask(2, \h0F),
     OPERATION_TYPE          |-> Mask(2, \hF0),
     VERSION_HMI_ASCII       |-> Bytes({26}),
     EMERGENCY_MODE_ENABLED  |-> Mask(5, \h01),
     HEATING_ELEMENT_ALLOWED |-> Mask(8, \h04),
     PV_INPUT_ALLOWED        |-> Mask(8, \h02),
     WATER_TARGET_TEMPERATURE |-> Bytes({1}),
     TIMER_WINDOW_A          |-> Bytes(9 .. 12),
     TIMER_WINDOW_B          |-> Bytes(29 .. 32)]

NextHas == DOMAIN NextReads

-----------------------------------------------------------------------------
(* odyssee: one byte holds mode and type *)

OdysseeMarks ==
    { <<{1},      {"WATER_TARGET_TEMPERATURE"}>>,
      <<{2},      {"OPERATION_TYPE", "OPERATION_MODE"}>>,
      <<{4},      {"ANTI_LEGIONELLA_CYCLES", "CONFIG_AIRDUCT"}>>,
      <<{5},      {"EMERGENCY_MODE_ENABLED"}>>,
      <<{19},     {"TIME_MINUTES"}>>,
      <<{20},     {"TIME_HOURS"}>>,
      <<{17, 18}, Date>>,
      <<{26},     {"VERSION_HMI_ASCII"}>>,
      <<{27},     {"HMI_ERROR_NO_REQUESTED"}>>,
      <<{28},     {"HMI_ERROR_ID_REQUESTED"}>> }

\* getValueByOperationModeAndType; what it does not know is 0.
ModeAndType ==
    [ALWAYS_ON |->
        [ABSENCE |-> 68, ECO_ACTIVE |-> 65, ECO_INACTIVE |-> 66, BOOST |-> 72, AUTO |-> 64],
     TIMER |->
        [ABSENCE |-> 20, ECO_ACTIVE |-> 17, ECO_INACTIVE |-> 18, BOOST |-> 24, AUTO |-> 16],
     OFF_PEAK_HOURS |->
        [ABSENCE |-> 6, ECO_ACTIVE |-> 1, ECO_INACTIVE |-> 2, BOOST |-> 10, AUTO |-> 0]]

ValueByModeAndType(mode, type) ==
    IF "UNKNOWN" \in {mode, type} THEN 0 ELSE ModeAndType[type][mode]

OdysseeFields ==
    [OPERATION_TYPE |-> Field(2, \hF0, \hFF,
        [OFF_PEAK_HOURS |-> \h00, TIMER |-> \h10, ALWAYS_ON |-> \h40]),
     CONFIG_AIRDUCT |-> Field(4, \hF0, \h30,
        [INT_INT |-> \h00, INT_EXT |-> \h10, EXT_EXT |-> \h20]),
     EMERGENCY_MODE_ENABLED |-> Flag(5, \h01)]

OdysseeReads ==
    [ANTI_LEGIONELLA_CYCLES |-> Mask(4, \h0F),
     TIME_MINUTES           |-> Bytes({19}),
     TIME_HOURS             |-> Bytes({20}),
     DATE_DAY               |-> Mask(17, \h1F),
     DATE_MONTH             |-> Mask(17, \hE0) \cup Mask(18, \h01),
     DATE_YEAR              |-> Mask(18, \hFE),
     HMI_ERROR_NO_REQUESTED |-> Bytes({27}),
     HMI_ERROR_ID_REQUESTED |-> Bytes({28}),
     CONFIG_AIRDUCT         |-> Mask(4, \hF0),
     OPERATION_TYPE         |-> Mask(2, \hF0),
     OPERATION_MODE         |-> Bytes({2}),
     VERSION_HMI_ASCII      |-> Bytes({26}),
     EMERGENCY_MODE_ENABLED |-> Mask(5, \h01),
     WATER_TARGET_TEMPERATURE |-> Bytes({1})]

OdysseeHas == DOMAIN OdysseeReads

-----------------------------------------------------------------------------
\* createHmiMessageFromBuffer
HMIMessage(version) ==
    CASE version = "LEGACY"  -> [marks |-> LegacyMarks, reads |-> LegacyReads, has |-> LegacyHas]
      [] version = "ODYSSEE" -> [marks |-> OdysseeMarks, reads |-> OdysseeReads, has |-> OdysseeHas]
      [] OTHER               -> [marks |-> NextMarks, reads |-> NextReads, has |-> NextHas]

=============================================================================
