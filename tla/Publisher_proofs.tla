--------------------------- MODULE Publisher_proofs ---------------------------
(***************************************************************************)
(* What is published of the frames, for any frames, configurations and     *)
(* filters, over a connection that may break at any time: the topics of a  *)
(* kind of frame show its last frame and the filtered ones their estimate, *)
(* except where a value was lost; who reads them sees one whole frame      *)
(* after the other, or one that a loss has torn (Mirror); and Home         *)
(* Assistant is told of exactly the topics the version publishes.          *)
(*                                                                         *)
(* The argument for the frames is MarkedCovers: a bit that differs marks   *)
(* the attributes read from its byte, so that what is not published has    *)
(* not changed.  PublishAt says what becomes of a value that is published. *)
(* Everything else is that no step touches the topics of another source.   *)
(***************************************************************************)
EXTENDS Publisher, TLAPS

-----------------------------------------------------------------------------
(* Values and topics *)

\* What compareWith does not mark reads the same in both frames.
LEMMA MarkedCovers ==
  ASSUME NEW marks, NEW p, NEW q, NEW reads, NEW attr,
         \A bit \in reads : \E mark \in marks : bit[1] \in mark[1] /\ attr \in mark[2],
         attr \notin Marked(marks, p, q)
  PROVE  p \cap reads = q \cap reads
<1>1. ASSUME NEW bit \in reads, bit \in (p \ q) \cup (q \ p) PROVE FALSE
  <2>1. bit[1] \in DiffIndices(p, q)
    BY <1>1 DEF DiffIndices
  <2>2. PICK mark \in marks : bit[1] \in mark[1] /\ attr \in mark[2]
    OBVIOUS
  <2> QED BY <2>1, <2>2 DEF Marked
<1> QED BY <1>1

\* The topics of frames are neither statistics nor errors.
LEMMA FirstOfTopic ==
  ASSUME NEW v, NEW c, NEW kind \in KindsOf(v), NEW topic \in TopicsOf(v, c, kind)
  PROVE  topic[1] \in {"hmi", "main", "energy"}
<1>1. kind \in Kinds
  BY DEF KindsOf, Kinds
<1>2. PICK row \in TopicRows(v, c, kind) : topic = row[1]
  BY DEF TopicsOf
<1>3. CASE row \in Publishable(v, kind, c.timeAndDate)
  BY <1>1, <1>2, <1>3 DEF Publishable, Subtopic, Kinds
<1>4. CASE row \notin Publishable(v, kind, c.timeAndDate)
  BY <1>2, <1>4 DEF TopicRows, FilteredTopics
<1> QED BY <1>3, <1>4

LEMMA FirstOfFiltered ==
  ASSUME NEW v, NEW topic \in FilteredTopics(v)
  PROVE  topic[1] = "main"
BY DEF FilteredTopics

LEMMA FirstOfStats ==
  ASSUME NEW c, NEW topic \in StatsTopics(c)
  PROVE  topic[1] = "stats"
BY DEF StatsTopics, StatisticsTopics, OverrideTopics

LEMMA MergedAt ==
  ASSUME NEW f, NEW g, NEW t
  PROVE  /\ t \in DOMAIN Merged(f, g) <=> t \in DOMAIN f \/ t \in DOMAIN g
         /\ t \in DOMAIN g => Merged(f, g)[t] = g[t]
         /\ t \in DOMAIN f /\ t \notin DOMAIN g => Merged(f, g)[t] = f[t]
BY DEF Merged

-----------------------------------------------------------------------------
(* The tables agree *)

ProtocolVersions == {"LEGACY", "NEXT", "ODYSSEE"}

\* Every byte an attribute is read from marks it.
Covers(marks, reads, attrs) ==
    \A attr \in attrs : \A bit \in reads[attr] :
        \E mark \in marks : bit[1] \in mark[1] /\ attr \in mark[2]

\* Frame 194.
LEMMA HMICovers ==
  /\ Covers(HMI!LegacyMarks, HMI!LegacyReads, HMI!LegacyHas)
  /\ Covers(HMI!NextMarks, HMI!NextReads, HMI!NextHas)
  /\ Covers(HMI!OdysseeMarks, HMI!OdysseeReads, HMI!OdysseeHas)
<1>1. Covers(HMI!LegacyMarks, HMI!LegacyReads, HMI!LegacyHas)
  BY DEF Covers, HMI!LegacyMarks, HMI!LegacyReads, HMI!LegacyHas, HMI!Bytes, HMI!Mask, HMI!Date
<1>2. Covers(HMI!NextMarks, HMI!NextReads, HMI!NextHas)
  BY DEF Covers, HMI!NextMarks, HMI!NextReads, HMI!NextHas, HMI!Bytes, HMI!Mask, HMI!Date
<1>3. Covers(HMI!OdysseeMarks, HMI!OdysseeReads, HMI!OdysseeHas)
  BY DEF Covers, HMI!OdysseeMarks, HMI!OdysseeReads, HMI!OdysseeHas, HMI!Bytes, HMI!Mask, HMI!Date
<1> QED BY <1>1, <1>2, <1>3

\* Frame 193; ODYSSEE is NEXT with two more temperatures and without a byte.
LEMMA MainCovers ==
  /\ Covers(Main!LegacyMarks, Main!LegacyReads, Main!LegacyHas)
  /\ Covers(Main!NextMarks, Main!NextReads, Main!NextHas)
  /\ Covers(Main!OdysseeMarks, Main!OdysseeReads, Main!OdysseeHas)
<1>1. Covers(Main!LegacyMarks, Main!LegacyReads, Main!LegacyHas)
  BY DEF Covers, Main!LegacyMarks, Main!LegacyReads, Main!LegacyHas, Main!Bytes, Main!Mask,
         Main!States, Main!Capabilities
<1>2. Covers(Main!NextMarks, Main!NextReads, Main!NextHas)
  BY DEF Covers, Main!NextMarks, Main!NextReads, Main!NextHas, Main!Bytes, Main!Mask, Main!States
<1>3. Covers(Main!OdysseeMarks, Main!OdysseeReads, Main!OdysseeHas)
  <2> SUFFICES ASSUME NEW attr \in Main!OdysseeHas, NEW bit \in Main!OdysseeReads[attr]
               PROVE  \E mark \in Main!OdysseeMarks : bit[1] \in mark[1] /\ attr \in mark[2]
    BY DEF Covers
  <2>1. CASE attr = "WATER_UPPER_TEMPERATURE"
    <3>1. bit[1] = 13
      BY <2>1 DEF Main!OdysseeReads, Main!Bytes
    <3>2. <<{13}, {"WATER_UPPER_TEMPERATURE"}>> \in Main!OdysseeMarks
      BY DEF Main!OdysseeMarks
    <3> QED BY <2>1, <3>1, <3>2
  <2>2. CASE attr = "WATER_LOWER_TEMPERATURE"
    <3>1. bit[1] = 15
      BY <2>2 DEF Main!OdysseeReads, Main!Bytes
    <3>2. <<{15}, {"WATER_LOWER_TEMPERATURE"}>> \in Main!OdysseeMarks
      BY DEF Main!OdysseeMarks
    <3> QED BY <2>2, <3>1, <3>2
  <2>3. CASE attr \notin Main!WaterLevels
    <3>1. attr \in Main!NextHas /\ attr \notin {"STATE_PV", "STATE_SOLAR"}
      BY <2>3 DEF Main!OdysseeHas
    <3>2. bit \in Main!NextReads[attr]
      BY <2>3 DEF Main!OdysseeReads, Main!WaterLevels
    <3>3. PICK mark \in Main!NextMarks : bit[1] \in mark[1] /\ attr \in mark[2]
      BY <1>2, <3>1, <3>2 DEF Covers
    <3>4. mark[1] # {22}
      BY <3>1, <3>3 DEF Main!NextMarks, Main!States
    <3> QED BY <3>3, <3>4 DEF Main!OdysseeMarks
  <2> QED BY <2>1, <2>2, <2>3 DEF Main!WaterLevels
<1> QED BY <1>1, <1>2, <1>3

\* Frames 67 and 217.
LEMMA EnergyCovers ==
  /\ Covers(Energy!LegacyMarks, Energy!LegacyReads, Energy!LegacyHas)
  /\ Covers(Energy!NextMarks, Energy!NextReads, Energy!NextHas)
  /\ Covers(Energy!OdysseeMarks, Energy!OdysseeReads, Energy!OdysseeHas)
  /\ Covers(Energy!ExtraMarks, Energy!ExtraReads, Energy!ExtraHas)
<1>1. Covers(Energy!LegacyMarks, Energy!LegacyReads, Energy!LegacyHas)
  BY DEF Covers, Energy!LegacyMarks, Energy!LegacyReads, Energy!LegacyHas, Energy!Bytes
<1>2. Covers(Energy!NextMarks, Energy!NextReads, Energy!NextHas)
  BY DEF Covers, Energy!NextMarks, Energy!NextReads, Energy!NextHas, Energy!Bytes
<1>3. Covers(Energy!OdysseeMarks, Energy!OdysseeReads, Energy!OdysseeHas)
  BY DEF Covers, Energy!OdysseeMarks, Energy!OdysseeReads, Energy!OdysseeHas, Energy!Bytes
<1>4. Covers(Energy!ExtraMarks, Energy!ExtraReads, Energy!ExtraHas)
  BY DEF Covers, Energy!ExtraMarks, Energy!ExtraReads, Energy!ExtraHas, Energy!Bytes
<1> QED BY <1>1, <1>2, <1>3, <1>4

\* All tables of a version.
LEMMA MessageCovers ==
  ASSUME NEW v \in ProtocolVersions, NEW kind \in KindsOf(v)
  PROVE  LET message == Message(v, kind) IN Covers(message.marks, message.reads, message.has)
<1>1. CASE kind = "HMI"
  <2>1. CASE v = "LEGACY"
    BY <1>1, <2>1, HMICovers DEF Message, HMI!HMIMessage
  <2>2. CASE v = "NEXT"
    BY <1>1, <2>2, HMICovers DEF Message, HMI!HMIMessage
  <2>3. CASE v = "ODYSSEE"
    BY <1>1, <2>3, HMICovers DEF Message, HMI!HMIMessage
  <2> QED BY <2>1, <2>2, <2>3 DEF ProtocolVersions
<1>2. CASE kind = "MAIN"
  <2>1. CASE v = "LEGACY"
    BY <1>2, <2>1, MainCovers DEF Message, Main!MainMessage
  <2>2. CASE v = "NEXT"
    BY <1>2, <2>2, MainCovers DEF Message, Main!MainMessage
  <2>3. CASE v = "ODYSSEE"
    BY <1>2, <2>3, MainCovers DEF Message, Main!MainMessage
  <2> QED BY <2>1, <2>2, <2>3 DEF ProtocolVersions
<1>3. CASE kind = "ENERGY"
  <2>1. CASE v = "LEGACY"
    BY <1>3, <2>1, EnergyCovers DEF Message, Energy!EnergyMessage
  <2>2. CASE v = "NEXT"
    BY <1>3, <2>2, EnergyCovers DEF Message, Energy!EnergyMessage
  <2>3. CASE v = "ODYSSEE"
    BY <1>3, <2>3, EnergyCovers DEF Message, Energy!EnergyMessage
  <2> QED BY <2>1, <2>2, <2>3 DEF ProtocolVersions
<1>4. CASE kind = "EXTRA"
  BY <1>4, EnergyCovers DEF Message, Energy!ExtraMessage
<1> QED BY <1>1, <1>2, <1>3, <1>4 DEF KindsOf, Kinds

\* A row of topics has a name and attributes.
LEMMA RowsOf ==
  ASSUME NEW v \in ProtocolVersions, NEW kind \in KindsOf(v), NEW row \in AllRows(v, kind)
  PROVE  row[2] # {}
<1>1. ASSUME NEW topics, row \in Rows(topics), \A name \in DOMAIN topics : topics[name] # {}
      PROVE  row[2] # {}
  BY <1>1 DEF Rows
<1>2. /\ \A name \in DOMAIN HMITopics(v) : HMITopics(v)[name] # {}
      /\ \A name \in DOMAIN HMISettings : HMISettings[name] # {}
      /\ \A name \in DOMAIN MainStates : MainStates[name] # {}
      /\ \A name \in DOMAIN MainSettings : MainSettings[name] # {}
      /\ \A name \in DOMAIN MainCapabilities : MainCapabilities[name] # {}
      /\ \A name \in DOMAIN EnergyTotals : EnergyTotals[name] # {}
      /\ \A name \in DOMAIN EnergyDiagnosis : EnergyDiagnosis[name] # {}
      /\ \A name \in DOMAIN ExtraTopics : ExtraTopics[name] # {}
  <2>1. \A name \in DOMAIN HMITopics(v) : HMITopics(v)[name] # {}
    BY DEF HMITopics
  <2>2. \A name \in DOMAIN HMISettings : HMISettings[name] # {}
    BY DEF HMISettings
  <2>3. /\ \A name \in DOMAIN MainStates : MainStates[name] # {}
        /\ \A name \in DOMAIN MainSettings : MainSettings[name] # {}
        /\ \A name \in DOMAIN MainCapabilities : MainCapabilities[name] # {}
    BY DEF MainStates, MainSettings, MainCapabilities
  <2>4. /\ \A name \in DOMAIN EnergyTotals : EnergyTotals[name] # {}
        /\ \A name \in DOMAIN EnergyDiagnosis : EnergyDiagnosis[name] # {}
        /\ \A name \in DOMAIN ExtraTopics : ExtraTopics[name] # {}
    BY DEF EnergyTotals, EnergyDiagnosis, ExtraTopics
  <2> QED BY <2>1, <2>2, <2>3, <2>4
<1>3. kind \in Kinds
  BY DEF KindsOf
<1> QED BY <1>1, <1>2, <1>3 DEF AllRows, Kinds


-----------------------------------------------------------------------------
(* The names a version publishes *)

\* The attributes of a frame.
Has(v, kind) == Message(v, kind).has

\* They are those of the version's message.
LEMMA HasOf ==
  /\ Has("LEGACY", "HMI") = HMI!LegacyHas /\ Has("NEXT", "HMI") = HMI!NextHas
  /\ Has("ODYSSEE", "HMI") = HMI!OdysseeHas
  /\ Has("LEGACY", "MAIN") = Main!LegacyHas /\ Has("NEXT", "MAIN") = Main!NextHas
  /\ Has("ODYSSEE", "MAIN") = Main!OdysseeHas
  /\ Has("LEGACY", "ENERGY") = Energy!LegacyHas /\ Has("NEXT", "ENERGY") = Energy!NextHas
  /\ Has("ODYSSEE", "ENERGY") = Energy!OdysseeHas
  /\ \A v : Has(v, "EXTRA") = Energy!ExtraHas
<1>1. /\ Has("LEGACY", "HMI") = HMI!LegacyHas /\ Has("NEXT", "HMI") = HMI!NextHas
      /\ Has("ODYSSEE", "HMI") = HMI!OdysseeHas
  BY DEF Has, Message, HMI!HMIMessage
<1>2. /\ Has("LEGACY", "MAIN") = Main!LegacyHas /\ Has("NEXT", "MAIN") = Main!NextHas
      /\ Has("ODYSSEE", "MAIN") = Main!OdysseeHas
  BY DEF Has, Message, Main!MainMessage
<1>3. /\ Has("LEGACY", "ENERGY") = Energy!LegacyHas /\ Has("NEXT", "ENERGY") = Energy!NextHas
      /\ Has("ODYSSEE", "ENERGY") = Energy!OdysseeHas
  BY DEF Has, Message, Energy!EnergyMessage
<1>4. \A v : Has(v, "EXTRA") = Energy!ExtraHas
  BY DEF Has, Message, Energy!ExtraMessage
<1> QED BY <1>1, <1>2, <1>3, <1>4

\* The names of a record of topics whose attributes are all there.
Names(topics, has) == { name \in DOMAIN topics : topics[name] \subseteq has }

\* The names of frame 194, with time and date.
LEMMA HMINames ==
  ASSUME NEW v \in ProtocolVersions
  PROVE  /\ Names(HMITopics(v), Has(v, "HMI")) =
                {"waterTempTarget", "operationMode", "operationType", "time", "date", "versionHMI",
                 "emergencyModeEnabled"}
                \cup (IF v = "ODYSSEE" THEN {} ELSE {"heatingElementEnabled", "pvInputActivated"})
         /\ Names(HMISettings, Has(v, "HMI")) =
                {"antiLegionellaPerMonth", "configAirduct"}
                \cup (IF v = "ODYSSEE" THEN {}
                      ELSE {"configInstallation", "configFanExhaust", "timerWindowA", "timerWindowB"})
                \cup (IF v = "LEGACY" THEN {"setupState", "testModeStatus"} ELSE {})
<1>1. CASE v = "LEGACY"
  <2>1. Has(v, "HMI") = HMI!LegacyHas
    BY <1>1, HasOf
  <2>2. Names(HMITopics("LEGACY"), HMI!LegacyHas) =
            {"waterTempTarget", "operationMode", "operationType", "time", "date", "versionHMI",
             "emergencyModeEnabled", "heatingElementEnabled", "pvInputActivated"}
    BY DEF Names, HMITopics, HMI!LegacyHas, HMI!LegacyReads
  <2>3. Names(HMISettings, HMI!LegacyHas) =
            {"setupState", "antiLegionellaPerMonth", "configAirduct", "testModeStatus",
             "configInstallation", "configFanExhaust", "timerWindowA", "timerWindowB"}
    BY DEF Names, HMISettings, HMI!LegacyHas, HMI!LegacyReads
  <2> QED BY <1>1, <2>1, <2>2, <2>3
<1>2. CASE v = "NEXT"
  <2>1. Has(v, "HMI") = HMI!NextHas
    BY <1>2, HasOf
  <2>2. Names(HMITopics("NEXT"), HMI!NextHas) =
            {"waterTempTarget", "operationMode", "operationType", "time", "date", "versionHMI",
             "emergencyModeEnabled", "heatingElementEnabled", "pvInputActivated"}
    BY DEF Names, HMITopics, HMI!NextHas, HMI!NextReads
  <2>3. Names(HMISettings, HMI!NextHas) =
            {"antiLegionellaPerMonth", "configAirduct",
             "configInstallation", "configFanExhaust", "timerWindowA", "timerWindowB"}
    BY DEF Names, HMISettings, HMI!NextHas, HMI!NextReads
  <2> QED BY <1>2, <2>1, <2>2, <2>3
<1>3. CASE v = "ODYSSEE"
  <2>1. Has(v, "HMI") = HMI!OdysseeHas
    BY <1>3, HasOf
  <2>2. Names(HMITopics("ODYSSEE"), HMI!OdysseeHas) =
            {"waterTempTarget", "operationMode", "operationType", "time", "date", "versionHMI",
             "emergencyModeEnabled"}
    BY DEF Names, HMITopics, HMI!OdysseeHas, HMI!OdysseeReads
  <2>3. Names(HMISettings, HMI!OdysseeHas) = {"antiLegionellaPerMonth", "configAirduct"}
    BY DEF Names, HMISettings, HMI!OdysseeHas, HMI!OdysseeReads
  <2> QED BY <1>3, <2>1, <2>2, <2>3
<1> QED BY <1>1, <1>2, <1>3 DEF ProtocolVersions


\* The names of frame 193, and those of its temperatures.
LEMMA MainNames ==
  ASSUME NEW v \in ProtocolVersions
  PROVE  /\ Names(MainStates, Has(v, "MAIN")) =
                {"fanPWM", "stateElement", "stateHeatpump", "stateExtBoiler", "stateFan",
                 "stateDefrost"}
                \cup (IF v = "ODYSSEE" THEN {} ELSE {"statePV", "stateSolar"})
         /\ Names(MainSettings, Has(v, "MAIN")) =
                {"versionMain"} \cup (IF v = "LEGACY" THEN DOMAIN MainSettings ELSE {})
         /\ Names(MainCapabilities, Has(v, "MAIN")) =
                (IF v = "LEGACY" THEN DOMAIN MainCapabilities ELSE {})
         /\ Names(Filtered, Has(v, "MAIN")) =
                {"waterTemp", "supplyAirTemp", "evaporatorAirTempLower", "evaporatorAirTemp"}
                \cup (IF v = "LEGACY" THEN {} ELSE {"compressorOutletTemp"})
                \cup (IF v = "ODYSSEE" THEN {"waterTempLower", "waterTempUpper"} ELSE {})
<1>1. CASE v = "LEGACY"
  <2>1. Has(v, "MAIN") = Main!LegacyHas
    BY <1>1, HasOf
  <2>2. Names(MainStates, Main!LegacyHas) =
            {"fanPWM", "stateElement", "stateHeatpump", "stateExtBoiler", "stateFan",
             "stateDefrost", "statePV", "stateSolar"}
    BY DEF Names, MainStates, Main!LegacyHas, Main!LegacyReads
  <2>3. Names(MainSettings, Main!LegacyHas) = DOMAIN MainSettings
    BY DEF Names, MainSettings, Main!LegacyHas, Main!LegacyReads
  <2>4. "versionMain" \in DOMAIN MainSettings
    BY DEF MainSettings
  <2>5. Names(MainCapabilities, Main!LegacyHas) = DOMAIN MainCapabilities
    BY DEF Names, MainCapabilities, Main!LegacyHas, Main!LegacyReads
  <2>6. Names(Filtered, Main!LegacyHas) =
            {"waterTemp", "supplyAirTemp", "evaporatorAirTempLower", "evaporatorAirTemp"}
    BY DEF Names, Filtered, Main!LegacyHas, Main!LegacyReads
  <2> QED BY <1>1, <2>1, <2>2, <2>3, <2>4, <2>5, <2>6
<1>2. CASE v = "NEXT"
  <2>1. Has(v, "MAIN") = Main!NextHas
    BY <1>2, HasOf
  <2>2. Names(MainStates, Main!NextHas) =
            {"fanPWM", "stateElement", "stateHeatpump", "stateExtBoiler", "stateFan",
             "stateDefrost", "statePV", "stateSolar"}
    BY DEF Names, MainStates, Main!NextHas, Main!NextReads
  <2>3. Names(MainSettings, Main!NextHas) = {"versionMain"}
    BY DEF Names, MainSettings, Main!NextHas, Main!NextReads
  <2>4. Names(MainCapabilities, Main!NextHas) = {}
    BY DEF Names, MainCapabilities, Main!NextHas, Main!NextReads
  <2>5. Names(Filtered, Main!NextHas) =
            {"waterTemp", "supplyAirTemp", "evaporatorAirTempLower", "evaporatorAirTemp",
             "compressorOutletTemp"}
    BY DEF Names, Filtered, Main!NextHas, Main!NextReads
  <2> QED BY <1>2, <2>1, <2>2, <2>3, <2>4, <2>5
<1>3. CASE v = "ODYSSEE"
  <2>1. Has(v, "MAIN") = Main!OdysseeHas
    BY <1>3, HasOf
  <2>2. Names(MainStates, Main!OdysseeHas) =
            {"fanPWM", "stateElement", "stateHeatpump", "stateExtBoiler", "stateFan",
             "stateDefrost"}
    BY DEF Names, MainStates, Main!OdysseeHas, Main!NextHas, Main!NextReads, Main!WaterLevels
  <2>3. Names(MainSettings, Main!OdysseeHas) = {"versionMain"}
    BY DEF Names, MainSettings, Main!OdysseeHas, Main!NextHas, Main!NextReads, Main!WaterLevels
  <2>4. Names(MainCapabilities, Main!OdysseeHas) = {}
    BY DEF Names, MainCapabilities, Main!OdysseeHas, Main!NextHas, Main!NextReads, Main!WaterLevels
  <2>5. Names(Filtered, Main!OdysseeHas) =
            {"waterTemp", "supplyAirTemp", "evaporatorAirTempLower", "evaporatorAirTemp",
             "compressorOutletTemp", "waterTempLower", "waterTempUpper"}
    BY DEF Names, Filtered, Main!OdysseeHas, Main!NextHas, Main!NextReads, Main!WaterLevels
  <2> QED BY <1>3, <2>1, <2>2, <2>3, <2>4, <2>5
<1> QED BY <1>1, <1>2, <1>3 DEF ProtocolVersions

\* The names of frames 67 and 217.
LEMMA EnergyNames ==
  ASSUME NEW v \in ProtocolVersions
  PROVE  /\ Names(EnergyTotals, Has(v, "ENERGY")) =
                {"totalHeatpumpHours", "totalHeatingElemHours"}
                \cup (IF v = "ODYSSEE" THEN {} ELSE {"totalEnergyWh", "powerTotal"})
                \cup (IF v = "LEGACY" THEN {"totalHours", "powerHeatpump", "powerHeatingElem",
                                             "totalWaterProduction"} ELSE {})
         /\ Names(EnergyDiagnosis, Has(v, "ENERGY")) =
                (IF v = "NEXT" THEN DOMAIN EnergyDiagnosis ELSE {})
         /\ Names(ExtraTopics, Has(v, "EXTRA")) = DOMAIN ExtraTopics
<1>1. Names(ExtraTopics, Has(v, "EXTRA")) = DOMAIN ExtraTopics
  <2>1. Names(ExtraTopics, Energy!ExtraHas) = DOMAIN ExtraTopics
    BY DEF Names, ExtraTopics, Energy!ExtraHas, Energy!ExtraReads
  <2> QED BY <2>1, HasOf
<1>2. CASE v = "LEGACY"
  <2>1. Has(v, "ENERGY") = Energy!LegacyHas
    BY <1>2, HasOf
  <2>2. Names(EnergyTotals, Energy!LegacyHas) =
            {"totalHeatpumpHours", "totalHeatingElemHours", "totalEnergyWh", "powerTotal",
             "totalHours", "powerHeatpump", "powerHeatingElem", "totalWaterProduction"}
    BY DEF Names, EnergyTotals, Energy!LegacyHas, Energy!LegacyReads
  <2>3. Names(EnergyDiagnosis, Energy!LegacyHas) = {}
    BY DEF Names, EnergyDiagnosis, Energy!LegacyHas, Energy!LegacyReads
  <2> QED BY <1>2, <2>1, <2>2, <2>3, <1>1
<1>3. CASE v = "NEXT"
  <2>1. Has(v, "ENERGY") = Energy!NextHas
    BY <1>3, HasOf
  <2>2. Names(EnergyTotals, Energy!NextHas) =
            {"totalHeatpumpHours", "totalHeatingElemHours", "totalEnergyWh", "powerTotal"}
    BY DEF Names, EnergyTotals, Energy!NextHas, Energy!NextReads
  <2>3. Names(EnergyDiagnosis, Energy!NextHas) = DOMAIN EnergyDiagnosis
    BY DEF Names, EnergyDiagnosis, Energy!NextHas, Energy!NextReads
  <2> QED BY <1>3, <2>1, <2>2, <2>3, <1>1
<1>4. CASE v = "ODYSSEE"
  <2>1. Has(v, "ENERGY") = Energy!OdysseeHas
    BY <1>4, HasOf
  <2>2. Names(EnergyTotals, Energy!OdysseeHas) = {"totalHeatpumpHours", "totalHeatingElemHours"}
    BY DEF Names, EnergyTotals, Energy!OdysseeHas, Energy!OdysseeReads
  <2>3. Names(EnergyDiagnosis, Energy!OdysseeHas) = {}
    BY DEF Names, EnergyDiagnosis, Energy!OdysseeHas, Energy!OdysseeReads
  <2> QED BY <1>4, <2>1, <2>2, <2>3, <1>1
<1> QED BY <1>2, <1>3, <1>4 DEF ProtocolVersions


\* The topics of publishFiltered, by name.
FilteredNames(v) ==
    {"waterTemp", "supplyAirTemp", "evaporatorAirTempLower", "evaporatorAirTemp"}
    \cup (IF v = "LEGACY" THEN {} ELSE {"compressorOutletTemp"})
    \cup (IF v = "ODYSSEE" THEN {"waterTempLower", "waterTempUpper"} ELSE {})

\* All topics of a kind of frame, by name.
HMINamesOf(v, c) ==
    {"waterTempTarget", "operationMode", "operationType", "versionHMI", "emergencyModeEnabled",
     "antiLegionellaPerMonth", "configAirduct"}
    \cup (IF c.timeAndDate THEN {"time", "date"} ELSE {})
    \cup (IF v = "ODYSSEE" THEN {}
          ELSE {"heatingElementEnabled", "pvInputActivated", "configInstallation",
                "configFanExhaust", "timerWindowA", "timerWindowB"})
    \cup (IF v = "LEGACY" THEN {"setupState", "testModeStatus"} ELSE {})

MainNamesOf(v, c) ==
    {"fanPWM", "stateElement", "stateHeatpump", "stateExtBoiler", "stateFan", "stateDefrost",
     "versionMain"}
    \cup (IF v = "ODYSSEE" THEN {} ELSE {"statePV", "stateSolar"})
    \cup (IF v = "LEGACY" THEN DOMAIN MainSettings \cup DOMAIN MainCapabilities ELSE {})
    \cup (IF c.filterNoise THEN {} ELSE FilteredNames(v))

EnergyNamesOf(v) ==
    {"totalHeatpumpHours", "totalHeatingElemHours"}
    \cup (IF v = "ODYSSEE" THEN {} ELSE {"totalEnergyWh", "powerTotal"})
    \cup (IF v = "LEGACY" THEN {"totalHours", "powerHeatpump", "powerHeatingElem",
                                 "totalWaterProduction"} ELSE {})
    \cup (IF v = "NEXT" THEN DOMAIN EnergyDiagnosis ELSE {})

NamesOf(v, c, kind) ==
    CASE kind = "HMI"    -> HMINamesOf(v, c)
      [] kind = "MAIN"   -> MainNamesOf(v, c)
      [] kind = "ENERGY" -> EnergyNamesOf(v)
      [] kind = "EXTRA"  -> DOMAIN ExtraTopics

\* A row of all rows that a version has is a name of it.
LEMMA RowsByName ==
  ASSUME NEW topics, NEW has, NEW name
  PROVE  (\E row \in Rows(topics) : row[1] = name /\ row[2] \subseteq has)
             <=> name \in Names(topics, has)
<1>1. ASSUME NEW row \in Rows(topics), row[1] = name, row[2] \subseteq has
      PROVE  name \in Names(topics, has)
  BY <1>1 DEF Rows, Names
<1>2. ASSUME name \in Names(topics, has)
      PROVE  \E row \in Rows(topics) : row[1] = name /\ row[2] \subseteq has
  <2>1. <<name, topics[name]>> \in Rows(topics) /\ topics[name] \subseteq has
    BY <1>2 DEF Rows, Names
  <2> QED BY <2>1
<1> QED BY <1>1, <1>2

\* The rows of a kind of frame are those of its records.
LEMMA PublishedByName ==
  ASSUME NEW v \in ProtocolVersions, NEW kind \in Kinds, NEW name
  PROVE  (\E row \in AllRows(v, kind) : row[1] = name /\ row[2] \subseteq Has(v, kind)) <=>
         name \in CASE kind = "HMI"    -> Names(HMITopics(v), Has(v, kind))
                                              \cup Names(HMISettings, Has(v, kind))
                    [] kind = "MAIN"   -> Names(MainStates, Has(v, kind))
                                              \cup Names(MainSettings, Has(v, kind))
                                              \cup Names(MainCapabilities, Has(v, kind))
                    [] kind = "ENERGY" -> Names(EnergyTotals, Has(v, kind))
                                              \cup Names(EnergyDiagnosis, Has(v, kind))
                    [] kind = "EXTRA"  -> Names(ExtraTopics, Has(v, kind))
<1>1. CASE kind = "HMI"
  <2>1. AllRows(v, kind) = Rows(HMITopics(v)) \cup Rows(HMISettings)
    BY <1>1 DEF AllRows
  <2> QED BY <1>1, <2>1, RowsByName
<1>2. CASE kind = "MAIN"
  <2>1. AllRows(v, kind) = Rows(MainStates) \cup Rows(MainSettings) \cup Rows(MainCapabilities)
    BY <1>2 DEF AllRows
  <2> QED BY <1>2, <2>1, RowsByName
<1>3. CASE kind = "ENERGY"
  <2>1. AllRows(v, kind) = Rows(EnergyTotals) \cup Rows(EnergyDiagnosis)
    BY <1>3 DEF AllRows
  <2> QED BY <1>3, <2>1, RowsByName
<1>4. CASE kind = "EXTRA"
  <2>1. AllRows(v, kind) = Rows(ExtraTopics)
    BY <1>4 DEF AllRows
  <2> QED BY <1>4, <2>1, RowsByName
<1> QED BY <1>1, <1>2, <1>3, <1>4 DEF Kinds

\* The topics of publishFiltered are the temperatures the version has.
LEMMA FilteredTopicsAre ==
  ASSUME NEW v \in ProtocolVersions
  PROVE  /\ FilteredTopics(v) = { <<"main", name>> : name \in FilteredNames(v) }
         /\ FilteredNames(v) \subseteq DOMAIN Filtered
<1>1. { n \in DOMAIN Filtered : Filtered[n] \subseteq Message(v, "MAIN").has } = FilteredNames(v)
  BY MainNames DEF Names, FilteredNames, Has
<1> QED BY <1>1 DEF FilteredTopics

\* What is published, by names.
LEMMA TopicsAre ==
  ASSUME NEW v \in ProtocolVersions, NEW c, NEW kind \in Kinds, NEW topic
  PROVE  topic \in TopicsOf(v, c, kind) <=>
         \E name \in NamesOf(v, c, kind) : topic = <<Subtopic[kind], name>>
<1> DEFINE published(name) ==
               /\ \E row \in AllRows(v, kind) : row[1] = name /\ row[2] \subseteq Has(v, kind)
               /\ kind = "HMI" /\ ~c.timeAndDate => name \notin {"time", "date"}
           filtered == IF kind = "MAIN" /\ ~c.filterNoise THEN FilteredNames(v) ELSE {}
<1>1. (\E row \in Publishable(v, kind, c.timeAndDate) : row[1] = topic) <=>
      \E name : published(name) /\ topic = <<Subtopic[kind], name>>
  <2>1. ASSUME NEW row \in Publishable(v, kind, c.timeAndDate), row[1] = topic
        PROVE  \E name : published(name) /\ topic = <<Subtopic[kind], name>>
    <3>1. PICK r \in AllRows(v, kind) :
              /\ r[2] \subseteq Has(v, kind)
              /\ kind = "HMI" /\ ~c.timeAndDate => r[1] \notin {"time", "date"}
              /\ row = <<<<Subtopic[kind], r[1]>>, r[2]>>
      BY DEF Publishable, Has
    <3>2. row[1] = <<Subtopic[kind], r[1]>>
      BY <3>1
    <3> QED BY <2>1, <3>1, <3>2
  <2>2. ASSUME NEW name, published(name), topic = <<Subtopic[kind], name>>
        PROVE  \E row \in Publishable(v, kind, c.timeAndDate) : row[1] = topic
    <3>1. PICK r \in AllRows(v, kind) : r[1] = name /\ r[2] \subseteq Has(v, kind)
      BY <2>2
    <3>2. <<<<Subtopic[kind], r[1]>>, r[2]>> \in Publishable(v, kind, c.timeAndDate)
      BY <2>2, <3>1 DEF Publishable, Has
    <3>3. <<<<Subtopic[kind], r[1]>>, r[2]>>[1] = topic
      BY <2>2, <3>1
    <3> QED BY <3>2, <3>3
  <2> HIDE DEF published
  <2> QED BY <2>1, <2>2
<1>2. topic \in TopicsOf(v, c, kind) <=>
      \/ \E row \in Publishable(v, kind, c.timeAndDate) : row[1] = topic
      \/ \E name \in filtered : topic = <<"main", name>>
  <2>1. CASE kind = "MAIN" /\ ~c.filterNoise
    <3>1. TopicRows(v, c, kind) =
              Publishable(v, kind, c.timeAndDate)
                  \cup { <<t, Filtered[t[2]]>> : t \in FilteredTopics(v) }
      BY <2>1 DEF TopicRows
    <3>2. (\E row \in { <<t, Filtered[t[2]]>> : t \in FilteredTopics(v) } : row[1] = topic) <=>
          topic \in FilteredTopics(v)
      <4>1. topic \in FilteredTopics(v) =>
                <<topic, Filtered[topic[2]]>> \in { <<t, Filtered[t[2]]>> : t \in FilteredTopics(v) }
        OBVIOUS
      <4>2. <<topic, Filtered[topic[2]]>>[1] = topic
        OBVIOUS
      <4>3. \A row \in { <<t, Filtered[t[2]]>> : t \in FilteredTopics(v) } :
                row[1] \in FilteredTopics(v)
        OBVIOUS
      <4> QED BY <4>1, <4>2, <4>3
    <3> QED BY <2>1, <3>1, <3>2, FilteredTopicsAre DEF TopicsOf
  <2>2. CASE ~(kind = "MAIN" /\ ~c.filterNoise)
    <3>1. TopicRows(v, c, kind) = Publishable(v, kind, c.timeAndDate)
      BY <2>2 DEF TopicRows
    <3> QED BY <2>2, <3>1 DEF TopicsOf
  <2> QED BY <2>1, <2>2
<1>3. ASSUME NEW name
      PROVE  name \in NamesOf(v, c, kind) <=> published(name) \/ name \in filtered
  <2>1. CASE kind = "HMI"
    <3>1. published(name) <=>
          /\ name \in Names(HMITopics(v), Has(v, "HMI")) \cup Names(HMISettings, Has(v, "HMI"))
          /\ ~c.timeAndDate => name \notin {"time", "date"}
      BY <2>1, PublishedByName
    <3> HIDE DEF published
    <3>2. published(name) <=> name \in HMINamesOf(v, c)
      BY <3>1, HMINames DEF HMINamesOf
    <3> QED BY <2>1, <3>2 DEF NamesOf
  <2>2. CASE kind = "MAIN"
    <3>1. published(name) <=>
          name \in Names(MainStates, Has(v, "MAIN")) \cup Names(MainSettings, Has(v, "MAIN"))
                       \cup Names(MainCapabilities, Has(v, "MAIN"))
      BY <2>2, PublishedByName
    <3> HIDE DEF published
    <3>2. published(name) \/ name \in filtered <=> name \in MainNamesOf(v, c)
      BY <2>2, <3>1, MainNames DEF MainNamesOf
    <3> QED BY <2>2, <3>2 DEF NamesOf
  <2>3. CASE kind = "ENERGY"
    <3>1. published(name) <=>
          name \in Names(EnergyTotals, Has(v, "ENERGY")) \cup Names(EnergyDiagnosis, Has(v, "ENERGY"))
      BY <2>3, PublishedByName
    <3> HIDE DEF published
    <3>2. published(name) <=> name \in EnergyNamesOf(v)
      BY <3>1, EnergyNames DEF EnergyNamesOf
    <3> QED BY <2>3, <3>2 DEF NamesOf
  <2>4. CASE kind = "EXTRA"
    <3>1. published(name) <=> name \in Names(ExtraTopics, Has(v, "EXTRA"))
      BY <2>4, PublishedByName
    <3> HIDE DEF published
    <3> QED BY <2>4, <3>1, EnergyNames DEF NamesOf
  <2> QED BY <2>1, <2>2, <2>3, <2>4 DEF Kinds
<1>4. \A name \in filtered : <<"main", name>> = <<Subtopic[kind], name>>
  BY DEF Subtopic
<1> HIDE DEF published, filtered
<1> QED BY <1>1, <1>2, <1>3, <1>4


\* The tables of every version agree, whatever the configuration.
LEMMA AgreeAlways ==
  ASSUME NEW v \in ProtocolVersions, NEW c
  PROVE  Agree(v, c)
<1>1. KindsOf(v) \subseteq Kinds
  BY DEF KindsOf
<1>2. ASSUME NEW kind \in KindsOf(v), NEW row \in TopicRows(v, c, kind)
      PROVE  row[2] # {} /\ row[2] \subseteq Message(v, kind).has
  <2>1. CASE row \in Publishable(v, kind, c.timeAndDate)
    <3>1. PICK r \in AllRows(v, kind) : /\ r[2] \subseteq Message(v, kind).has
                                        /\ row = <<<<Subtopic[kind], r[1]>>, r[2]>>
      BY <2>1 DEF Publishable
    <3> QED BY <3>1, RowsOf
  <2>2. CASE row \notin Publishable(v, kind, c.timeAndDate)
    <3>1. kind = "MAIN" /\ row \in { <<topic, Filtered[topic[2]]>> : topic \in FilteredTopics(v) }
      BY <1>2, <2>2 DEF TopicRows
    <3>2. PICK topic \in FilteredTopics(v) : row = <<topic, Filtered[topic[2]]>>
      BY <3>1
    <3>3. PICK n \in DOMAIN Filtered : /\ Filtered[n] \subseteq Message(v, "MAIN").has
                                       /\ topic = <<"main", n>>
      BY DEF FilteredTopics
    <3>4. Filtered[n] # {}
      BY DEF Filtered
    <3> QED BY <3>1, <3>2, <3>3, <3>4
  <2> QED BY <2>1, <2>2
<1>3. RowsAreOfVersion(v, c)
  BY <1>2 DEF RowsAreOfVersion
<1>4. ReadsAreMarked(v, c)
  <2> SUFFICES ASSUME NEW kind \in KindsOf(v), NEW row \in TopicRows(v, c, kind),
                      NEW attr \in row[2], NEW bit \in Printed(v, kind, attr)
               PROVE  \E mark \in Message(v, kind).marks : bit[1] \in mark[1] /\ attr \in mark[2]
    BY DEF ReadsAreMarked
  <2>1. attr \in Message(v, kind).has /\ bit \in Message(v, kind).reads[attr]
    BY <1>2 DEF Printed
  <2> QED BY <2>1, MessageCovers DEF Covers
<1>5. TopicsAreApart(v, c)
  <2>1. ASSUME NEW kind \in KindsOf(v), NEW other \in KindsOf(v), kind # other,
               NEW topic \in TopicsOf(v, c, kind), topic \in TopicsOf(v, c, other)
        PROVE  FALSE
    <3>1. kind \in Kinds /\ other \in Kinds
      BY <1>1
    <3>2. PICK name \in NamesOf(v, c, kind) : topic = <<Subtopic[kind], name>>
      BY <3>1, TopicsAre
    <3>3. PICK n \in NamesOf(v, c, other) : topic = <<Subtopic[other], n>>
      BY <2>1, <3>1, TopicsAre
    <3>4. name = n /\ {kind, other} = {"ENERGY", "EXTRA"}
      BY <2>1, <3>1, <3>2, <3>3 DEF Kinds, Subtopic
    <3>5. v = "ODYSSEE"
      BY <3>4 DEF KindsOf, Kinds
    <3>6. name \in EnergyNamesOf(v) /\ name \in DOMAIN ExtraTopics
      <4>1. CASE kind = "ENERGY" /\ other = "EXTRA"
        BY <3>2, <3>3, <3>4, <4>1 DEF NamesOf
      <4>2. CASE kind = "EXTRA" /\ other = "ENERGY"
        BY <3>2, <3>3, <3>4, <4>2 DEF NamesOf
      <4> QED BY <3>4, <4>1, <4>2
    <3> QED BY <3>5, <3>6 DEF EnergyNamesOf, ExtraTopics
  <2>2. ASSUME c.filterNoise, NEW kind \in KindsOf(v), NEW topic \in TopicsOf(v, c, kind),
               topic \in FilteredTopics(v)
        PROVE  FALSE
    <3>1. kind \in Kinds
      BY <1>1
    <3>2. PICK name \in NamesOf(v, c, kind) : topic = <<Subtopic[kind], name>>
      BY <3>1, TopicsAre
    <3>3. PICK n \in FilteredNames(v) : topic = <<"main", n>>
      BY <2>2, FilteredTopicsAre
    <3>4. name = n /\ kind = "MAIN"
      BY <3>1, <3>2, <3>3 DEF Kinds, Subtopic
    <3>5. name \in MainNamesOf(v, c)
      BY <3>2, <3>4 DEF NamesOf
    <3> QED BY <2>2, <3>3, <3>4, <3>5 DEF MainNamesOf, FilteredNames, MainSettings, MainCapabilities
  <2> QED BY <2>1, <2>2 DEF TopicsAreApart
<1>6. NoSourceIsSilent(v, c)
  <2>1. ErrorRows(v) # {}
    <3>1. <<"errorCode", {"ERROR_ERROR_CODE"}>> \in Rows(ErrorTopics)
      BY DEF Rows, ErrorTopics
    <3>2. "ERROR_ERROR_CODE" \in Error!ErrorMessage(v).has
      <4>1. /\ "ERROR_ERROR_CODE" \in Error!LegacyHas /\ "ERROR_ERROR_CODE" \in Error!NextHas
            /\ "ERROR_ERROR_CODE" \in Error!OdysseeHas
        BY DEF Error!LegacyHas, Error!LegacyReads, Error!NextHas, Error!NextReads,
               Error!OdysseeHas, Error!OdysseeReads
      <4> QED BY <4>1 DEF Error!ErrorMessage, ProtocolVersions
    <3> QED BY <3>1, <3>2 DEF ErrorRows
  <2>2. ASSUME NEW kind \in KindsOf(v)
        PROVE  TopicsOf(v, c, kind) # {}
    <3>1. \E name : name \in NamesOf(v, c, kind)
      BY <1>1 DEF NamesOf, HMINamesOf, MainNamesOf, EnergyNamesOf, ExtraTopics, Kinds
    <3> QED BY <1>1, <3>1, TopicsAre
  <2> QED BY <2>1, <2>2 DEF NoSourceIsSilent
<1> QED BY <1>3, <1>4, <1>5, <1>6 DEF Agree

\* The tables of message/<version>/ and the topics of task/MQTTTask.cpp agree, in
\* every version and configuration.
LEMMA AllSetupsAgree == AgreeingSetups = Setups
BY AgreeAlways, PublisherAssumption DEF AgreeingSetups, ProtocolVersions

-----------------------------------------------------------------------------
(* The steps *)

Inv ==
    /\ setup \in AgreeingSetups
    /\ DOMAIN last = KindsOf(version)
    /\ LastWill \in DOMAIN broker
    /\ BrokerMirrorsLast

\* The tables do agree.
LEMMA AgreeOfInv == Inv => Agree(version, config)
BY DEF Inv, AgreeingSetups, version, config

\* The topic is what it was.
SameTopic(topic) ==
    /\ topic \in DOMAIN broker' <=> topic \in DOMAIN broker
    /\ topic \in DOMAIN broker => broker'[topic] = broker[topic]

\* A value that is published is shown, or lost; of all others nothing changes,
\* except that a topic that is due does not lag any more.
LEMMA PublishAt ==
  ASSUME NEW values, NEW due, Publish(values, due), NEW topic
  PROVE  /\ topic \notin DOMAIN values =>
               SameTopic(topic) /\ (topic \in lagging' <=> topic \in lagging \ due)
         /\ topic \in DOMAIN values =>
               \/ topic \in lagging' /\ SameTopic(topic)
               \/ topic \notin lagging' /\ topic \in DOMAIN broker' /\ broker'[topic] = values[topic]
<1>1. PICK lost \in Losses(DOMAIN values, { cut \cap DOMAIN values : cut \in Cuts }) :
         /\ broker' = Merged(broker, [t \in DOMAIN values \ lost |-> values[t]])
         /\ lagging' = (lagging \ (due \cup DOMAIN values)) \cup lost
  BY DEF Publish
<1>2. lost \subseteq DOMAIN values
  BY DEF Losses
<1> DEFINE through == [t \in DOMAIN values \ lost |-> values[t]]
<1>3. /\ topic \in DOMAIN through <=> topic \in DOMAIN values /\ topic \notin lost
      /\ topic \in DOMAIN through => through[topic] = values[topic]
  OBVIOUS
<1>4. /\ topic \in DOMAIN broker' <=> topic \in DOMAIN broker \/ topic \in DOMAIN through
      /\ topic \in DOMAIN through => broker'[topic] = through[topic]
      /\ topic \in DOMAIN broker /\ topic \notin DOMAIN through => broker'[topic] = broker[topic]
  <2> HIDE DEF through
  <2> QED BY <1>1, MergedAt DEF through
<1> HIDE DEF through
<1> QED BY <1>1, <1>2, <1>3, <1>4 DEF SameTopic

\* Nothing is published over a closed connection, and it is no better afterwards.
LEMMA PublishConnection ==
  ASSUME NEW values, NEW due, Publish(values, due), connection \in {"up", "lost", "closed"}
  PROVE  connection' \in {"up", "lost"} /\ (connection' = "up" => connection = "up")
BY DEF Publish, Loses, Breaks

\* What an update publishes.
UpdateValues(kind, new, frame, full) ==
    Merged(Merged(Published(kind, frame, full), Estimated(kind, new, full)),
           ErrorNumber(kind, frame, full))

LEMMA UpdatePublishes ==
  ASSUME NEW kind, NEW frame, NEW full, Update(kind, frame, full)
  PROVE  Publish(UpdateValues(kind, estimate', frame, full), Due(kind, estimate', full))
BY DEF Update, UpdateValues

\* Each of the three publishes topics of its own.
LEMMA UpdateValuesAt ==
  ASSUME NEW kind \in KindsOf(version), NEW new, NEW frame, NEW full, NEW topic,
         Agree(version, config)
  PROVE  /\ topic \in TopicsOf(version, config, kind) =>
               /\ topic \in DOMAIN UpdateValues(kind, new, frame, full) <=>
                     topic \in DOMAIN Published(kind, frame, full)
               /\ topic \in DOMAIN Published(kind, frame, full) =>
                     UpdateValues(kind, new, frame, full)[topic] = Published(kind, frame, full)[topic]
         /\ topic \in EstimateTopics =>
               /\ topic \in DOMAIN UpdateValues(kind, new, frame, full) <=>
                     topic \in DOMAIN Estimated(kind, new, full)
               /\ topic \in DOMAIN Estimated(kind, new, full) =>
                     UpdateValues(kind, new, frame, full)[topic] = new[topic]
         /\ topic \in DOMAIN UpdateValues(kind, new, frame, full) =>
               \/ topic \in TopicsOf(version, config, kind)
               \/ topic \in EstimateTopics
               \/ topic[1] = "error" /\ topic[3] = "errorNumber"
<1> DEFINE P == Published(kind, frame, full)
           E == Estimated(kind, new, full)
           N == ErrorNumber(kind, frame, full)
<1>1. /\ topic \in DOMAIN P => topic \in TopicsOf(version, config, kind)
      /\ topic \in DOMAIN E => topic \in EstimateTopics /\ E[topic] = new[topic]
      /\ topic \in DOMAIN N => topic[1] = "error" /\ topic[3] = "errorNumber"
  BY DEF Published, TopicsOf, Estimated, ErrorNumber
<1>2. topic \in TopicsOf(version, config, kind) =>
         topic \notin EstimateTopics /\ topic[1] # "error"
  BY FirstOfTopic DEF Agree, TopicsAreApart, EstimateTopics
<1>3. topic \in EstimateTopics => topic[1] # "error"
  BY FirstOfFiltered DEF EstimateTopics
<1> DEFINE M == Merged(P, E)
<1>4. /\ topic \in DOMAIN M <=> topic \in DOMAIN P \/ topic \in DOMAIN E
      /\ topic \in DOMAIN E => M[topic] = E[topic]
      /\ topic \in DOMAIN P /\ topic \notin DOMAIN E => M[topic] = P[topic]
  <2> HIDE DEF P, E
  <2> QED BY MergedAt
<1>5. /\ topic \in DOMAIN Merged(M, N) <=> topic \in DOMAIN M \/ topic \in DOMAIN N
      /\ topic \in DOMAIN M /\ topic \notin DOMAIN N => Merged(M, N)[topic] = M[topic]
  <2> HIDE DEF M, N
  <2> QED BY MergedAt
<1>6. UpdateValues(kind, new, frame, full) = Merged(M, N)
  BY DEF UpdateValues
<1> HIDE DEF P, E, N, M
<1> QED BY <1>1, <1>2, <1>3, <1>4, <1>5, <1>6 DEF P, E

\* An update leaves the topics of its kind with the values of its frame, or lost
\* what it published to them.
LEMMA UpdateShows ==
  ASSUME Inv, NEW kind \in KindsOf(version), NEW frame \in setup.frames[kind],
         NEW full \in BOOLEAN, Update(kind, frame, full)
  PROVE  \A topic \in TopicsOf(version, config, kind) :
             /\ \/ topic \in lagging'
                \/ /\ topic \in DOMAIN broker'
                   /\ broker'[topic] = ValueOf(version, config, kind, frame)[topic]
             /\ \/ SameTopic(topic)
                \/ /\ topic \in DOMAIN broker'
                   /\ broker'[topic] = ValueOf(version, config, kind, frame)[topic]
<1> DEFINE T == TopicsOf(version, config, kind)
           P == Published(kind, frame, full)
           V == UpdateValues(kind, estimate', frame, full)
           D == Due(kind, estimate', full)
<1>1. SUFFICES ASSUME NEW topic \in T
               PROVE  /\ \/ topic \in lagging'
                         \/ /\ topic \in DOMAIN broker'
                            /\ broker'[topic] = ValueOf(version, config, kind, frame)[topic]
                      /\ \/ SameTopic(topic)
                         \/ /\ topic \in DOMAIN broker'
                            /\ broker'[topic] = ValueOf(version, config, kind, frame)[topic]
  OBVIOUS
<1>2. Publish(V, D)
  BY UpdatePublishes
<1>3. Agree(version, config)
  BY AgreeOfInv
<1>4. /\ topic \in DOMAIN V <=> topic \in DOMAIN P
      /\ topic \in DOMAIN P => V[topic] = P[topic]
  BY <1>3, UpdateValuesAt
<1> DEFINE rows == TopicRows(version, config, kind)
           row  == CHOOSE r \in rows : r[1] = topic
<1>5. row \in rows /\ row[1] = topic
  BY DEF TopicsOf
<1>6. \A f : ValueOf(version, config, kind, f)[topic] = Value(version, kind, row[2], f)
  BY DEF ValueOf
<1>7. CASE topic \in DOMAIN P
  <2>1. P[topic] = ValueOf(version, config, kind, frame)[topic]
    BY <1>7 DEF Published
  <2> HIDE DEF V, D, P
  <2> QED BY <2>1, <1>2, <1>4, <1>7, PublishAt
<1>8. CASE topic \notin DOMAIN P
  <2>0. row[2] \cap Changed(kind, frame, full) = {}
    BY <1>5, <1>8 DEF Published
  <2>1. ~full /\ last[kind] # NoFrame
    BY <1>3, <1>5, <2>0 DEF Changed, Agree, RowsAreOfVersion
  <2>2. ASSUME NEW attr \in row[2]
        PROVE  frame \cap Printed(version, kind, attr) = last[kind] \cap Printed(version, kind, attr)
    <3>1. attr \notin Marked(Message(version, kind).marks, last[kind], frame)
      BY <2>0, <2>1 DEF Changed
    <3>2. \A bit \in Printed(version, kind, attr) :
             \E mark \in Message(version, kind).marks : bit[1] \in mark[1] /\ attr \in mark[2]
      BY <1>3, <1>5 DEF Agree, ReadsAreMarked
    <3> QED BY <3>1, <3>2, MarkedCovers
  <2>3. Value(version, kind, row[2], frame) = Value(version, kind, row[2], last[kind])
    BY <2>2 DEF Value
  <2>4. DOMAIN ValueOf(version, config, kind, last[kind]) = T
    BY DEF ValueOf
  <2>5. \/ topic \in lagging
        \/ topic \in DOMAIN broker /\ broker[topic] = ValueOf(version, config, kind, last[kind])[topic]
    BY <2>1, <2>4 DEF Inv, BrokerMirrorsLast, Shows
  <2>6. \/ topic \in lagging
        \/ topic \in DOMAIN broker /\ broker[topic] = ValueOf(version, config, kind, frame)[topic]
    BY <2>3, <2>5, <1>6
  <2>7. topic \notin D
    BY <1>3, <2>1 DEF Due, EstimateTopics, Agree, TopicsAreApart
  <2>8. SameTopic(topic) /\ (topic \in lagging' <=> topic \in lagging)
    <3> HIDE DEF V, D, P
    <3> QED BY <1>2, <1>4, <1>8, <2>7, PublishAt
  <2> QED BY <2>6, <2>8 DEF SameTopic
<1> QED BY <1>7, <1>8

\* Everything else it leaves as it was, or it is not of another kind.
LEMMA UpdateLeaves ==
  ASSUME Agree(version, config), NEW kind \in KindsOf(version), NEW frame \in setup.frames[kind],
         NEW full \in BOOLEAN, Update(kind, frame, full), NEW topic,
         topic \notin TopicsOf(version, config, kind),
         topic \notin EstimateTopics,
         topic[1] # "error" \/ topic[3] # "errorNumber"
  PROVE  SameTopic(topic) /\ (topic \in lagging' <=> topic \in lagging)
<1> DEFINE V == UpdateValues(kind, estimate', frame, full)
           D == Due(kind, estimate', full)
<1>1. Publish(V, D)
  BY UpdatePublishes
<1>2. topic \notin DOMAIN V
  BY UpdateValuesAt
<1>3. topic \notin D
  BY DEF Due
<1> HIDE DEF V, D
<1> QED BY <1>1, <1>2, <1>3, PublishAt

\* Filtered topics are published by what estimates them alone.
LEMMA UpdateFilters ==
  ASSUME Agree(version, config), NEW topic \in EstimateTopics,
         NEW kind \in KindsOf(version), NEW frame \in setup.frames[kind],
         NEW full \in BOOLEAN, Update(kind, frame, full),
         topic \in lagging \/ Shows(topic, estimate[topic])
  PROVE  topic \in lagging' \/ (topic \in DOMAIN broker' /\ broker'[topic] = estimate'[topic])
<1> DEFINE V == UpdateValues(kind, estimate', frame, full)
           D == Due(kind, estimate', full)
           E == Estimated(kind, estimate', full)
<1>1. Publish(V, D)
  BY UpdatePublishes
<1>2. /\ topic \in DOMAIN V <=> topic \in DOMAIN E
      /\ topic \in DOMAIN E => V[topic] = estimate'[topic]
  BY UpdateValuesAt
<1>3. topic \notin DOMAIN E => estimate'[topic] = estimate[topic] /\ topic \notin D
  <2>1. topic \notin TopicsOf(version, config, kind)
    BY DEF Agree, TopicsAreApart, EstimateTopics
  <2>2. kind # "MAIN" => estimate' = estimate
    BY DEF Update
  <2> QED BY <2>1, <2>2 DEF Estimated, Due
<1> HIDE DEF V, D, E
<1>4. CASE topic \in DOMAIN E
  BY <1>1, <1>2, <1>4, PublishAt
<1>5. CASE topic \notin DOMAIN E
  <2>1. SameTopic(topic) /\ (topic \in lagging' <=> topic \in lagging)
    BY <1>1, <1>2, <1>3, <1>5, PublishAt
  <2> QED BY <2>1, <1>3, <1>5 DEF SameTopic, Shows
<1> QED BY <1>4, <1>5

\* The steps that take no frame of these kinds.
Others ==
    \/ \E frame \in setup.errors : UpdateError(frame)
    \/ UpdateStats
    \/ SendDiscovery
    \/ Connect
    \/ ConnectionLost
    \/ NoticesLoss
    \/ Restart

\* What updateErrorStatus publishes.
ErrorValues(frame) ==
    IF Error!IsEmpty(version, frame) THEN <<>> ELSE ErrorPicture(version, frame)

LEMMA ErrorValuesAt ==
  ASSUME NEW frame, NEW topic \in DOMAIN ErrorValues(frame)
  PROVE  topic[1] = "error" /\ topic[3] # "errorNumber"
BY DEF ErrorValues, ErrorPicture, ErrorRows, Rows, ErrorTopics

\* They leave the topics of frames as they were; after a restart the estimates
\* are not shown any more.
LEMMA OthersLeave ==
  ASSUME Others, NEW topic, topic[1] \notin {"stats", "error"}
  PROVE  /\ SameTopic(topic)
         /\ topic \in lagging => topic \in lagging'
         /\ topic \in lagging' => topic \in lagging \/ topic \in EstimateTopics
<1>1. CASE \E frame \in setup.errors : UpdateError(frame)
  <2>1. PICK frame \in setup.errors : Publish(ErrorValues(frame), {})
    BY <1>1 DEF UpdateError, ErrorValues
  <2>2. topic \notin DOMAIN ErrorValues(frame)
    BY ErrorValuesAt
  <2> QED BY <2>1, <2>2, PublishAt
<1>2. CASE UpdateStats
  <2> DEFINE S == [t \in StatsTopics(config) |-> <<>>]
  <2>1. topic \notin DOMAIN S
    BY FirstOfStats
  <2>2. Publish(S, {})
    BY <1>2 DEF UpdateStats
  <2> HIDE DEF S
  <2> QED BY <2>1, <2>2, PublishAt
<1>3. CASE SendDiscovery
  BY <1>3 DEF SendDiscovery, Announce, SameTopic
<1>4. CASE Connect \/ ConnectionLost \/ NoticesLoss \/ Restart
  <2>1. topic # LastWill
    BY DEF LastWill
  <2> HIDE DEF LastWill
  <2> QED BY <1>4, <2>1 DEF Connect, ConnectionLost, NoticesLoss, Restart, SameTopic
<1> QED BY <1>1, <1>2, <1>3, <1>4 DEF Others

\* Only updates write last, except that a restart forgets all of it.
LEMMA OthersKeep ==
  ASSUME Others
  PROVE  /\ setup' = setup
         /\ \/ last' = last /\ estimate' = estimate
            \/ /\ last' = [kind \in KindsOf(version) |-> NoFrame]
               /\ estimate' = [topic \in EstimateTopics |-> Initial]
               /\ EstimateTopics \subseteq lagging'
BY DEF Others, UpdateError, UpdateStats, SendDiscovery, Announce, Connect, ConnectionLost,
       NoticesLoss, Restart

\* The heat pump stays the same.
LEMMA SetupKept ==
  ASSUME [Next]_vars
  PROVE  setup' = setup /\ version' = version /\ config' = config /\ EstimateTopics' = EstimateTopics
<1>1. setup' = setup
  BY OthersKeep DEF Next, Others, Update, vars
<1> QED BY <1>1 DEF version, config, EstimateTopics

\* The last will is published by the broker and by check_mqtt_connection alone.
LEMMA LastWillKept ==
  ASSUME LastWill \in DOMAIN broker,
         broker[LastWill] \in {"ONLINE", "OFFLINE"},
         Agree(version, config),
         Next
  PROVE  /\ LastWill \in DOMAIN broker'
         /\ broker'[LastWill] \in {"ONLINE", "OFFLINE"}
<1>1. ASSUME NEW kind \in KindsOf(version), NEW frame \in setup.frames[kind],
             NEW full \in BOOLEAN, Update(kind, frame, full)
      PROVE  SameTopic(LastWill)
  <2>1. LastWill \notin TopicsOf(version, config, kind)
    BY FirstOfTopic DEF LastWill
  <2>2. LastWill \notin EstimateTopics
    BY FirstOfFiltered DEF LastWill, EstimateTopics
  <2>3. LastWill[1] # "error"
    BY DEF LastWill
  <2> HIDE DEF LastWill
  <2> QED BY <1>1, <2>1, <2>2, <2>3, UpdateLeaves
<1>2. ASSUME NEW frame \in setup.errors, UpdateError(frame)
      PROVE  SameTopic(LastWill)
  <2>1. LastWill \notin DOMAIN ErrorValues(frame)
    BY ErrorValuesAt DEF LastWill
  <2>2. Publish(ErrorValues(frame), {})
    BY <1>2 DEF UpdateError, ErrorValues
  <2> HIDE DEF LastWill
  <2> QED BY <2>1, <2>2, PublishAt
<1>3. ASSUME UpdateStats
      PROVE  SameTopic(LastWill)
  <2> DEFINE S == [t \in StatsTopics(config) |-> <<>>]
  <2>1. LastWill \notin DOMAIN S
    BY DEF StatsTopics, StatisticsTopics, OverrideTopics, LastWill
  <2>2. Publish(S, {})
    BY <1>3 DEF UpdateStats
  <2> HIDE DEF S, LastWill
  <2> QED BY <2>1, <2>2, PublishAt
<1>4. ASSUME SendDiscovery \/ Connect \/ ConnectionLost \/ NoticesLoss \/ Restart
      PROVE  LastWill \in DOMAIN broker' /\ broker'[LastWill] \in {"ONLINE", "OFFLINE"}
  BY <1>4 DEF SendDiscovery, Announce, Connect, ConnectionLost, NoticesLoss, Restart
<1> HIDE DEF LastWill
<1> QED BY <1>1, <1>2, <1>3, <1>4 DEF Next, SameTopic

-----------------------------------------------------------------------------
(* Type correctness *)

\* A connection that has announced the entities has announced all of them.
TypeInv ==
    /\ TypeOK
    /\ LastWill \in DOMAIN broker
    /\ connection = "up" /\ mPublishedDiscovery => entities = Discovery!Entities(version, config)

LEMMA TypeInvInit == Init => TypeInv
BY PublisherAssumption DEF Init, TypeInv, TypeOK, LastWill

LEMMA AgreeOfType == TypeInv => Agree(version, config)
BY AllSetupsAgree DEF TypeInv, TypeOK, AgreeingSetups, version, config

\* What Home Assistant is told of, and over which connection.
LEMMA AnnouncedKept ==
  ASSUME TypeInv, Next
  PROVE  /\ connection' \in {"up", "lost", "closed"}
         /\ mPublishedDiscovery' \in BOOLEAN
         /\ entities' \subseteq Discovery!Entities(version, config)
         /\ connection' = "up" /\ mPublishedDiscovery' => entities' = Discovery!Entities(version, config)
<1> DEFINE all == Discovery!Entities(version, config)
           Kept == /\ connection' \in {"up", "lost", "closed"}
                   /\ mPublishedDiscovery' \in BOOLEAN
                   /\ entities' \subseteq all
                   /\ connection' = "up" /\ mPublishedDiscovery' => entities' = all
<1>1. /\ connection \in {"up", "lost", "closed"}
      /\ mPublishedDiscovery \in BOOLEAN
      /\ entities \subseteq all
      /\ connection = "up" /\ mPublishedDiscovery => entities = all
  BY DEF TypeInv, TypeOK
<1> HIDE DEF all
<1>2. ASSUME NEW values, NEW due, Publish(values, due),
             mPublishedDiscovery' = mPublishedDiscovery, entities' = entities
      PROVE  Kept
  <2>1. connection' \in {"up", "lost"} /\ (connection' = "up" => connection = "up")
    BY <1>1, <1>2, PublishConnection
  <2> QED BY <1>1, <1>2, <2>1
<1>3. ASSUME NEW kind, NEW frame, NEW full, Update(kind, frame, full)
      PROVE  Kept
  <2>1. mPublishedDiscovery' = mPublishedDiscovery /\ entities' = entities
    BY <1>3 DEF Update
  <2> HIDE DEF Kept
  <2> QED BY <1>2, <1>3, <2>1, UpdatePublishes
<1>4. ASSUME \/ \E frame \in setup.errors : UpdateError(frame)
             \/ UpdateStats
      PROVE  Kept
  <2> HIDE DEF Kept
  <2> QED BY <1>2, <1>4 DEF UpdateError, UpdateStats
<1>5. ASSUME SendDiscovery
      PROVE  Kept
  <2>1. PICK lost \in Losses(all, { { entity \in all : entity.reads \cap cut # {} } : cut \in Cuts }) :
           Loses(lost) /\ entities' = entities \cup (all \ lost)
    BY <1>5 DEF SendDiscovery, Announce, all
  <2>2. mPublishedDiscovery' = TRUE
    BY <1>5 DEF SendDiscovery, Announce
  <2>3. /\ connection' \in {"up", "lost"}
        /\ connection' = "up" => lost = {}
    BY <1>1, <2>1 DEF Loses, Breaks
  <2> QED BY <1>1, <2>1, <2>2, <2>3
<1>6. ASSUME Connect \/ ConnectionLost \/ NoticesLoss \/ Restart
      PROVE  Kept
  BY <1>1, <1>6 DEF Connect, ConnectionLost, NoticesLoss, Restart, Breaks
<1>7. Kept
  <2> HIDE DEF Kept
  <2> QED BY <1>3, <1>4, <1>5, <1>6 DEF Next
<1> QED BY <1>7 DEF all

LEMMA TypeInvNext == TypeInv /\ [Next]_vars => TypeInv'
<1> SUFFICES ASSUME TypeInv, [Next]_vars
             PROVE  TypeInv'
  OBVIOUS
<1>1. CASE Next
  <2>1. LastWill \in DOMAIN broker' /\ broker'[LastWill] \in {"ONLINE", "OFFLINE"}
    BY <1>1, LastWillKept, AgreeOfType DEF TypeInv, TypeOK
  <2>2. setup' = setup /\ version' = version /\ config' = config /\ EstimateTopics' = EstimateTopics
    BY SetupKept
  <2>3. /\ DOMAIN last' = KindsOf(version)
        /\ \A kind \in KindsOf(version) : last'[kind] \in setup.frames[kind] \cup {NoFrame}
    <3>1. ASSUME NEW kind \in KindsOf(version), NEW frame \in setup.frames[kind],
                 NEW full \in BOOLEAN, Update(kind, frame, full)
          PROVE  <2>3
      BY <3>1 DEF Update, TypeInv, TypeOK
    <3>2. CASE Others
      BY <3>2, OthersKeep DEF TypeInv, TypeOK
    <3> QED BY <1>1, <3>1, <3>2 DEF Next, Others
  <2>4. estimate' \in [EstimateTopics -> Estimates]
    <3>1. ASSUME NEW kind \in KindsOf(version), NEW frame \in setup.frames[kind],
                 NEW full \in BOOLEAN, Update(kind, frame, full)
          PROVE  <2>4
      <4>1. \/ \E e \in Estimates : estimate' = [t \in EstimateTopics |-> e]
            \/ estimate' = estimate
        BY <3>1 DEF Update
      <4> QED BY <4>1 DEF TypeInv, TypeOK
    <3>2. CASE Others
      BY <3>2, OthersKeep, PublisherAssumption DEF TypeInv, TypeOK
    <3> QED BY <1>1, <3>1, <3>2 DEF Next, Others
  <2>5. /\ connection' \in {"up", "lost", "closed"}
        /\ mPublishedDiscovery' \in BOOLEAN
        /\ entities' \subseteq Discovery!Entities(version, config)
        /\ connection' = "up" /\ mPublishedDiscovery' => entities' = Discovery!Entities(version, config)
    BY <1>1, AnnouncedKept
  <2>6. setup' \in Setups
    BY <2>2 DEF TypeInv, TypeOK
  <2> QED BY <2>1, <2>2, <2>3, <2>4, <2>5, <2>6 DEF TypeInv, TypeOK
<1>2. CASE UNCHANGED vars
  BY <1>2 DEF vars, TypeInv, TypeOK, version, config, EstimateTopics
<1> QED BY <1>1, <1>2

\* Every variable keeps its type: what was processed last is a frame of its kind,
\* and what was announced are entities of the version and configuration.
THEOREM PublisherTyped == Spec => []TypeOK
<1>1. TypeInv => TypeOK
  BY DEF TypeInv
<1> QED BY <1>1, TypeInvInit, TypeInvNext, PTL DEF Spec

-----------------------------------------------------------------------------
(* The topics show the last frame *)

LEMMA InvInit == Init => Inv
BY AllSetupsAgree DEF Init, TablesAgree, Inv, BrokerMirrorsLast, LastWill, version

\* The last will has a value for ever.
LEMMA LastWillStays ==
  ASSUME Agree(version, config), LastWill \in DOMAIN broker, [Next]_vars
  PROVE  LastWill \in DOMAIN broker'
<1>1. ASSUME NEW values, NEW due, Publish(values, due)
      PROVE  LastWill \in DOMAIN broker'
  BY <1>1, PublishAt DEF SameTopic
<1>2. ASSUME NEW kind, NEW frame, NEW full, Update(kind, frame, full)
      PROVE  LastWill \in DOMAIN broker'
  BY <1>1, <1>2, UpdatePublishes
<1>3. CASE Others
  BY <1>1, <1>3 DEF Others, UpdateError, UpdateStats, SendDiscovery, Announce, Connect,
                    ConnectionLost, NoticesLoss, Restart
<1>4. CASE UNCHANGED vars
  BY <1>4 DEF vars
<1> QED BY <1>2, <1>3, <1>4 DEF Next, Others

LEMMA InvNext == Inv /\ [Next]_vars => Inv'
<1> SUFFICES ASSUME Inv, [Next]_vars
             PROVE  Inv'
  OBVIOUS
<1>1. \A kind, frame : DOMAIN ValueOf(version, config, kind, frame) = TopicsOf(version, config, kind)
  BY DEF ValueOf
<1>2. ASSUME NEW kind \in KindsOf(version), NEW topic \in TopicsOf(version, config, kind),
             last[kind] # NoFrame, topic \notin lagging
      PROVE  /\ topic \in DOMAIN broker
             /\ broker[topic] = ValueOf(version, config, kind, last[kind])[topic]
  BY <1>1, <1>2 DEF Inv, BrokerMirrorsLast, Shows
<1>3. setup' = setup /\ version' = version /\ config' = config
  BY SetupKept
<1> DEFINE Mirrored ==
               \A kind \in KindsOf(version) : last'[kind] # NoFrame =>
                   \A topic \in TopicsOf(version, config, kind) \ lagging' :
                       /\ topic \in DOMAIN broker'
                       /\ broker'[topic] = ValueOf(version, config, kind, last'[kind])[topic]
<1>4. Mirrored => BrokerMirrorsLast'
  BY <1>1, <1>3 DEF BrokerMirrorsLast, Shows
<1>0. LastWill \in DOMAIN broker'
  BY AgreeOfInv, LastWillStays DEF Inv
<1>5. ASSUME NEW kind \in KindsOf(version), NEW frame \in setup.frames[kind],
             NEW full \in BOOLEAN, Update(kind, frame, full)
      PROVE  Inv'
  <2>1. last' = [last EXCEPT ![kind] = frame] /\ DOMAIN last = KindsOf(version)
    BY <1>5 DEF Update, Inv
  <2>2. ASSUME NEW other \in KindsOf(version), last'[other] # NoFrame,
               NEW topic \in TopicsOf(version, config, other) \ lagging'
        PROVE  /\ topic \in DOMAIN broker'
               /\ broker'[topic] = ValueOf(version, config, other, last'[other])[topic]
    <3>1. CASE other = kind
      BY <1>5, <2>1, <2>2, <3>1, UpdateShows
    <3>2. CASE other # kind
      <4>1. last'[other] = last[other]
        BY <2>1, <3>2
      <4>2. topic \notin TopicsOf(version, config, kind)
        BY <2>2, <3>2, AgreeOfInv DEF Agree, TopicsAreApart
      <4>3. topic \notin EstimateTopics
        BY <2>2, AgreeOfInv DEF Agree, TopicsAreApart, EstimateTopics
      <4>4. topic[1] # "error"
        BY <2>2, FirstOfTopic
      <4>5. SameTopic(topic) /\ (topic \in lagging' <=> topic \in lagging)
        BY <1>5, <4>2, <4>3, <4>4, AgreeOfInv, UpdateLeaves
      <4> QED BY <1>2, <2>2, <4>1, <4>5 DEF SameTopic
    <3> QED BY <3>1, <3>2
  <2>4. Mirrored
    BY <2>2
  <2> QED BY <1>0, <1>3, <1>4, <2>1, <2>4 DEF Inv
<1>6. CASE Others
  <2>1. DOMAIN last' = KindsOf(version)
    BY <1>6, OthersKeep DEF Inv
  <2>3. ASSUME NEW kind \in KindsOf(version), last'[kind] # NoFrame,
               NEW topic \in TopicsOf(version, config, kind) \ lagging'
        PROVE  /\ topic \in DOMAIN broker'
               /\ broker'[topic] = ValueOf(version, config, kind, last'[kind])[topic]
    <3>1. last' = last
      BY <1>6, <2>3, OthersKeep
    <3>2. topic[1] \notin {"stats", "error"}
      BY <2>3, FirstOfTopic
    <3> QED BY <1>2, <1>6, <2>3, <3>1, <3>2, OthersLeave DEF SameTopic
  <2>4. Mirrored
    BY <2>3
  <2> QED BY <1>0, <1>3, <1>4, <2>1, <2>4 DEF Inv
<1>7. CASE UNCHANGED vars
  BY <1>7 DEF vars, Inv, BrokerMirrorsLast, Shows, version, config
<1> QED BY <1>5, <1>6, <1>7 DEF Next, Others

\* In every version and configuration, the tables of message/<version>/ and the
\* topics of task/MQTTTask.cpp agree.
THEOREM PublisherTablesAgree == Spec => []TablesAgree
<1>1. Inv => TablesAgree
  BY DEF Inv, TablesAgree
<1> QED BY <1>1, InvInit, InvNext, PTL DEF Spec

\* The topics of every kind of frame show its last one, but those whose value was
\* lost: no change of a value is missed, no other kind of frame publishes to them,
\* and a full update that gets through repairs what was lost.
THEOREM TopicsMirrorFrames == Spec => []BrokerMirrorsLast
<1>1. Inv => BrokerMirrorsLast
  BY DEF Inv
<1> QED BY <1>1, InvInit, InvNext, PTL DEF Spec

-----------------------------------------------------------------------------
(* The filtered topics show the estimate *)

EstimateInv == Inv /\ TypeInv /\ EstimatesAreShown

LEMMA EstimateInvInit == Init => EstimateInv
<1>1. Init => EstimatesAreShown
  BY DEF Init, EstimatesAreShown
<1> QED BY <1>1, InvInit, TypeInvInit DEF EstimateInv

LEMMA EstimateInvNext == EstimateInv /\ [Next]_vars => EstimatesAreShown'
<1>0. ASSUME [Next]_vars PROVE EstimateTopics' = EstimateTopics
  BY <1>0, SetupKept
<1> SUFFICES ASSUME EstimateInv, [Next]_vars, NEW topic \in EstimateTopics \ lagging'
             PROVE  topic \in DOMAIN broker' /\ broker'[topic] = estimate'[topic]
  BY <1>0 DEF EstimatesAreShown, Shows
<1>2. topic \in lagging \/ Shows(topic, estimate[topic])
  BY DEF EstimateInv, EstimatesAreShown
<1>3. ASSUME NEW kind \in KindsOf(version), NEW frame \in setup.frames[kind],
             NEW full \in BOOLEAN, Update(kind, frame, full)
      PROVE  topic \in DOMAIN broker' /\ broker'[topic] = estimate'[topic]
  <2>1. Agree(version, config)
    BY AgreeOfInv DEF EstimateInv
  <2> QED BY <1>2, <1>3, <2>1, UpdateFilters
<1>4. CASE Others
  <2>1. estimate' = estimate
    BY <1>4, OthersKeep
  <2>2. topic[1] \notin {"stats", "error"}
    BY FirstOfFiltered DEF EstimateTopics
  <2> QED BY <1>2, <1>4, <2>1, <2>2, OthersLeave DEF Shows, SameTopic
<1>5. CASE UNCHANGED vars
  BY <1>2, <1>5 DEF vars, Shows
<1> QED BY <1>3, <1>4, <1>5 DEF Next, Others

\* Filtered temperatures show the estimate made last, whatever is published of
\* the frames in between, but those whose value was lost and, after a start, those
\* that were not published yet.
THEOREM FilteredMirrorEstimates == Spec => []EstimatesAreShown
<1>1. EstimateInv /\ [Next]_vars => EstimateInv'
  BY EstimateInvNext, InvNext, TypeInvNext DEF EstimateInv
<1>2. EstimateInv => EstimatesAreShown
  BY DEF EstimateInv
<1> QED BY <1>1, <1>2, EstimateInvInit, PTL DEF Spec

-----------------------------------------------------------------------------
(* Home Assistant is told of the topics *)

\* One of the entities reads the topic.
IsRead(topic, es) == \E entity \in es : topic \in entity.reads

\* The sensors of some names read the topics of these names.
LEMMA SensorsRead ==
  ASSUME NEW topic, NEW subtopic, NEW names
  PROVE  (\E entity \in Discovery!Sensors(subtopic, names) : topic \in entity.reads)
             <=> topic \in {subtopic} \X names
<1>1. ASSUME NEW entity \in Discovery!Sensors(subtopic, names), topic \in entity.reads
      PROVE  topic \in {subtopic} \X names
  <2>1. PICK name \in names : topic \in {<<subtopic, name>>}
    BY <1>1 DEF Discovery!Sensors, Discovery!Entity
  <2> QED BY <2>1
<1>2. ASSUME NEW name \in names, topic = <<subtopic, name>>
      PROVE  \E entity \in Discovery!Sensors(subtopic, names) : topic \in entity.reads
  <2>1. Discovery!Entity({<<subtopic, name>>}, {}, {}) \in Discovery!Sensors(subtopic, names)
    BY DEF Discovery!Sensors
  <2>2. topic \in Discovery!Entity({<<subtopic, name>>}, {}, {}).reads
    BY <1>2 DEF Discovery!Entity
  <2> QED BY <2>1, <2>2
<1> QED BY <1>1, <1>2

\* The entities of a JSON topic, or of the topics below another.
Keys(subtopic, side, names) ==
    { Discovery!Entity({<<subtopic, side, name>>}, {}, {}) : name \in names }

\* So do they.
LEMMA KeysRead ==
  ASSUME NEW topic, NEW subtopic, NEW side, NEW names
  PROVE  (\E entity \in Keys(subtopic, side, names) : topic \in entity.reads)
             <=> topic \in {subtopic} \X {side} \X names
<1> DEFINE es == Keys(subtopic, side, names)
<1>1. ASSUME NEW entity \in es, topic \in entity.reads
      PROVE  topic \in {subtopic} \X {side} \X names
  <2>1. PICK name \in names : topic \in {<<subtopic, side, name>>}
    BY <1>1 DEF Keys, Discovery!Entity
  <2> QED BY <2>1
<1>2. ASSUME NEW name \in names, topic = <<subtopic, side, name>>
      PROVE  \E entity \in es : topic \in entity.reads
  <2>1. Discovery!Entity({<<subtopic, side, name>>}, {}, {}) \in es
    BY DEF Keys
  <2>2. topic \in Discovery!Entity({<<subtopic, side, name>>}, {}, {}).reads
    BY <1>2 DEF Discovery!Entity
  <2> QED BY <2>1, <2>2
<1>3. topic \in {subtopic} \X {side} \X names =>
          \E name \in names : topic = <<subtopic, side, name>>
  OBVIOUS
<1> HIDE DEF es
<1>4. (\E entity \in es : topic \in entity.reads) <=> topic \in {subtopic} \X {side} \X names
  BY <1>1, <1>2, <1>3
<1> QED BY <1>4 DEF es

\* The entities of frame 193.
LEMMA MainEntities ==
  ASSUME NEW v, NEW topic
  PROVE  /\ IsRead(topic, Discovery!Temperatures(v)) <=>
            topic \in ({"main"} \X {"waterTemp", "supplyAirTemp", "evaporatorAirTemp",
                                    "evaporatorAirTempLower", "fanPWM"})
                \cup (IF v # "LEGACY" THEN {"main"} \X {"compressorOutletTemp"} ELSE {})
                \cup (IF v = "ODYSSEE" THEN {"main"} \X {"waterTempUpper", "waterTempLower"} ELSE {})
         /\ IsRead(topic, Discovery!States(v)) <=>
            topic \in ({"main"} \X {"stateFan", "stateHeatpump", "stateElement", "stateExtBoiler",
                                    "stateDefrost"})
                \cup (IF v # "ODYSSEE" THEN {"main"} \X {"statePV", "stateSolar"} ELSE {})
         /\ IsRead(topic, Discovery!Settings(v)) <=>
            /\ v = "LEGACY"
            /\ topic \in {"main"} \X {"settingPWM_1", "settingPWM_2", "settingPWM_3",
                                      "settingMinTargetTemp", "settingMinLegionellaTemp",
                                      "settingWattageElement", "settingBoilerCapacity",
                                      "settingBoilerBrand"}
         /\ IsRead(topic, Discovery!Capabilities(v)) <=>
            /\ v = "LEGACY"
            /\ topic \in {"main"} \X {"capabilityHeatExchanger", "capabilityCirculation",
                                      "capabilityPVInput", "capabilityCommunication"}
<1>1. \A s, names : (\E entity \in Discovery!Sensors(s, names) : topic \in entity.reads)
                        <=> topic \in {s} \X names
  BY SensorsRead
<1> QED BY <1>1 DEF IsRead, Discovery!Temperatures, Discovery!States, Discovery!Settings,
                    Discovery!Capabilities, Discovery!Only

\* The sensors of frames 67 and 217.
LEMMA EnergyEntities ==
  ASSUME NEW v, NEW topic
  PROVE  /\ IsRead(topic, Discovery!EnergySensors(v)) <=>
            \/ topic \in {"energy"} \X {"totalHeatingElemHours", "totalHeatpumpHours",
                                        "totalEnergyWh", "powerTotal"}
            \/ v = "LEGACY" /\ topic = <<"main", "errorCode">>
            \/ v = "LEGACY" /\ topic \in {"energy"} \X {"totalHours", "powerHeatingElem",
                                                        "powerHeatpump", "totalWaterProduction"}
            \/ v = "ODYSSEE" /\ topic \in {"energy"} \X {"voltageGrid", "amperage"}
         /\ IsRead(topic, Discovery!Diagnosis(v)) <=>
            v = "NEXT" /\ topic \in {"energy"} \X DOMAIN EnergyDiagnosis
<1>1. \A s, names : (\E entity \in Discovery!Sensors(s, names) : topic \in entity.reads)
                        <=> topic \in {s} \X names
  BY SensorsRead
<1>2. DOMAIN EnergyDiagnosis =
          {"diagAirTempMax", "diagAirTempMin", "diagEvaUpperMax", "diagEvaUpperMin",
           "diagEvaLowerMax", "diagEvaLowerMin", "diagCompressorMax", "diagCompressorMin",
           "diagWaterTempMax", "diagWaterTempMin"}
  BY DEF EnergyDiagnosis
<1>3. IsRead(topic, Discovery!Diagnosis(v)) <=>
      v = "NEXT" /\ topic \in {"energy"} \X DOMAIN EnergyDiagnosis
  BY <1>1, <1>2 DEF IsRead, Discovery!Diagnosis, Discovery!Only
<1> QED BY <1>1, <1>3 DEF IsRead, Discovery!EnergySensors, Discovery!Only

\* The sensors of frame 194, and of software.
LEMMA HMIEntities ==
  ASSUME NEW v, NEW c, NEW topic
  PROVE  /\ IsRead(topic, Discovery!HMISensors(v, c)) <=>
            topic \in ({"hmi"} \X {"antiLegionellaPerMonth"})
                \cup (IF c.timeAndDate THEN {"hmi"} \X {"time", "date"} ELSE {})
                \cup (IF v # "ODYSSEE" THEN {"hmi"} \X {"timerWindowA", "timerWindowB"} ELSE {})
                \cup (IF v = "LEGACY" THEN {"hmi"} \X {"setupState"} ELSE {})
         /\ IsRead(topic, Discovery!SoftwareVersions(v)) <=>
            topic \in ({"hmi"} \X {"versionHMI"}) \cup ({"main"} \X {"versionMain"})
                \cup (IF v = "LEGACY" THEN {"hmi"} \X {"testModeStatus"} ELSE {})
                \cup (IF v # "ODYSSEE" THEN {"hmi"} \X {"pvInputActivated"} ELSE {})
<1>1. \A s, names : (\E entity \in Discovery!Sensors(s, names) : topic \in entity.reads)
                        <=> topic \in {s} \X names
  BY SensorsRead
<1> QED BY <1>1 DEF IsRead, Discovery!HMISensors, Discovery!SoftwareVersions, Discovery!Only

\* What AquaMQTT tells of itself.
LEMMA DeviceEntities ==
  ASSUME NEW c, c.mode \in {"MITM", "LISTENER"}, NEW topic
  PROVE  IsRead(topic, Discovery!Device(c)) \/ IsRead(topic, Discovery!SerialStatistics(c))
             \/ IsRead(topic, Discovery!ActiveOverrides(c))
             \/ (c.mode = "MITM" /\ topic \in {"stats"} \X {"flagPVModeHeatPump", "flagPVModeHeatElement"})
         <=> topic \in (StatsTopics(c) \cup {LastWill}) \ {<<"stats", "protocolVersion">>}
<1>1. \A s, names : (\E entity \in Discovery!Sensors(s, names) : topic \in entity.reads)
                        <=> topic \in {s} \X names
  BY SensorsRead
<1>2. IsRead(topic, Discovery!Device(c)) <=>
      topic \in ({"stats"} \X {"lwlState", "ipAddress", "rssiDb", "aquamqttMode"})
          \cup (IF c.mode # "LISTENER" THEN {"stats"} \X {"overrideMode"} ELSE {})
  BY <1>1 DEF IsRead, Discovery!Device, Discovery!Only
<1>3. IsRead(topic, Discovery!SerialStatistics(c)) <=> topic \in StatisticsTopics(c)
  <2> DEFINE received == {"msgHandled", "msgUnhandled", "msgCRCNOK", "droppedBytes"}
             sides(side) == Keys("stats", side, received \cup {"msgSent"})
  <2>1. CASE c.statistics /\ c.mode = "MITM"
    <3>1. Discovery!SerialStatistics(c) = UNION { sides(side) : side \in {"hmi", "main"} }
      BY <2>1 DEF Discovery!SerialStatistics, Discovery!Only, Discovery!IsMitm, Keys
    <3>2. StatisticsTopics(c) = {"stats"} \X {"hmi", "main"} \X (received \cup {"msgSent"})
      BY <2>1 DEF StatisticsTopics
    <3>3. \A side : (\E entity \in sides(side) : topic \in entity.reads)
                        <=> topic \in {"stats"} \X {side} \X (received \cup {"msgSent"})
      <4> HIDE DEF received
      <4> QED BY KeysRead
    <3> HIDE DEF sides, received
    <3>4. IsRead(topic, Discovery!SerialStatistics(c)) <=>
          \E side \in {"hmi", "main"} : \E entity \in sides(side) : topic \in entity.reads
      BY <3>1 DEF IsRead
    <3> QED BY <3>2, <3>3, <3>4
  <2>2. CASE c.statistics /\ c.mode = "LISTENER"
    <3>1. Discovery!SerialStatistics(c) = Discovery!Sensors("stats", received)
      BY <2>2 DEF Discovery!SerialStatistics, Discovery!Only, Discovery!IsMitm
    <3>2. StatisticsTopics(c) = {"stats"} \X received
      BY <2>2 DEF StatisticsTopics
    <3> HIDE DEF received
    <3>3. (\E entity \in Discovery!Sensors("stats", received) : topic \in entity.reads)
              <=> topic \in {"stats"} \X received
      BY SensorsRead
    <3> QED BY <3>1, <3>2, <3>3 DEF IsRead
  <2>3. CASE ~c.statistics
    BY <2>3 DEF IsRead, Discovery!SerialStatistics, Discovery!Only, StatisticsTopics
  <2> QED BY <2>1, <2>2, <2>3
<1>4. IsRead(topic, Discovery!ActiveOverrides(c)) <=>
      /\ c.mode # "LISTENER"
      /\ \/ topic \in {"stats"} \X {"activeOverrides"} \X
                  {"operationMode", "operationType", "waterTempTarget", "heatingElementEnabled",
                   "emergencyModeEnabled", "configInstallation", "configFanExhaust",
                   "configAirduct", "time/date"}
         \/ topic \in {"stats"} \X {"activeOverridesMain"} \X {"stateSolar", "statePV"}
  <2> DEFINE hmi == {"operationMode", "operationType", "waterTempTarget", "heatingElementEnabled",
                     "emergencyModeEnabled", "configInstallation", "configFanExhaust",
                     "configAirduct", "time/date"}
             keys(side, names) == Keys("stats", side, names)
  <2>1. Discovery!ActiveOverrides(c) =
            IF c.mode # "LISTENER"
            THEN keys("activeOverrides", hmi)
                     \cup keys("activeOverridesMain", {"stateSolar", "statePV"}) ELSE {}
    BY DEF Discovery!ActiveOverrides, Discovery!Only, Keys
  <2>2. \A side, names : (\E entity \in keys(side, names) : topic \in entity.reads)
                             <=> topic \in {"stats"} \X {side} \X names
    BY KeysRead
  <2> HIDE DEF keys
  <2> QED BY <2>1, <2>2 DEF IsRead
<1>5. CASE c.mode = "LISTENER"
  <2>1. StatsTopics(c) = ({"stats"} \X {"aquamqttMode", "ipAddress", "rssiDb", "protocolVersion"})
                             \cup StatisticsTopics(c)
    BY <1>5 DEF StatsTopics, OverrideTopics
  <2>2. <<"stats", "protocolVersion">> \notin StatisticsTopics(c)
    BY <1>5 DEF StatisticsTopics
  <2> QED BY <1>2, <1>3, <1>4, <1>5, <2>1, <2>2 DEF LastWill
<1>6. CASE c.mode = "MITM"
  <2> DEFINE hmi == {"stats"} \X {"activeOverrides"} \X
                        {"operationMode", "operationType", "waterTempTarget",
                         "heatingElementEnabled", "emergencyModeEnabled", "configInstallation",
                         "configFanExhaust", "configAirduct", "time/date"}
             main == {"stats"} \X {"activeOverridesMain"} \X {"statePV", "stateSolar"}
  <2>1. StatsTopics(c) =
            ({"stats"} \X {"aquamqttMode", "ipAddress", "rssiDb", "protocolVersion",
                           "overrideMode", "flagPVModeHeatPump", "flagPVModeHeatElement"})
                \cup StatisticsTopics(c) \cup hmi \cup main
    BY <1>6 DEF StatsTopics, OverrideTopics
  <2>2. <<"stats", "protocolVersion">> \notin StatisticsTopics(c) \cup hmi \cup main
    BY <1>6 DEF StatisticsTopics
  <2>3. IsRead(topic, Discovery!ActiveOverrides(c)) <=> topic \in hmi \cup main
    BY <1>4, <1>6
  <2> HIDE DEF hmi, main
  <2> QED BY <1>2, <1>3, <1>6, <2>1, <2>2, <2>3 DEF LastWill
<1> QED BY <1>5, <1>6

\* The entities with which a user changes settings.
LEMMA ControlEntities ==
  ASSUME NEW v, NEW c, c.mode \in {"MITM", "LISTENER"}, NEW topic
  PROVE  /\ IsRead(topic, Discovery!Numbers(c)) <=> topic = <<"hmi", "waterTempTarget">>
         /\ ~IsRead(topic, Discovery!Buttons(c))
         /\ IsRead(topic, Discovery!Selects(v, c)) <=>
            topic \in ({"hmi"} \X {"operationMode", "operationType", "configAirduct"})
                \cup (IF v # "ODYSSEE" THEN {"hmi"} \X {"configInstallation", "configFanExhaust"}
                      ELSE {})
         /\ IsRead(topic, Discovery!Switches(v, c)) <=>
            topic \in (IF c.mode = "MITM"
                       THEN {"stats"} \X {"flagPVModeHeatPump", "flagPVModeHeatElement"} ELSE {})
                \cup {<<"hmi", "emergencyModeEnabled">>}
                \cup (IF v # "ODYSSEE" THEN {<<"hmi", "heatingElementEnabled">>} ELSE {})
         /\ IsRead(topic, Discovery!WaterHeaters(c)) <=> topic \in Discovery!HeaterTopics
         /\ IsRead(topic, Discovery!Climates(c)) => topic \in Discovery!HeaterTopics
<1>1. \A name, options : topic \in Discovery!Control(c, name, options).reads <=> topic = <<"hmi", name>>
  BY DEF Discovery!Control, Discovery!Entity
<1>2. IsRead(topic, Discovery!Numbers(c)) <=> topic = <<"hmi", "waterTempTarget">>
  BY <1>1 DEF IsRead, Discovery!Numbers
<1>3. ~IsRead(topic, Discovery!Buttons(c))
  BY DEF IsRead, Discovery!Buttons, Discovery!Only, Discovery!Entity
<1>4. IsRead(topic, Discovery!Selects(v, c)) <=>
      topic \in ({"hmi"} \X {"operationMode", "operationType", "configAirduct"})
          \cup (IF v # "ODYSSEE" THEN {"hmi"} \X {"configInstallation", "configFanExhaust"} ELSE {})
  <2> DEFINE base(a, b, d) == { Discovery!Control(c, "operationMode", a),
                               Discovery!Control(c, "operationType", b),
                               Discovery!Control(c, "configAirduct", d) }
             more(a, b) == { Discovery!Control(c, "configInstallation", a),
                            Discovery!Control(c, "configFanExhaust", b) }
             others(a, b) == Discovery!Only(v # "ODYSSEE", more(a, b))
  <2>1. \A a, b, d : IsRead(topic, base(a, b, d)) <=>
            topic \in {"hmi"} \X {"operationMode", "operationType", "configAirduct"}
    BY <1>1 DEF IsRead
  <2>2. \A a, b : IsRead(topic, more(a, b)) <=>
            topic \in {"hmi"} \X {"configInstallation", "configFanExhaust"}
    BY <1>1 DEF IsRead
  <2>3. \E a, b, d, f, g : Discovery!Selects(v, c) = base(a, b, d) \cup others(f, g)
    BY DEF Discovery!Selects
  <2> HIDE DEF base, more
  <2>4. CASE v = "ODYSSEE"
    <3>1. \A f, g : others(f, g) = {}
      BY <2>4 DEF Discovery!Only
    <3> QED BY <2>1, <2>3, <2>4, <3>1 DEF IsRead
  <2>5. CASE v # "ODYSSEE"
    <3>1. \A f, g : others(f, g) = more(f, g)
      BY <2>5 DEF Discovery!Only
    <3> QED BY <2>1, <2>2, <2>3, <2>5, <3>1 DEF IsRead
  <2> QED BY <2>4, <2>5
<1>5. IsRead(topic, Discovery!Switches(v, c)) <=>
      topic \in (IF c.mode = "MITM"
                 THEN {"stats"} \X {"flagPVModeHeatPump", "flagPVModeHeatElement"} ELSE {})
          \cup {<<"hmi", "emergencyModeEnabled">>}
          \cup (IF v # "ODYSSEE" THEN {<<"hmi", "heatingElementEnabled">>} ELSE {})
  <2> DEFINE flags == { Discovery!Entity({<<"stats", flag>>}, {flag}, {"1", "0"}) :
                           flag \in {"flagPVModeHeatPump", "flagPVModeHeatElement"} }
  <2>1. (\E entity \in flags : topic \in entity.reads) <=>
        topic \in {"stats"} \X {"flagPVModeHeatPump", "flagPVModeHeatElement"}
    <3>1. \A entity \in flags : \E flag \in {"flagPVModeHeatPump", "flagPVModeHeatElement"} :
              entity.reads = {<<"stats", flag>>}
      BY DEF Discovery!Entity
    <3>2. \A flag \in {"flagPVModeHeatPump", "flagPVModeHeatElement"} : \E entity \in flags :
              entity.reads = {<<"stats", flag>>}
      <4> SUFFICES ASSUME NEW flag \in {"flagPVModeHeatPump", "flagPVModeHeatElement"}
                   PROVE  \E entity \in flags : entity.reads = {<<"stats", flag>>}
        OBVIOUS
      <4>1. Discovery!Entity({<<"stats", flag>>}, {flag}, {"1", "0"}) \in flags
        OBVIOUS
      <4>2. Discovery!Entity({<<"stats", flag>>}, {flag}, {"1", "0"}).reads = {<<"stats", flag>>}
        BY DEF Discovery!Entity
      <4> QED BY <4>1, <4>2
    <3> HIDE DEF flags
    <3> QED BY <3>1, <3>2
  <2>2. Discovery!Switches(v, c) =
            (IF c.mode # "LISTENER" THEN flags ELSE {})
            \cup { Discovery!Control(c, "emergencyModeEnabled", {"1", "0"}) }
            \cup (IF v # "ODYSSEE"
                  THEN { Discovery!Control(c, "heatingElementEnabled", {"1", "0"}) } ELSE {})
    BY DEF Discovery!Switches, Discovery!Only
  <2> HIDE DEF flags
  <2> QED BY <1>1, <2>1, <2>2 DEF IsRead
<1>6. /\ IsRead(topic, Discovery!WaterHeaters(c)) <=> topic \in Discovery!HeaterTopics
      /\ IsRead(topic, Discovery!Climates(c)) => topic \in Discovery!HeaterTopics
  BY DEF IsRead, Discovery!WaterHeaters, Discovery!Climates, Discovery!Only, Discovery!Entity
<1> QED BY <1>2, <1>3, <1>4, <1>5, <1>6

\* The topics a configuration publishes, but those of errors.
AllTopics(v, c) ==
    {LastWill} \cup StatsTopics(c) \cup FilteredTopics(v)
        \cup UNION { TopicsOf(v, c, kind) : kind \in KindsOf(v) }

\* All entities of a version, by the topics they read.
LEMMA EntitiesRead ==
  ASSUME NEW v, NEW c, NEW topic
  PROVE  IsRead(topic, Discovery!Entities(v, c)) <=>
         \/ IsRead(topic, Discovery!Temperatures(v)) \/ IsRead(topic, Discovery!Device(c))
         \/ IsRead(topic, Discovery!EnergySensors(v)) \/ IsRead(topic, Discovery!SerialStatistics(c))
         \/ IsRead(topic, Discovery!HMISensors(v, c)) \/ IsRead(topic, Discovery!Settings(v))
         \/ IsRead(topic, Discovery!SoftwareVersions(v)) \/ IsRead(topic, Discovery!Diagnosis(v))
         \/ IsRead(topic, Discovery!States(v)) \/ IsRead(topic, Discovery!ActiveOverrides(c))
         \/ IsRead(topic, Discovery!Capabilities(v)) \/ IsRead(topic, Discovery!Numbers(c))
         \/ IsRead(topic, Discovery!Buttons(c)) \/ IsRead(topic, Discovery!Selects(v, c))
         \/ IsRead(topic, Discovery!Switches(v, c)) \/ IsRead(topic, Discovery!WaterHeaters(c))
         \/ IsRead(topic, Discovery!Climates(c))
BY DEF IsRead, Discovery!Entities

\* The topics of frames, by subtopic.
LEMMA FramesPublish ==
  ASSUME NEW v \in ProtocolVersions, NEW c, NEW topic
  PROVE  topic \in FilteredTopics(v) \cup UNION { TopicsOf(v, c, kind) : kind \in KindsOf(v) } <=>
         \/ topic \in {"hmi"} \X HMINamesOf(v, c)
         \/ topic \in {"main"} \X (MainNamesOf(v, c) \cup FilteredNames(v))
         \/ topic \in {"energy"} \X (EnergyNamesOf(v)
                                         \cup (IF v = "ODYSSEE" THEN DOMAIN ExtraTopics ELSE {}))
<1>1. ASSUME NEW kind \in Kinds
      PROVE  topic \in TopicsOf(v, c, kind) <=> topic \in {Subtopic[kind]} \X NamesOf(v, c, kind)
  <2>1. topic \in TopicsOf(v, c, kind) <=> \E name \in NamesOf(v, c, kind) : topic = <<Subtopic[kind], name>>
    BY TopicsAre
  <2> QED BY <2>1
<1>2. topic \in FilteredTopics(v) <=> topic \in {"main"} \X FilteredNames(v)
  BY FilteredTopicsAre
<1>3. /\ topic \in TopicsOf(v, c, "HMI") <=> topic \in {"hmi"} \X HMINamesOf(v, c)
      /\ topic \in TopicsOf(v, c, "MAIN") <=> topic \in {"main"} \X MainNamesOf(v, c)
      /\ topic \in TopicsOf(v, c, "ENERGY") <=> topic \in {"energy"} \X EnergyNamesOf(v)
      /\ topic \in TopicsOf(v, c, "EXTRA") <=> topic \in {"energy"} \X DOMAIN ExtraTopics
  BY <1>1 DEF Kinds, Subtopic, NamesOf
<1>4. topic \in UNION { TopicsOf(v, c, kind) : kind \in KindsOf(v) } <=>
      \/ topic \in TopicsOf(v, c, "HMI") \/ topic \in TopicsOf(v, c, "MAIN")
      \/ topic \in TopicsOf(v, c, "ENERGY") \/ (v = "ODYSSEE" /\ topic \in TopicsOf(v, c, "EXTRA"))
  BY DEF KindsOf, Kinds
<1> QED BY <1>2, <1>3, <1>4

\* The names of the topics that entities read are those a version publishes.
LEMMA NamesAnnounced ==
  ASSUME NEW v \in ProtocolVersions, NEW c, NEW name
  PROVE  /\ name \in HMINamesOf(v, c) <=>
            name \in {"waterTempTarget", "operationMode", "operationType", "configAirduct",
                      "emergencyModeEnabled", "antiLegionellaPerMonth", "versionHMI"}
                \cup (IF c.timeAndDate THEN {"time", "date"} ELSE {})
                \cup (IF v # "ODYSSEE"
                      THEN {"configInstallation", "configFanExhaust", "heatingElementEnabled",
                            "timerWindowA", "timerWindowB", "pvInputActivated"} ELSE {})
                \cup (IF v = "LEGACY" THEN {"setupState", "testModeStatus"} ELSE {})
         /\ name \in (MainNamesOf(v, c) \cup FilteredNames(v)) \ {"capabilityAntiDryHeating"} <=>
            name \in {"waterTemp", "supplyAirTemp", "evaporatorAirTemp", "evaporatorAirTempLower",
                      "fanPWM", "stateFan", "stateHeatpump", "stateElement", "stateExtBoiler",
                      "stateDefrost", "versionMain"}
                \cup (IF v # "LEGACY" THEN {"compressorOutletTemp"} ELSE {})
                \cup (IF v # "ODYSSEE" THEN {"statePV", "stateSolar"} ELSE {})
                \cup (IF v = "ODYSSEE" THEN {"waterTempUpper", "waterTempLower"} ELSE {})
                \cup (IF v = "LEGACY"
                      THEN {"settingPWM_1", "settingPWM_2", "settingPWM_3", "settingMinTargetTemp",
                            "settingMinLegionellaTemp", "settingWattageElement",
                            "settingBoilerCapacity", "settingBoilerBrand", "errorCode",
                            "capabilityHeatExchanger", "capabilityCirculation",
                            "capabilityPVInput", "capabilityCommunication"} ELSE {})
         /\ name \in EnergyNamesOf(v) \cup (IF v = "ODYSSEE" THEN DOMAIN ExtraTopics ELSE {}) <=>
            name \in {"totalHeatingElemHours", "totalHeatpumpHours", "totalEnergyWh", "powerTotal"}
                \cup (IF v = "LEGACY" THEN {"totalHours", "powerHeatingElem", "powerHeatpump",
                                             "totalWaterProduction"} ELSE {})
                \cup (IF v = "ODYSSEE" THEN {"voltageGrid", "amperage"} ELSE {})
                \cup (IF v = "NEXT" THEN DOMAIN EnergyDiagnosis ELSE {})
<1>1. DOMAIN ExtraTopics = {"powerTotal", "voltageGrid", "totalEnergyWh", "amperage"}
  BY DEF ExtraTopics
<1>2. DOMAIN MainSettings \cup DOMAIN MainCapabilities =
          {"settingPWM_1", "settingPWM_2", "settingPWM_3", "settingMinTargetTemp",
           "settingMinLegionellaTemp", "settingWattageElement", "settingBoilerCapacity",
           "settingBoilerBrand", "versionMain", "capabilityAntiDryHeating",
           "capabilityCirculation", "capabilityPVInput", "capabilityCommunication",
           "capabilityHeatExchanger", "errorCode"}
  BY DEF MainSettings, MainCapabilities
<1>3. CASE v = "LEGACY"
  BY <1>1, <1>2, <1>3 DEF HMINamesOf, MainNamesOf, EnergyNamesOf, FilteredNames
<1>4. CASE v = "NEXT"
  BY <1>1, <1>2, <1>4 DEF HMINamesOf, MainNamesOf, EnergyNamesOf, FilteredNames
<1>5. CASE v = "ODYSSEE"
  BY <1>1, <1>2, <1>5 DEF HMINamesOf, MainNamesOf, EnergyNamesOf, FilteredNames
<1> QED BY <1>3, <1>4, <1>5 DEF ProtocolVersions

\* Entities read all topics but these two, and no others.
LEMMA AllAreAnnounced ==
  ASSUME NEW v \in ProtocolVersions, NEW c, c.mode \in {"MITM", "LISTENER"}, NEW topic
  PROVE  IsRead(topic, Discovery!Entities(v, c)) <=> topic \in AllTopics(v, c) \ Unannounced
<1> DEFINE hmi    == topic \in {"hmi"} \X HMINamesOf(v, c)
           main   == topic \in {"main"} \X (MainNamesOf(v, c) \cup FilteredNames(v))
           energy == topic \in {"energy"} \X (EnergyNamesOf(v)
                                    \cup (IF v = "ODYSSEE" THEN DOMAIN ExtraTopics ELSE {}))
           stats  == topic \in (StatsTopics(c) \cup {LastWill}) \ {<<"stats", "protocolVersion">>}
           dry    == <<"main", "capabilityAntiDryHeating">>
<1>1. topic \in AllTopics(v, c) \ Unannounced <=>
      hmi \/ (main /\ topic # dry) \/ energy \/ stats
  <2>1. topic \in AllTopics(v, c) <=>
        hmi \/ main \/ energy \/ topic \in StatsTopics(c) \cup {LastWill}
    <3>1. topic \in FilteredTopics(v) \cup UNION { TopicsOf(v, c, kind) : kind \in KindsOf(v) } <=>
          hmi \/ main \/ energy
      BY FramesPublish
    <3> HIDE DEF hmi, main, energy
    <3> QED BY <3>1 DEF AllTopics
  <2>2. topic \in Unannounced <=> topic \in {<<"stats", "protocolVersion">>, dry}
    BY DEF Unannounced
  <2>3. /\ hmi \/ main \/ energy => topic # <<"stats", "protocolVersion">>
        /\ hmi \/ energy => topic # dry
    OBVIOUS
  <2>4. topic \in StatsTopics(c) \cup {LastWill} => topic # dry
    <3>1. topic \in StatsTopics(c) => topic[1] = "stats"
      BY FirstOfStats
    <3> QED BY <3>1 DEF LastWill
  <2> HIDE DEF hmi, main, energy
  <2> QED BY <2>1, <2>2, <2>3, <2>4
<1>2. ASSUME NEW name, topic = <<"hmi", name>>
      PROVE  IsRead(topic, Discovery!Entities(v, c)) <=> hmi
  <2>1. IsRead(topic, Discovery!Entities(v, c)) <=>
        name \in {"waterTempTarget", "operationMode", "operationType", "configAirduct",
                  "emergencyModeEnabled", "antiLegionellaPerMonth", "versionHMI"}
            \cup (IF c.timeAndDate THEN {"time", "date"} ELSE {})
            \cup (IF v # "ODYSSEE"
                  THEN {"configInstallation", "configFanExhaust", "heatingElementEnabled",
                        "timerWindowA", "timerWindowB", "pvInputActivated"} ELSE {})
            \cup (IF v = "LEGACY" THEN {"setupState", "testModeStatus"} ELSE {})
    <3>1. ~stats
      BY <1>2, FirstOfStats DEF LastWill
    <3>2. /\ ~IsRead(topic, Discovery!Device(c)) /\ ~IsRead(topic, Discovery!SerialStatistics(c))
          /\ ~IsRead(topic, Discovery!ActiveOverrides(c))
      BY <3>1, DeviceEntities
    <3>3. /\ ~IsRead(topic, Discovery!Temperatures(v)) /\ ~IsRead(topic, Discovery!States(v))
          /\ ~IsRead(topic, Discovery!Settings(v)) /\ ~IsRead(topic, Discovery!Capabilities(v))
      BY <1>2, MainEntities
    <3>4. /\ ~IsRead(topic, Discovery!EnergySensors(v)) /\ ~IsRead(topic, Discovery!Diagnosis(v))
          /\ IsRead(topic, Discovery!HMISensors(v, c)) <=>
             name \in {"antiLegionellaPerMonth"}
                 \cup (IF c.timeAndDate THEN {"time", "date"} ELSE {})
                 \cup (IF v # "ODYSSEE" THEN {"timerWindowA", "timerWindowB"} ELSE {})
                 \cup (IF v = "LEGACY" THEN {"setupState"} ELSE {})
          /\ IsRead(topic, Discovery!SoftwareVersions(v)) <=>
             name \in {"versionHMI"} \cup (IF v = "LEGACY" THEN {"testModeStatus"} ELSE {})
                 \cup (IF v # "ODYSSEE" THEN {"pvInputActivated"} ELSE {})
      <4>1. ~IsRead(topic, Discovery!EnergySensors(v)) /\ ~IsRead(topic, Discovery!Diagnosis(v))
        BY <1>2, EnergyEntities
      <4>2. IsRead(topic, Discovery!HMISensors(v, c)) <=>
            name \in {"antiLegionellaPerMonth"}
                \cup (IF c.timeAndDate THEN {"time", "date"} ELSE {})
                \cup (IF v # "ODYSSEE" THEN {"timerWindowA", "timerWindowB"} ELSE {})
                \cup (IF v = "LEGACY" THEN {"setupState"} ELSE {})
        BY <1>2, HMIEntities
      <4>3. IsRead(topic, Discovery!SoftwareVersions(v)) <=>
            name \in {"versionHMI"} \cup (IF v = "LEGACY" THEN {"testModeStatus"} ELSE {})
                \cup (IF v # "ODYSSEE" THEN {"pvInputActivated"} ELSE {})
        BY <1>2, HMIEntities
      <4> QED BY <4>1, <4>2, <4>3
    <3>5. /\ IsRead(topic, Discovery!Numbers(c)) <=> name = "waterTempTarget"
          /\ ~IsRead(topic, Discovery!Buttons(c))
      BY <1>2, ControlEntities
    <3>6. IsRead(topic, Discovery!Selects(v, c)) <=>
          name \in {"operationMode", "operationType", "configAirduct"}
              \cup (IF v # "ODYSSEE" THEN {"configInstallation", "configFanExhaust"} ELSE {})
      BY <1>2, ControlEntities
    <3>7. IsRead(topic, Discovery!Switches(v, c)) <=>
          name \in {"emergencyModeEnabled"}
              \cup (IF v # "ODYSSEE" THEN {"heatingElementEnabled"} ELSE {})
      BY <1>2, ControlEntities
    <3>8. IsRead(topic, Discovery!WaterHeaters(c)) \/ IsRead(topic, Discovery!Climates(c)) =>
              name \in {"operationMode", "waterTempTarget"}
      BY <1>2, ControlEntities DEF Discovery!HeaterTopics
    <3> QED BY <3>2, <3>3, <3>4, <3>5, <3>6, <3>7, <3>8, EntitiesRead
  <2> QED BY <1>2, <2>1, NamesAnnounced
<1>3. ASSUME NEW name, topic = <<"main", name>>
      PROVE  IsRead(topic, Discovery!Entities(v, c)) <=> main /\ topic # dry
  <2>1. IsRead(topic, Discovery!Entities(v, c)) <=>
        name \in {"waterTemp", "supplyAirTemp", "evaporatorAirTemp", "evaporatorAirTempLower",
                  "fanPWM", "stateFan", "stateHeatpump", "stateElement", "stateExtBoiler",
                  "stateDefrost", "versionMain"}
            \cup (IF v # "LEGACY" THEN {"compressorOutletTemp"} ELSE {})
            \cup (IF v # "ODYSSEE" THEN {"statePV", "stateSolar"} ELSE {})
            \cup (IF v = "ODYSSEE" THEN {"waterTempUpper", "waterTempLower"} ELSE {})
            \cup (IF v = "LEGACY"
                  THEN {"settingPWM_1", "settingPWM_2", "settingPWM_3", "settingMinTargetTemp",
                        "settingMinLegionellaTemp", "settingWattageElement",
                        "settingBoilerCapacity", "settingBoilerBrand", "errorCode",
                        "capabilityHeatExchanger", "capabilityCirculation",
                        "capabilityPVInput", "capabilityCommunication"} ELSE {})
    <3>1. ~stats
      BY <1>3, FirstOfStats DEF LastWill
    <3>2. /\ ~IsRead(topic, Discovery!Device(c)) /\ ~IsRead(topic, Discovery!SerialStatistics(c))
          /\ ~IsRead(topic, Discovery!ActiveOverrides(c))
      BY <3>1, DeviceEntities
    <3>3. IsRead(topic, Discovery!Temperatures(v)) <=>
          name \in {"waterTemp", "supplyAirTemp", "evaporatorAirTemp", "evaporatorAirTempLower",
                    "fanPWM"}
              \cup (IF v # "LEGACY" THEN {"compressorOutletTemp"} ELSE {})
              \cup (IF v = "ODYSSEE" THEN {"waterTempUpper", "waterTempLower"} ELSE {})
      BY <1>3, MainEntities
    <3>4. IsRead(topic, Discovery!States(v)) <=>
          name \in {"stateFan", "stateHeatpump", "stateElement", "stateExtBoiler", "stateDefrost"}
              \cup (IF v # "ODYSSEE" THEN {"statePV", "stateSolar"} ELSE {})
      BY <1>3, MainEntities
    <3>5. IsRead(topic, Discovery!Settings(v)) <=>
          /\ v = "LEGACY"
          /\ name \in {"settingPWM_1", "settingPWM_2", "settingPWM_3", "settingMinTargetTemp",
                       "settingMinLegionellaTemp", "settingWattageElement",
                       "settingBoilerCapacity", "settingBoilerBrand"}
      BY <1>3, MainEntities
    <3>6. IsRead(topic, Discovery!Capabilities(v)) <=>
          /\ v = "LEGACY"
          /\ name \in {"capabilityHeatExchanger", "capabilityCirculation", "capabilityPVInput",
                       "capabilityCommunication"}
      BY <1>3, MainEntities
    <3>7. /\ IsRead(topic, Discovery!EnergySensors(v)) <=> v = "LEGACY" /\ name = "errorCode"
          /\ ~IsRead(topic, Discovery!Diagnosis(v))
          /\ ~IsRead(topic, Discovery!HMISensors(v, c))
          /\ IsRead(topic, Discovery!SoftwareVersions(v)) <=> name = "versionMain"
      <4>1. /\ IsRead(topic, Discovery!EnergySensors(v)) <=> v = "LEGACY" /\ name = "errorCode"
            /\ ~IsRead(topic, Discovery!Diagnosis(v))
        BY <1>3, EnergyEntities
      <4>2. /\ ~IsRead(topic, Discovery!HMISensors(v, c))
            /\ IsRead(topic, Discovery!SoftwareVersions(v)) <=> name = "versionMain"
        BY <1>3, HMIEntities
      <4> QED BY <4>1, <4>2
    <3>8. /\ ~IsRead(topic, Discovery!Numbers(c)) /\ ~IsRead(topic, Discovery!Buttons(c))
          /\ ~IsRead(topic, Discovery!Selects(v, c)) /\ ~IsRead(topic, Discovery!Switches(v, c))
          /\ IsRead(topic, Discovery!WaterHeaters(c)) \/ IsRead(topic, Discovery!Climates(c)) =>
                 name = "waterTemp"
      BY <1>3, ControlEntities DEF Discovery!HeaterTopics
    <3> QED BY <3>2, <3>3, <3>4, <3>5, <3>6, <3>7, <3>8, EntitiesRead
  <2>2. main /\ topic # dry <=>
        name \in (MainNamesOf(v, c) \cup FilteredNames(v)) \ {"capabilityAntiDryHeating"}
    BY <1>3
  <2> HIDE DEF main, dry
  <2> QED BY <2>1, <2>2, NamesAnnounced
<1>4. ASSUME NEW name, topic = <<"energy", name>>
      PROVE  IsRead(topic, Discovery!Entities(v, c)) <=> energy
  <2>1. IsRead(topic, Discovery!Entities(v, c)) <=>
        name \in {"totalHeatingElemHours", "totalHeatpumpHours", "totalEnergyWh", "powerTotal"}
            \cup (IF v = "LEGACY" THEN {"totalHours", "powerHeatingElem", "powerHeatpump",
                                         "totalWaterProduction"} ELSE {})
            \cup (IF v = "ODYSSEE" THEN {"voltageGrid", "amperage"} ELSE {})
            \cup (IF v = "NEXT" THEN DOMAIN EnergyDiagnosis ELSE {})
    <3>1. ~stats
      BY <1>4, FirstOfStats DEF LastWill
    <3>2. /\ ~IsRead(topic, Discovery!Device(c)) /\ ~IsRead(topic, Discovery!SerialStatistics(c))
          /\ ~IsRead(topic, Discovery!ActiveOverrides(c))
      BY <3>1, DeviceEntities
    <3>3. /\ ~IsRead(topic, Discovery!Temperatures(v)) /\ ~IsRead(topic, Discovery!States(v))
          /\ ~IsRead(topic, Discovery!Settings(v)) /\ ~IsRead(topic, Discovery!Capabilities(v))
      BY <1>4, MainEntities
    <3>4. IsRead(topic, Discovery!EnergySensors(v)) <=>
          name \in {"totalHeatingElemHours", "totalHeatpumpHours", "totalEnergyWh", "powerTotal"}
              \cup (IF v = "LEGACY" THEN {"totalHours", "powerHeatingElem", "powerHeatpump",
                                           "totalWaterProduction"} ELSE {})
              \cup (IF v = "ODYSSEE" THEN {"voltageGrid", "amperage"} ELSE {})
      BY <1>4, EnergyEntities
    <3>5. /\ IsRead(topic, Discovery!Diagnosis(v)) <=> v = "NEXT" /\ name \in DOMAIN EnergyDiagnosis
          /\ ~IsRead(topic, Discovery!HMISensors(v, c))
          /\ ~IsRead(topic, Discovery!SoftwareVersions(v))
      BY <1>4, EnergyEntities, HMIEntities
    <3>6. /\ ~IsRead(topic, Discovery!Numbers(c)) /\ ~IsRead(topic, Discovery!Buttons(c))
          /\ ~IsRead(topic, Discovery!Selects(v, c)) /\ ~IsRead(topic, Discovery!Switches(v, c))
          /\ ~IsRead(topic, Discovery!WaterHeaters(c)) /\ ~IsRead(topic, Discovery!Climates(c))
      BY <1>4, ControlEntities DEF Discovery!HeaterTopics
    <3> QED BY <3>2, <3>3, <3>4, <3>5, <3>6, EntitiesRead
  <2>2. energy <=>
        name \in EnergyNamesOf(v) \cup (IF v = "ODYSSEE" THEN DOMAIN ExtraTopics ELSE {})
    BY <1>4
  <2> HIDE DEF energy
  <2> QED BY <2>1, <2>2, NamesAnnounced
<1>5. ASSUME \A name : topic \notin {<<"hmi", name>>, <<"main", name>>, <<"energy", name>>}
      PROVE  IsRead(topic, Discovery!Entities(v, c)) <=> stats
  <2>1. \A s \in {"hmi", "main", "energy"} : \A names : topic \notin {s} \X names
    BY <1>5
  <2>2. /\ ~IsRead(topic, Discovery!Temperatures(v)) /\ ~IsRead(topic, Discovery!States(v))
        /\ ~IsRead(topic, Discovery!Settings(v)) /\ ~IsRead(topic, Discovery!Capabilities(v))
    <3>1. ~IsRead(topic, Discovery!Temperatures(v))
      BY <1>5, MainEntities
    <3>2. ~IsRead(topic, Discovery!States(v))
      BY <1>5, MainEntities
    <3>3. ~IsRead(topic, Discovery!Settings(v))
      BY <1>5, MainEntities
    <3>4. ~IsRead(topic, Discovery!Capabilities(v))
      BY <1>5, MainEntities
    <3> QED BY <3>1, <3>2, <3>3, <3>4
  <2>3. ~IsRead(topic, Discovery!EnergySensors(v)) /\ ~IsRead(topic, Discovery!Diagnosis(v))
    BY <1>5, <2>1, EnergyEntities
  <2>4. ~IsRead(topic, Discovery!HMISensors(v, c)) /\ ~IsRead(topic, Discovery!SoftwareVersions(v))
    BY <1>5, HMIEntities
  <2>5. /\ ~IsRead(topic, Discovery!Numbers(c)) /\ ~IsRead(topic, Discovery!Buttons(c))
        /\ ~IsRead(topic, Discovery!WaterHeaters(c)) /\ ~IsRead(topic, Discovery!Climates(c))
    BY <1>5, ControlEntities DEF Discovery!HeaterTopics
  <2>6. ~IsRead(topic, Discovery!Selects(v, c))
    BY <1>5, ControlEntities
  <2>7. IsRead(topic, Discovery!Switches(v, c)) <=>
        c.mode = "MITM" /\ topic \in {"stats"} \X {"flagPVModeHeatPump", "flagPVModeHeatElement"}
    BY <1>5, ControlEntities
  <2>8. IsRead(topic, Discovery!Device(c)) \/ IsRead(topic, Discovery!SerialStatistics(c))
            \/ IsRead(topic, Discovery!ActiveOverrides(c)) \/ IsRead(topic, Discovery!Switches(v, c))
        <=> stats
    BY <2>7, DeviceEntities
  <2> HIDE DEF stats
  <2> QED BY <2>2, <2>3, <2>4, <2>5, <2>6, <2>8, EntitiesRead
<1>6. /\ hmi    => \E name : topic = <<"hmi", name>>
      /\ main   => \E name : topic = <<"main", name>>
      /\ energy => \E name : topic = <<"energy", name>>
      /\ stats  => \A name : topic \notin {<<"hmi", name>>, <<"main", name>>, <<"energy", name>>}
  <2>1. /\ hmi    => \E name : topic = <<"hmi", name>>
        /\ main   => \E name : topic = <<"main", name>>
        /\ energy => \E name : topic = <<"energy", name>>
    OBVIOUS
  <2>2. stats => topic[1] = "stats"
    BY FirstOfStats DEF LastWill
  <2> QED BY <2>1, <2>2
<1>7. /\ \A name : topic = <<"hmi", name>> => ~main /\ ~energy /\ ~stats
      /\ \A name : topic = <<"main", name>> => ~hmi /\ ~energy /\ ~stats
      /\ \A name : topic = <<"energy", name>> => ~hmi /\ ~main /\ ~stats
  <2> HIDE DEF hmi, main, energy, stats
  <2> QED BY <1>6
<1> HIDE DEF hmi, main, energy, stats, dry
<1> QED BY <1>1, <1>2, <1>3, <1>4, <1>5, <1>6, <1>7

-----------------------------------------------------------------------------
(* What is published is announced, and what is announced published *)

\* The topics that have a value, or have lost one.
Sent == DOMAIN broker \cup lagging

\* What is published has been sent; what is neither published nor due remains so.
LEMMA PublishSends ==
  ASSUME NEW values, NEW due, Publish(values, due)
  PROVE  /\ DOMAIN broker \subseteq DOMAIN broker'
         /\ DOMAIN values \subseteq Sent'
         /\ Sent' \subseteq Sent \cup DOMAIN values
         /\ Sent \ due \subseteq Sent'
BY PublishAt DEF Sent, SameTopic

\* No topic of frames or of errors is one of the statistics.
LEMMA StatsApart ==
  ASSUME NEW topic \in StatsTopics(config)
  PROVE  /\ topic[1] # "error"
         /\ topic \notin FilteredTopics(version)
         /\ \A kind \in KindsOf(version) : topic \notin TopicsOf(version, config, kind)
BY FirstOfStats, FirstOfFiltered, FirstOfTopic

\* Topics are added: those of frames and errors, or all the statistics.
LEMMA StepPublishes ==
  ASSUME Agree(version, config), [Next]_vars
  PROVE  /\ StatsTopics(config) \cap Sent \subseteq Sent'
         /\ \A topic \in Sent' \ Sent :
               /\ topic[1] = "error" \/ topic \in AllTopics(version, config)
               /\ topic \in StatsTopics(config) => StatsTopics(config) \subseteq Sent'
<1> DEFINE Adds(topic) == \/ topic[1] = "error"
                          \/ topic \in FilteredTopics(version)
                          \/ \E kind \in KindsOf(version) : topic \in TopicsOf(version, config, kind)
           Goal == /\ StatsTopics(config) \cap Sent \subseteq Sent'
                   /\ \A topic \in Sent' \ Sent :
                         \/ Adds(topic)
                         \/ topic \in StatsTopics(config) /\ StatsTopics(config) \subseteq Sent'
<1>1. ASSUME NEW kind \in KindsOf(version), NEW frame \in setup.frames[kind],
             NEW full \in BOOLEAN, Update(kind, frame, full)
      PROVE  Goal
  <2> DEFINE V == UpdateValues(kind, estimate', frame, full)
             D == Due(kind, estimate', full)
  <2>1. Publish(V, D)
    BY <1>1, UpdatePublishes
  <2>2. ASSUME NEW topic \in DOMAIN V
        PROVE  Adds(topic)
    <3>1. \/ topic \in TopicsOf(version, config, kind)
          \/ topic \in EstimateTopics
          \/ topic[1] = "error"
      BY UpdateValuesAt
    <3> QED BY <3>1 DEF EstimateTopics
  <2>3. StatsTopics(config) \cap D = {}
    <3>1. \A topic \in D : topic \in TopicsOf(version, config, kind) \/ topic \in FilteredTopics(version)
      BY DEF Due, EstimateTopics
    <3> HIDE DEF D
    <3> QED BY <3>1, StatsApart
  <2> HIDE DEF V, D, Adds
  <2> QED BY <2>1, <2>2, <2>3, PublishSends
<1>2. ASSUME NEW frame \in setup.errors, UpdateError(frame)
      PROVE  Goal
  <2>1. Publish(ErrorValues(frame), {})
    BY <1>2 DEF UpdateError, ErrorValues
  <2>2. \A topic \in DOMAIN ErrorValues(frame) : Adds(topic)
    BY ErrorValuesAt
  <2> HIDE DEF Adds
  <2> QED BY <2>1, <2>2, PublishSends
<1>3. ASSUME UpdateStats
      PROVE  Goal
  <2> DEFINE S == [topic \in StatsTopics(config) |-> <<>>]
  <2>1. Publish(S, {}) /\ DOMAIN S = StatsTopics(config)
    BY <1>3 DEF UpdateStats
  <2> HIDE DEF S, Adds
  <2> QED BY <2>1, PublishSends
<1>4. ASSUME SendDiscovery \/ Connect \/ ConnectionLost \/ NoticesLoss \/ Restart \/ UNCHANGED vars
      PROVE  Goal
  <2>1. DOMAIN broker' = DOMAIN broker
    BY <1>4 DEF SendDiscovery, Announce, Connect, ConnectionLost, NoticesLoss, Restart, vars
  <2>2. lagging' = lagging \/ lagging' = lagging \cup EstimateTopics
    BY <1>4 DEF SendDiscovery, Announce, Connect, ConnectionLost, NoticesLoss, Restart, vars
  <2>3. EstimateTopics \subseteq FilteredTopics(version)
    BY DEF EstimateTopics
  <2> QED BY <2>1, <2>2, <2>3 DEF Sent
<1>5. Goal
  <2> HIDE DEF Goal
  <2> QED BY <1>1, <1>2, <1>3, <1>4 DEF Next
<1>6. \A topic : Adds(topic) =>
         /\ topic[1] = "error" \/ topic \in AllTopics(version, config)
         /\ topic \notin StatsTopics(config)
  BY StatsApart DEF AllTopics
<1>7. StatsTopics(config) \subseteq AllTopics(version, config)
  BY DEF AllTopics
<1> QED BY <1>5, <1>6, <1>7

\* Only topics of the configuration are published, and the statistics together.
AnnounceInv ==
    /\ setup \in Setups
    /\ \A topic \in Sent : topic[1] = "error" \/ topic \in AllTopics(version, config)
    /\ <<"stats", "aquamqttMode">> \in Sent => StatsTopics(config) \subseteq Sent

LEMMA AnnounceInvInit == Init => AnnounceInv
<1> SUFFICES ASSUME Init PROVE AnnounceInv
  OBVIOUS
<1>1. setup \in Setups /\ Sent = {LastWill} \cup EstimateTopics
  BY DEF Init, Sent
<1>2. EstimateTopics \subseteq FilteredTopics(version)
  BY DEF EstimateTopics
<1>3. <<"stats", "aquamqttMode">> \notin Sent
  BY <1>1, <1>2, FirstOfFiltered DEF LastWill
<1> QED BY <1>1, <1>2, <1>3 DEF AnnounceInv, AllTopics

LEMMA AnnounceInvNext == AnnounceInv /\ [Next]_vars => AnnounceInv'
<1> SUFFICES ASSUME AnnounceInv, [Next]_vars
             PROVE  AnnounceInv'
  OBVIOUS
<1> DEFINE mode == <<"stats", "aquamqttMode">>
<1>1. setup' = setup /\ version' = version /\ config' = config
  BY SetupKept
<1>2. setup' \in Setups
  BY <1>1 DEF AnnounceInv
<1>0. Agree(version, config)
  BY AllSetupsAgree DEF AnnounceInv, AgreeingSetups, version, config
<1>3. ASSUME NEW topic \in Sent'
      PROVE  topic[1] = "error" \/ topic \in AllTopics(version, config)
  BY <1>0, <1>3, StepPublishes DEF AnnounceInv
<1>4. mode \in Sent' => StatsTopics(config) \subseteq Sent'
  <2>1. mode \in StatsTopics(config)
    BY DEF StatsTopics
  <2> HIDE DEF mode
  <2>2. CASE mode \in Sent
    BY <1>0, <2>2, StepPublishes DEF AnnounceInv, mode
  <2>3. CASE mode \notin Sent
    BY <1>0, <2>1, <2>3, StepPublishes
  <2> QED BY <2>2, <2>3
<1> QED BY <1>1, <1>2, <1>3, <1>4 DEF AnnounceInv

\* The heat pump speaks a protocol, and AquaMQTT is in between or listens.
LEMMA SetupOfInv ==
  ASSUME AnnounceInv
  PROVE  version \in ProtocolVersions /\ config.mode \in {"MITM", "LISTENER"}
BY PublisherAssumption DEF AnnounceInv, ProtocolVersions, version, config

\* What is published of frames, statistics and the connection is read by an
\* entity, but for Unannounced, in every version and configuration, as long as the
\* connection lasts that has announced them.
THEOREM PublisherAnnounces == Spec => []EveryTopicIsAnnounced
<1>1. AnnounceInv /\ TypeInv => EveryTopicIsAnnounced
  <2> SUFFICES ASSUME AnnounceInv, TypeInv, connection = "up", mPublishedDiscovery,
                      NEW topic \in DOMAIN broker \ Unannounced, topic[1] # "error"
               PROVE  \E entity \in entities : topic \in entity.reads
    BY DEF EveryTopicIsAnnounced
  <2>1. entities = Discovery!Entities(version, config)
    BY DEF TypeInv
  <2>2. topic \in AllTopics(version, config) \ Unannounced
    BY DEF AnnounceInv, Sent
  <2>3. IsRead(topic, Discovery!Entities(version, config))
    BY <2>2, AllAreAnnounced, SetupOfInv
  <2> QED BY <2>1, <2>3 DEF IsRead
<1> QED BY <1>1, AnnounceInvInit, AnnounceInvNext, TypeInvInit, TypeInvNext, PTL DEF Spec

\* What an entity reads is published, once what it is read from was processed:
\* a topic of it stays without a value only for want of frames or statistics, or
\* because the value was lost.
THEOREM PublisherFillsEntities == Spec => []NoEntityIsEmpty
<1>1. AnnounceInv /\ EstimateInv => NoEntityIsEmpty
  <2> SUFFICES ASSUME AnnounceInv, EstimateInv, NEW entity \in entities, NEW topic \in entity.reads,
                      topic \notin Sent
               PROVE  \/ \E kind \in KindsOf(version) :
                            Subtopic[kind] = topic[1] /\ last[kind] = NoFrame
                      \/ topic[1] = "stats" /\ <<"stats", "aquamqttMode">> \notin Sent
    BY DEF NoEntityIsEmpty, Sent
  <2>1. entities \subseteq Discovery!Entities(version, config)
    BY DEF EstimateInv, TypeInv, TypeOK
  <2>2. IsRead(topic, Discovery!Entities(version, config))
    BY <2>1 DEF IsRead
  <2>3. topic \in AllTopics(version, config)
    BY <2>2, AllAreAnnounced, SetupOfInv
  <2>4. topic # LastWill
    BY DEF EstimateInv, TypeInv, Sent
  <2>5. CASE topic \in StatsTopics(config)
    BY <2>5, FirstOfStats DEF AnnounceInv
  <2>6. ASSUME NEW kind \in KindsOf(version), topic \in TopicsOf(version, config, kind)
        PROVE  Subtopic[kind] = topic[1] /\ last[kind] = NoFrame
    <3>1. DOMAIN ValueOf(version, config, kind, last[kind]) = TopicsOf(version, config, kind)
      BY DEF ValueOf
    <3>2. last[kind] = NoFrame
      BY <2>6, <3>1 DEF EstimateInv, Inv, BrokerMirrorsLast, Shows, Sent
    <3>3. kind \in Kinds
      BY DEF KindsOf
    <3>4. PICK name \in NamesOf(version, config, kind) : topic = <<Subtopic[kind], name>>
      BY <2>6, <3>3, TopicsAre, SetupOfInv
    <3> QED BY <3>2, <3>4
  <2>7. CASE topic \in FilteredTopics(version)
    <3>1. CASE config.filterNoise
      BY <2>7, <3>1 DEF EstimateInv, EstimatesAreShown, Shows, EstimateTopics, Sent
    <3>2. CASE ~config.filterNoise
      <4>1. PICK name \in FilteredNames(version) : topic = <<"main", name>>
        BY <2>7, FilteredTopicsAre, SetupOfInv
      <4>2. name \in NamesOf(version, config, "MAIN") /\ Subtopic["MAIN"] = "main"
        BY <3>2 DEF NamesOf, MainNamesOf, Subtopic
      <4>3. "MAIN" \in Kinds /\ "MAIN" \in KindsOf(version)
        BY DEF Kinds, KindsOf
      <4>4. topic \in TopicsOf(version, config, "MAIN")
        BY <4>1, <4>2, <4>3, TopicsAre, SetupOfInv
      <4> QED BY <2>6, <4>3, <4>4
    <3> QED BY <3>1, <3>2
  <2> QED BY <2>3, <2>4, <2>5, <2>6, <2>7 DEF AllTopics
<1>2. EstimateInv /\ [Next]_vars => EstimateInv'
  BY EstimateInvNext, InvNext, TypeInvNext DEF EstimateInv
<1> QED BY <1>1, <1>2, EstimateInvInit, AnnounceInvInit, AnnounceInvNext, PTL DEF Spec

-----------------------------------------------------------------------------
(* Refinement: whoever reads the topics sees one whole frame after the other *)

Shown == [source \in DOMAIN Pictures[setup] |-> PictureShown(source)]

Torn == { source \in DOMAIN Pictures[setup] : TopicsOfSource(source) \cap lagging # {} }

LEMMA KindIsNoError ==
  ASSUME NEW v
  PROVE  "ERROR" \notin KindsOf(v)
BY DEF KindsOf, Kinds

LEMMA SourcesOfPictures ==
  ASSUME setup \in Setups
  PROVE  /\ DOMAIN Pictures[setup] = Sources(setup)
         /\ \A source \in Sources(setup) : Pictures[setup][source] = PicturesOf(setup, source)
BY DEF Pictures

\* The topics of a kind, and those of errors, are not each other's.
LEMMA TopicsOfKind ==
  ASSUME setup \in Setups, NEW kind \in KindsOf(version)
  PROVE  /\ <<kind>> \in Sources(setup)
         /\ TopicsOfSource(<<kind>>) = TopicsOf(version, config, kind)
<1>1. <<kind>> \in Sources(setup)
  BY DEF Sources, version
<1> QED BY <1>1, KindIsNoError DEF TopicsOfSource, SourceTopics, version, config

LEMMA TopicsOfErrors ==
  ASSUME setup \in Setups, NEW id, <<"ERROR", id>> \in Sources(setup)
  PROVE  TopicsOfSource(<<"ERROR", id>>) = { <<"error", id, row[1]>> : row \in ErrorRows(version) }
BY DEF TopicsOfSource, SourceTopics, version

LEMMA TopicOfError ==
  ASSUME setup \in Setups, NEW id, <<"ERROR", id>> \in Sources(setup),
         NEW topic \in TopicsOfSource(<<"ERROR", id>>)
  PROVE  topic[1] = "error" /\ topic[2] = id /\ topic[3] # "errorNumber"
<1>1. PICK row \in ErrorRows(version) : topic = <<"error", id, row[1]>>
  BY TopicsOfErrors
<1>2. row[1] # "errorNumber"
  BY <1>1 DEF ErrorRows, Rows, ErrorTopics
<1> QED BY <1>1, <1>2

\* A source is a kind of frame, or the id of an error.
LEMMA SourceIs ==
  ASSUME setup \in Setups, NEW source \in Sources(setup)
  PROVE  \/ \E kind \in KindsOf(version) : source = <<kind>>
         \/ source = <<"ERROR", source[2]>>
BY DEF Sources, version

\* No topic of a source is one of the statistics, or shows an estimate.
LEMMA TopicOfSource ==
  ASSUME setup \in Setups, Agree(version, config),
         NEW source \in Sources(setup), NEW topic \in TopicsOfSource(source)
  PROVE  topic[1] # "stats" /\ topic \notin EstimateTopics
<1>1. CASE source = <<"ERROR", source[2]>>
  <2>1. topic[1] = "error"
    BY <1>1, TopicOfError
  <2> QED BY <2>1, FirstOfFiltered DEF EstimateTopics
<1>2. ASSUME NEW kind \in KindsOf(version), source = <<kind>>
      PROVE  topic[1] # "stats" /\ topic \notin EstimateTopics
  <2>1. topic \in TopicsOf(version, config, kind)
    BY <1>2, TopicsOfKind
  <2> QED BY <2>1, FirstOfTopic DEF Agree, TopicsAreApart, EstimateTopics
<1> QED BY <1>1, <1>2, SourceIs

\* The topic is what it was, and lags if it did.
Untouched(topic) == SameTopic(topic) /\ (topic \in lagging' <=> topic \in lagging)

\* What is shown of a source whose topics are left alone.
LEMMA SamePicture ==
  ASSUME setup' = setup, NEW source, \A topic \in TopicsOfSource(source) : Untouched(topic)
  PROVE  /\ PictureShown(source)' = PictureShown(source)
         /\ TopicsOfSource(source)' \cap lagging' = TopicsOfSource(source) \cap lagging
<1>1. TopicsOfSource(source)' = TopicsOfSource(source)
  BY DEF TopicsOfSource
<1> DEFINE T == TopicsOfSource(source) \cap DOMAIN broker
<1>2. TopicsOfSource(source)' \cap DOMAIN broker' = T
  BY <1>1 DEF Untouched, SameTopic
<1>3. [topic \in T |-> broker'[topic]] = [topic \in T |-> broker[topic]]
  BY DEF T, Untouched, SameTopic
<1>4. TopicsOfSource(source)' \cap lagging' = TopicsOfSource(source) \cap lagging
  BY <1>1 DEF Untouched
<1> QED BY <1>2, <1>3, <1>4 DEF PictureShown

LEMMA ShownInit == Init => Abstract!Init
<1> SUFFICES ASSUME Init
             PROVE  Abstract!Init
  OBVIOUS
<1>0. setup \in Setups /\ Agree(version, config)
  BY AllSetupsAgree DEF Init, AgreeingSetups, version, config
<1>1. ASSUME NEW source \in Sources(setup)
      PROVE  PictureShown(source) = Abstract!Nothing /\ TopicsOfSource(source) \cap lagging = {}
  <2>1. LastWill \notin TopicsOfSource(source)
    BY <1>0, TopicOfSource DEF LastWill
  <2>2. DOMAIN broker = {LastWill} /\ lagging = EstimateTopics
    BY DEF Init
  <2>3. TopicsOfSource(source) \cap DOMAIN broker = {}
    <3> HIDE DEF LastWill
    <3> QED BY <2>1, <2>2
  <2>4. TopicsOfSource(source) \cap lagging = {}
    BY <1>0, <2>2, TopicOfSource
  <2>5. [topic \in {} |-> broker[topic]] = [topic \in {} |-> {}]
    OBVIOUS
  <2> QED BY <2>3, <2>4, <2>5 DEF PictureShown, Abstract!Nothing
<1>2. DOMAIN Pictures[setup] = Sources(setup)
  BY <1>0, SourcesOfPictures
<1>3. Shown = [source \in DOMAIN Pictures[setup] |-> Abstract!Nothing]
  BY <1>1, <1>2 DEF Shown
<1>4. Torn = {}
  BY <1>1, <1>2 DEF Torn
<1> QED BY <1>3, <1>4 DEF Abstract!Init, Shown, Torn

\* A step that publishes, of the picture of a source, at least what has changed:
\* it shows all of it, or what was lost tears it.  All other sources it leaves alone.
LEMMA ShowOrTear ==
  ASSUME setup \in Setups, setup' = setup,
         NEW source \in Sources(setup), NEW picture \in PicturesOf(setup, source),
         DOMAIN picture = TopicsOfSource(source),
         picture = [topic \in DOMAIN picture |-> picture[topic]],
         \A topic \in TopicsOfSource(source) :
             /\ \/ topic \in lagging'
                \/ topic \in DOMAIN broker' /\ broker'[topic] = picture[topic]
             /\ \/ SameTopic(topic)
                \/ topic \in DOMAIN broker' /\ broker'[topic] = picture[topic],
         \A other \in Sources(setup) : other # source =>
             \A topic \in TopicsOfSource(other) : Untouched(topic)
  PROVE  Abstract!Next
<1> DEFINE T == TopicsOfSource(source)
<1>1. DOMAIN Pictures[setup] = Sources(setup) /\ Pictures[setup][source] = PicturesOf(setup, source)
  BY SourcesOfPictures
<1>2. TopicsOfSource(source)' = T /\ Pictures[setup]' = Pictures[setup]
  BY DEF TopicsOfSource
<1>3. ASSUME NEW other \in Sources(setup), other # source
      PROVE  /\ PictureShown(other)' = PictureShown(other)
             /\ TopicsOfSource(other)' \cap lagging' = TopicsOfSource(other) \cap lagging
  BY <1>3, SamePicture
<1>4. Shown' = [Shown EXCEPT ![source] = PictureShown(source)']
  BY <1>1, <1>2, <1>3 DEF Shown
<1>5. /\ DOMAIN Shown = Sources(setup) /\ DOMAIN Shown' = Sources(setup)
      /\ Shown[source] = PictureShown(source)
      /\ Shown'[source] = PictureShown(source)'
  BY <1>1, <1>2 DEF Shown
<1>6. Abstract!Show(source) \/ Abstract!Tear(source)
  <2>1. CASE T \cap lagging' = {}
    <3>1. \A topic \in T : topic \in DOMAIN broker' /\ broker'[topic] = picture[topic]
      BY <2>1
    <3>2. TopicsOfSource(source)' \cap DOMAIN broker' = DOMAIN picture
      BY <1>2, <3>1
    <3>3. [topic \in DOMAIN picture |-> broker'[topic]] = picture
      BY <3>1
    <3>4. PictureShown(source)' = picture
      BY <3>2, <3>3 DEF PictureShown
    <3>5. Torn' = Torn \ {source}
      BY <1>1, <1>2, <1>3, <2>1 DEF Torn
    <3> QED BY <1>1, <1>5, <3>4, <3>5 DEF Abstract!Show, Shown, Torn
  <2>2. CASE T \cap lagging' # {}
    <3>1. Torn' = Torn \cup {source}
      BY <1>1, <1>2, <1>3, <2>2 DEF Torn
    <3>2. /\ DOMAIN PictureShown(source)' = T \cap DOMAIN broker'
          /\ \A topic \in T \cap DOMAIN broker' : PictureShown(source)'[topic] = broker'[topic]
      BY <1>2 DEF PictureShown
    <3>3. /\ DOMAIN PictureShown(source) = T \cap DOMAIN broker
          /\ \A topic \in T \cap DOMAIN broker : PictureShown(source)[topic] = broker[topic]
      BY DEF PictureShown
    <3>4. Abstract!Mixes(PictureShown(source)', PictureShown(source), picture)
      BY <3>2, <3>3 DEF Abstract!Mixes, SameTopic
    <3> QED BY <1>1, <1>5, <3>1, <3>4 DEF Abstract!Tear, Shown, Torn
  <2> QED BY <2>1, <2>2
<1> QED BY <1>1, <1>2, <1>4, <1>5, <1>6 DEF Abstract!Next, Shown

LEMMA UpdateShowsPicture ==
  ASSUME Inv, NEW kind \in KindsOf(version), NEW frame \in setup.frames[kind],
         NEW full \in BOOLEAN, Update(kind, frame, full)
  PROVE  Abstract!Next
<1>1. setup \in Setups /\ setup' = setup
  BY DEF Inv, AgreeingSetups, Update
<1>2. Agree(version, config)
  BY AgreeOfInv
<1> DEFINE picture == ValueOf(version, config, kind, frame)
<1>3. <<kind>> \in Sources(setup) /\ TopicsOfSource(<<kind>>) = TopicsOf(version, config, kind)
  BY <1>1, TopicsOfKind
<1>4. /\ DOMAIN picture = TopicsOfSource(<<kind>>)
      /\ picture = [topic \in DOMAIN picture |-> picture[topic]]
  BY <1>3 DEF ValueOf
<1>5. picture \in PicturesOf(setup, <<kind>>)
  BY KindIsNoError DEF PicturesOf, version, config
<1>6. \A topic \in TopicsOfSource(<<kind>>) :
          /\ \/ topic \in lagging'
             \/ topic \in DOMAIN broker' /\ broker'[topic] = picture[topic]
          /\ \/ SameTopic(topic)
             \/ topic \in DOMAIN broker' /\ broker'[topic] = picture[topic]
  BY <1>3, UpdateShows
<1>7. ASSUME NEW other \in Sources(setup), other # <<kind>>,
             NEW topic \in TopicsOfSource(other)
      PROVE  Untouched(topic)
  <2>1. topic \notin EstimateTopics
    BY <1>1, <1>2, <1>7, TopicOfSource
  <2>2. CASE other = <<"ERROR", other[2]>>
    <3>1. topic[1] = "error" /\ topic[3] # "errorNumber"
      BY <1>1, <1>7, <2>2, TopicOfError
    <3>2. topic \notin TopicsOf(version, config, kind)
      BY <3>1, FirstOfTopic
    <3> QED BY <1>2, <2>1, <3>1, <3>2, UpdateLeaves DEF Untouched
  <2>3. ASSUME NEW k \in KindsOf(version), other = <<k>>
        PROVE  Untouched(topic)
    <3>1. topic \in TopicsOf(version, config, k) /\ k # kind
      BY <1>1, <1>7, <2>3, TopicsOfKind
    <3>2. topic \notin TopicsOf(version, config, kind)
      BY <1>2, <3>1 DEF Agree, TopicsAreApart
    <3>3. topic[1] # "error"
      BY <3>1, FirstOfTopic
    <3> QED BY <1>2, <2>1, <3>2, <3>3, UpdateLeaves DEF Untouched
  <2> QED BY <1>1, <2>2, <2>3, SourceIs
<1> HIDE DEF picture
<1> QED BY <1>1, <1>3, <1>4, <1>5, <1>6, <1>7, ShowOrTear

LEMMA UpdateErrorShowsPicture ==
  ASSUME Inv, NEW frame \in setup.errors, UpdateError(frame), ~Error!IsEmpty(version, frame)
  PROVE  Abstract!Next
<1>0. PICK id : id = { bit[2] : bit \in frame \cap Error!ErrorMessage(version).reads.ERROR_REQUEST_ID }
  OBVIOUS
<1> DEFINE picture == ErrorPicture(version, frame)
           source  == <<"ERROR", id>>
<1>1. setup \in Setups /\ setup' = setup
  BY DEF Inv, AgreeingSetups, UpdateError
<1>2. /\ DOMAIN picture = { <<"error", id, row[1]>> : row \in ErrorRows(version) }
      /\ picture = [topic \in DOMAIN picture |-> picture[topic]]
  BY <1>0 DEF ErrorPicture
<1>3. DOMAIN picture # {}
  <2>1. PICK row \in ErrorRows(version) : TRUE
    BY AgreeOfInv DEF Agree, NoSourceIsSilent
  <2>2. <<"error", id, row[1]>> \in { <<"error", id, r[1]>> : r \in ErrorRows(version) }
    BY <2>1
  <2> HIDE DEF picture
  <2> QED BY <1>2, <2>2
<1>4. RequestId(picture) = id
  <2>1. \A topic \in DOMAIN picture : topic[2] = id
    BY <1>2
  <2> HIDE DEF picture
  <2> QED BY <1>3, <2>1 DEF RequestId
<1>5. picture \in ErrorPictures(setup)
  BY DEF ErrorPictures, version
<1>6. source \in Sources(setup) /\ picture \in PicturesOf(setup, source)
  <2> HIDE DEF picture
  <2> QED BY <1>4, <1>5 DEF Sources, PicturesOf
<1>7. Publish(picture, {})
  BY DEF UpdateError
<1>8. TopicsOfSource(source) = DOMAIN picture
  BY <1>1, <1>2, <1>6, TopicsOfErrors
<1>9. \A topic \in TopicsOfSource(source) :
          /\ \/ topic \in lagging'
             \/ topic \in DOMAIN broker' /\ broker'[topic] = picture[topic]
          /\ \/ SameTopic(topic)
             \/ topic \in DOMAIN broker' /\ broker'[topic] = picture[topic]
  <2> HIDE DEF picture, source
  <2> QED BY <1>7, <1>8, PublishAt
<1>10. ASSUME NEW other \in Sources(setup), other # source, NEW topic \in TopicsOfSource(other)
       PROVE  Untouched(topic)
  <2>1. topic \notin DOMAIN picture
    <3>1. CASE other = <<"ERROR", other[2]>>
      <4>1. topic[2] = other[2] /\ other[2] # id
        BY <1>1, <1>10, <3>1, TopicOfError
      <4>2. \A t \in DOMAIN picture : t[2] = id
        BY <1>2
      <4> QED BY <4>1, <4>2
    <3>2. ASSUME NEW k \in KindsOf(version), other = <<k>>
          PROVE  topic \notin DOMAIN picture
      <4>1. topic[1] # "error"
        BY <1>1, <1>10, <3>2, TopicsOfKind, FirstOfTopic
      <4>2. \A t \in DOMAIN picture : t[1] = "error"
        BY <1>2
      <4> QED BY <4>1, <4>2
    <3> QED BY <1>1, <3>1, <3>2, SourceIs
  <2> HIDE DEF picture, source
  <2> QED BY <1>7, <2>1, PublishAt DEF Untouched
<1> HIDE DEF picture, source
<1> QED BY <1>1, <1>2, <1>6, <1>8, <1>9, <1>10, ShowOrTear

\* All other steps show nothing new.
LEMMA NoPictureShown ==
  ASSUME Inv,
         \/ \E frame \in setup.errors : UpdateError(frame) /\ Error!IsEmpty(version, frame)
         \/ UpdateStats \/ SendDiscovery \/ Connect \/ ConnectionLost \/ NoticesLoss \/ Restart
         \/ UNCHANGED vars
  PROVE  UNCHANGED <<Pictures[setup], Shown, Torn>>
<1>1. setup \in Setups /\ setup' = setup
  BY DEF Inv, AgreeingSetups, UpdateError, UpdateStats, SendDiscovery, Announce, Connect,
         ConnectionLost, NoticesLoss, Restart, vars
<1>2. Agree(version, config)
  BY AgreeOfInv
<1>3. ASSUME NEW topic, topic[1] # "stats", topic \notin EstimateTopics
      PROVE  Untouched(topic)
  <2>1. ASSUME NEW frame, UpdateError(frame), Error!IsEmpty(version, frame)
        PROVE  Untouched(topic)
    <3>1. Publish(<<>>, {}) /\ topic \notin DOMAIN <<>>
      BY <2>1 DEF UpdateError
    <3> QED BY <3>1, PublishAt DEF Untouched
  <2>2. CASE UpdateStats
    <3> DEFINE S == [t \in StatsTopics(config) |-> <<>>]
    <3>1. topic \notin DOMAIN S
      BY <1>3, FirstOfStats
    <3>2. Publish(S, {})
      BY <2>2 DEF UpdateStats
    <3> HIDE DEF S
    <3> QED BY <3>1, <3>2, PublishAt DEF Untouched
  <2>3. CASE SendDiscovery \/ UNCHANGED vars
    BY <2>3 DEF SendDiscovery, Announce, vars, Untouched, SameTopic
  <2>4. CASE Connect \/ ConnectionLost \/ NoticesLoss \/ Restart
    <3>1. topic # LastWill
      BY <1>3 DEF LastWill
    <3> HIDE DEF LastWill
    <3> QED BY <1>3, <2>4, <3>1 DEF Connect, ConnectionLost, NoticesLoss, Restart, Untouched, SameTopic
  <2> QED BY <2>1, <2>2, <2>3, <2>4
<1>4. ASSUME NEW source \in Sources(setup)
      PROVE  /\ PictureShown(source)' = PictureShown(source)
             /\ TopicsOfSource(source)' \cap lagging' = TopicsOfSource(source) \cap lagging
  BY <1>1, <1>2, <1>3, TopicOfSource, SamePicture
<1> QED BY <1>1, <1>4, SourcesOfPictures DEF Shown, Torn

\* What the topics show implements Mirror: a step shows the whole picture of one
\* frame at its source, tears it if some of what it publishes is lost, or shows
\* nothing new.
THEOREM PublisherImplementsMirror == Spec => ImplementsMirror
<1>1. Inv /\ [Next]_vars => [Abstract!Next]_<<Pictures[setup], Shown, Torn>>
  <2> SUFFICES ASSUME Inv, [Next]_vars
               PROVE  Abstract!Next \/ UNCHANGED <<Pictures[setup], Shown, Torn>>
    OBVIOUS
  <2>1. ASSUME NEW kind \in KindsOf(version), NEW frame \in setup.frames[kind],
               NEW full \in BOOLEAN, Update(kind, frame, full)
        PROVE  Abstract!Next
    BY <2>1, UpdateShowsPicture
  <2>2. ASSUME NEW frame \in setup.errors, UpdateError(frame)
        PROVE  Abstract!Next \/ UNCHANGED <<Pictures[setup], Shown, Torn>>
    BY <2>2, UpdateErrorShowsPicture, NoPictureShown
  <2>3. CASE \/ UpdateStats \/ SendDiscovery \/ Connect \/ ConnectionLost \/ NoticesLoss
             \/ Restart \/ UNCHANGED vars
    BY <2>3, NoPictureShown
  <2> QED BY <2>1, <2>2, <2>3 DEF Next
<1> QED BY <1>1, ShownInit, InvInit, InvNext, PTL DEF Spec, ImplementsMirror, Abstract!Spec, Shown, Torn

=============================================================================
