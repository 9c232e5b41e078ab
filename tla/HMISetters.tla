----------------------------- MODULE HMISetters -----------------------------
(***************************************************************************)
(* message/<version>/HMIMessage.cpp: getAttr and setAttr of the attributes *)
(* AquaMQTT overrides, on the payload of a frame 194.                      *)
(*                                                                         *)
(* A getter answers UNKNOWN for a byte it does not know, a setter leaves   *)
(* the payload alone if the version lacks the attribute or the value.      *)
(* Temperatures are in tenths of a degree.                                 *)
(***************************************************************************)
EXTENDS HMIMessage

Fields(version) ==
    CASE version = "LEGACY"  -> LegacyFields
      [] version = "ODYSSEE" -> OdysseeFields
      [] OTHER               -> NextFields

\* The bytes of what has no code: temperature, time and date.
Numbers(version) ==
    IF version = "LEGACY"
    THEN [temperature |-> 1, seconds |-> 17, minutes |-> 20, hours |-> 21, day |-> 18, year |-> 19]
    ELSE [temperature |-> 1, seconds |-> 16, minutes |-> 19, hours |-> 20, day |-> 17, year |-> 18]

\* The number whose bits they are.
NumberOf == [bits \in SUBSET Bit |-> CHOOSE n \in 0 .. 255 : BitsOf[n] = bits]

\* data[i] & mask, as a number
Number(payload, i, mask) == NumberOf[Masked(payload, i, mask)]

\* data[i] = (data[i] & ~mask) | n
Write(payload, i, mask, n) == (payload \ Mask(i, mask)) \cup Mask(i, n)

-----------------------------------------------------------------------------
(* Getters *)

Decoded(payload, field) ==
    LET bits  == Masked(payload, field.byte, field.reads)
        known == { v \in DOMAIN field.code : BitsOf[field.code[v]] = bits }
    IN IF known = {} THEN "UNKNOWN" ELSE CHOOSE v \in known : TRUE

\* A bit for the solar backup, a bit for a boiler, two for how it is used.
GetInstallation(version, payload) ==
    LET field == Fields(version).STATE_INSTALLATION_MODE
        bits  == Masked(payload, field.byte, field.reads)
    IN CASE 1 \in bits             -> "HP_AND_SOLAR"
         [] bits \cap {0, 1} = {} -> "HP_ONLY"
         [] OTHER                  -> Decoded(payload, field)

\* "unfortunately we cannot parse the lower nibble"
OdysseeMode(payload) ==
    LET known == { mode \in DOMAIN ModeAndType.TIMER :
                       \E type \in DOMAIN ModeAndType :
                           BitsOf[ModeAndType[type][mode]] = Masked(payload, 2, \hFF) }
    IN IF known = {} THEN "UNKNOWN" ELSE CHOOSE mode \in known : TRUE

Get(version, attr, payload) ==
    CASE attr = "STATE_INSTALLATION_MODE"                 -> GetInstallation(version, payload)
      [] attr = "OPERATION_MODE" /\ version = "ODYSSEE" -> OdysseeMode(payload)
      [] OTHER                                            -> Decoded(payload, Fields(version)[attr])

GetTemperature(version, payload) ==
    IF version = "LEGACY" THEN Number(payload, 1, \hFF) + 256 * Number(payload, 2, \hFF)
    ELSE 10 * Number(payload, 1, \hFF)

\* Three bits and one more hold the month.
GetTime(version, payload) ==
    LET n == Numbers(version)
        month == Number(payload, n.day, \hE0) \div 32 + 8 * Number(payload, n.year, \h01)
    IN [minutes |-> Number(payload, n.minutes, \hFF),
        hours   |-> Number(payload, n.hours, \hFF),
        day     |-> Number(payload, n.day, \h1F),
        month   |-> IF version = "LEGACY" THEN month ELSE 1 + month,
        year    |-> 2000 + Number(payload, n.year, \hFF) \div 2,
        seconds |-> IF version = "ODYSSEE" THEN 0 ELSE Number(payload, n.seconds, \hFF)]

-----------------------------------------------------------------------------
(* Setters *)

SetField(version, attr, value, payload) ==
    LET field == Fields(version)[attr] IN
    IF attr \in DOMAIN Fields(version) /\ value \in DOMAIN field.code
    THEN Write(payload, field.byte, field.writes, field.code[value])
    ELSE payload

\* "changing operation mode might have an influence on operation type"
SetMode(version, value, payload) ==
    IF version = "ODYSSEE"
    THEN Write(payload, 2, \hFF,
               ValueByModeAndType(value, Get(version, "OPERATION_TYPE", payload)))
    ELSE SetField(version, "OPERATION_MODE", value, payload)

SetType(version, value, payload) ==
    IF version = "ODYSSEE"
    THEN Write(payload, 2, \hFF,
               ValueByModeAndType(Get(version, "OPERATION_MODE", payload), value))
    ELSE SetField(version, "OPERATION_TYPE", value, payload)

\* "You cannot activate emergency mode if heating element is disabled"
SetEmergency(version, value, payload) ==
    IF version # "ODYSSEE" /\ value /\ ~Get(version, "HEATING_ELEMENT_ALLOWED", payload)
    THEN payload
    ELSE SetField(version, "EMERGENCY_MODE_ENABLED", value, payload)

MutantSetElement(version, value, payload) ==
    SetField(version, "HEATING_ELEMENT_ALLOWED", value, payload)

\* "You cannot disable heating element if emergency mode is activated"
SetElement(version, value, payload) ==
    IF ~value /\ Get(version, "EMERGENCY_MODE_ENABLED", payload)
    THEN payload
    ELSE SetField(version, "HEATING_ELEMENT_ALLOWED", value, payload)

\* The tenths of a degree, 20.0 to 62.0, of which value * 100 / 10 falls short
\* when computed with floats; converted to an integer, one is lost.
FallsShort == {203, 321, 326, 331, 336, 341, 346, 351, 356, 361, 366, 371, 376, 381, 386,
               391, 396, 401, 406}

Tenths(value) == IF value \in FallsShort THEN value - 1 ELSE value

MutantSetTemperature(version, value, payload) ==
    IF version = "LEGACY"
    THEN Write(payload, 1, \hFF, Tenths(value) % 256)
    ELSE Write(payload, 1, \hFF, value \div 10)

\* "this heatpump does not support decimals"
SetTemperature(version, value, payload) ==
    IF version = "LEGACY"
    THEN Write(Write(payload, 1, \hFF, Tenths(value) % 256), 2, \hFF, Tenths(value) \div 256)
    ELSE Write(payload, 1, \hFF, value \div 10)

MutantSetDateMonthAndYear(version, month, year, payload) ==
    LET n      == Numbers(version)
        past   == IF month > 7 THEN 1 ELSE 0
        within == IF version = "LEGACY" THEN month - 8 * past ELSE month - 1 - 8 * past
    IN Write(Write(payload, n.year, \hFF, ((year - 2000) * 2 + past) % 256),
             n.day, \hE0, (within % 8) * 32)

\* The year and, in its lowest bit, whether the month is past July: past August
\* if months are counted from zero.
SetDateMonthAndYear(version, month, year, payload) ==
    LET n      == Numbers(version)
        past   == IF month > (IF version = "LEGACY" THEN 7 ELSE 8) THEN 1 ELSE 0
        within == IF version = "LEGACY" THEN month - 8 * past ELSE month - 1 - 8 * past
    IN Write(Write(payload, n.year, \hFF, ((year - 2000) * 2 + past) % 256),
             n.day, \hE0, (within % 8) * 32)

\* setAttr of hours, minutes, seconds and day, and setDateMonthAndYear.
SetTime(version, time, payload) ==
    LET n       == Numbers(version)
        hours   == Write(payload, n.hours, \hFF, time.hours)
        minutes == Write(hours, n.minutes, \hFF, time.minutes)
        seconds == IF version = "ODYSSEE" THEN minutes
                   ELSE Write(minutes, n.seconds, \hFF, time.seconds)
        day     == Write(seconds, n.day, \h1F, time.day)
    IN SetDateMonthAndYear(version, time.month, time.year, day)

=============================================================================
