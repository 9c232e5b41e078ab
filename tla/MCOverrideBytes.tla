--------------------------- MODULE MCOverrideBytes ---------------------------
(* OverrideBytes with frames whose other bits are 0, 1 or both.              *)
EXTENDS OverrideBytes

MCVersions == {"LEGACY", "NEXT", "ODYSSEE"}

\* Too high; a tenth that is lost; one that is not, but where degrees are whole.
MCTemperatures == {635, 321, 505}

Time(month) ==
    [seconds |-> 59, minutes |-> 30, hours |-> 23, day |-> 31, month |-> month, year |-> 2025]

\* Around the months in which the bit of the year changes.
MCTimes == { Time(month) : month \in {1, 7, 8, 9} }

\* One override, or two of those that interact; the PV flags, and one that
\* displaces an override; the time.
MCCombinations ==
    { {topic} : topic \in Topics }
        \cup {Flags, {"operationMode", "operationType"}, {"operationType", "heatElement"}}
        \cup SUBSET {"heatPump", "heatElement"} \cup {{"time"}}

Zeros == {}
\* The bytes that may be overridden, and one on each side that may not.
Ones  == Bytes(0 .. 9 \cup 16 .. 22)
Mixed == Ones \ Bytes(0 .. 9)

\* The payload with the bits a getter reads set to the code of a value.
With(v, p, attr, value) ==
    IF attr \notin DOMAIN Fields(v) THEN p
    ELSE LET field == Fields(v)[attr] IN
         (p \ Mask(field.byte, field.reads)) \cup Mask(field.byte, field.code[value])

HMIPayload(v, p, element, emergency) ==
    With(v, With(v, p, "HEATING_ELEMENT_ALLOWED", element), "EMERGENCY_MODE_ENABLED", emergency)

\* The mode is BOOST; ODYSSEE has one byte for BOOST and ALWAYS ON.
Boosting(v, p) ==
    IF v = "ODYSSEE" THEN p \cup Mask(2, 72) ELSE With(v, p, "OPERATION_MODE", "BOOST")

\* A frame in emergency mode, one without, one with the element forbidden and
\* bytes the code does not know.
MCFrames ==
    [v \in MCVersions |->
        { With(v, HMIPayload(v, Zeros, TRUE, TRUE), "OPERATION_TYPE", "TIMER"),
          With(v, Boosting(v, HMIPayload(v, Mixed, TRUE, FALSE)), "CONFIG_AIRDUCT", "EXT_EXT"),
          HMIPayload(v, Ones, FALSE, FALSE) }]

=============================================================================
