------------------------ MODULE OverrideBytes_proofs ------------------------
(***************************************************************************)
(* Whatever the HMI sends, in every version of the protocol, with any      *)
(* overrides, PV flags and time: AquaMQTT changes no bit of frame 194 but  *)
(* those of what it says it overrides, the controller is told the time     *)
(* AquaMQTT has, the setters do to the bytes what Overrides.tla says they  *)
(* do to the values, and what a user selects is what is shown.             *)
(*                                                                         *)
(* A byte is the set of its bits, which are digits of a number; a setter   *)
(* writes to the bits its getter reads; and applyHMIOverrides is a         *)
(* sequence of setters, each within the bits of an attribute that is       *)
(* overridden.  For the values, every byte has one attribute it belongs    *)
(* to: what one setter writes, the getters of the others do not see.       *)
(***************************************************************************)
EXTENDS OverrideBytes, FiniteSetTheorems, TLAPS

-----------------------------------------------------------------------------
(* The bits of a byte                                                      *)

\* The bit of n whose weight is w.
Digit(n, w) == (n \div w) % 2

\* BitsOf, with the weights as numbers.
LEMMA BitsOfNumber ==
    ASSUME NEW n \in 0 .. 255
    PROVE  /\ BitsOf[n] \subseteq Bit
           /\ 0 \in BitsOf[n] <=> Digit(n, 1) = 1
           /\ 1 \in BitsOf[n] <=> Digit(n, 2) = 1
           /\ 2 \in BitsOf[n] <=> Digit(n, 4) = 1
           /\ 3 \in BitsOf[n] <=> Digit(n, 8) = 1
           /\ 4 \in BitsOf[n] <=> Digit(n, 16) = 1
           /\ 5 \in BitsOf[n] <=> Digit(n, 32) = 1
           /\ 6 \in BitsOf[n] <=> Digit(n, 64) = 1
           /\ 7 \in BitsOf[n] <=> Digit(n, 128) = 1
  <1>1. BitsOf[n] \subseteq Bit
    BY DEF BitsOf
  <1>2. 0 \in BitsOf[n] <=> Digit(n, 1) = 1
    <2>1. 0 \in Bit /\ 2^0 = 1
      BY DEF Bit
    <2>2. 0 \in BitsOf[n] <=> Digit(n, 2^0) = 1
      BY <2>1 DEF BitsOf, Digit
    <2>3. QED
      BY <2>1, <2>2
  <1>3. 1 \in BitsOf[n] <=> Digit(n, 2) = 1
    <2>1. 1 \in Bit /\ 2^1 = 2
      BY DEF Bit
    <2>2. 1 \in BitsOf[n] <=> Digit(n, 2^1) = 1
      BY <2>1 DEF BitsOf, Digit
    <2>3. QED
      BY <2>1, <2>2
  <1>4. 2 \in BitsOf[n] <=> Digit(n, 4) = 1
    <2>1. 2 \in Bit /\ 2^2 = 4
      BY DEF Bit
    <2>2. 2 \in BitsOf[n] <=> Digit(n, 2^2) = 1
      BY <2>1 DEF BitsOf, Digit
    <2>3. QED
      BY <2>1, <2>2
  <1>5. 3 \in BitsOf[n] <=> Digit(n, 8) = 1
    <2>1. 3 \in Bit /\ 2^3 = 8
      BY DEF Bit
    <2>2. 3 \in BitsOf[n] <=> Digit(n, 2^3) = 1
      BY <2>1 DEF BitsOf, Digit
    <2>3. QED
      BY <2>1, <2>2
  <1>6. 4 \in BitsOf[n] <=> Digit(n, 16) = 1
    <2>1. 4 \in Bit /\ 2^4 = 16
      BY DEF Bit
    <2>2. 4 \in BitsOf[n] <=> Digit(n, 2^4) = 1
      BY <2>1 DEF BitsOf, Digit
    <2>3. QED
      BY <2>1, <2>2
  <1>7. 5 \in BitsOf[n] <=> Digit(n, 32) = 1
    <2>1. 5 \in Bit /\ 2^5 = 32
      BY DEF Bit
    <2>2. 5 \in BitsOf[n] <=> Digit(n, 2^5) = 1
      BY <2>1 DEF BitsOf, Digit
    <2>3. QED
      BY <2>1, <2>2
  <1>8. 6 \in BitsOf[n] <=> Digit(n, 64) = 1
    <2>1. 6 \in Bit /\ 2^6 = 64
      BY DEF Bit
    <2>2. 6 \in BitsOf[n] <=> Digit(n, 2^6) = 1
      BY <2>1 DEF BitsOf, Digit
    <2>3. QED
      BY <2>1, <2>2
  <1>9. 7 \in BitsOf[n] <=> Digit(n, 128) = 1
    <2>1. 7 \in Bit /\ 2^7 = 128
      BY DEF Bit
    <2>2. 7 \in BitsOf[n] <=> Digit(n, 2^7) = 1
      BY <2>1 DEF BitsOf, Digit
    <2>3. QED
      BY <2>1, <2>2
  <1>10. QED
    BY <1>1, <1>2, <1>3, <1>4, <1>5, <1>6, <1>7, <1>8, <1>9

\* The masks of the three versions.
LEMMA BitsOfMasks ==
    /\ BitsOf[\hFF] = Bit /\ BitsOf[0] = {}
    /\ BitsOf[\h0F] = {0, 1, 2, 3} /\ BitsOf[\hF0] = {4, 5, 6, 7}
    /\ BitsOf[\h33] = {0, 1, 4, 5} /\ BitsOf[\h30] = {4, 5} /\ BitsOf[\h03] = {0, 1}
    /\ BitsOf[\h40] = {6} /\ BitsOf[\h04] = {2}
    /\ BitsOf[\h1F] = {0, 1, 2, 3, 4} /\ BitsOf[\hE0] = {5, 6, 7}
    /\ BitsOf[\h01] = {0} /\ BitsOf[\hFE] = {1, 2, 3, 4, 5, 6, 7}
  BY BitsOfNumber DEF Bit, Digit

\* The bytes that stand for values.
LEMMA BitsOfCodes ==
    /\ BitsOf[1] = {0} /\ BitsOf[2] = {1} /\ BitsOf[3] = {0, 1} /\ BitsOf[4] = {2}
    /\ BitsOf[5] = {0, 2} /\ BitsOf[6] = {1, 2} /\ BitsOf[9] = {0, 3} /\ BitsOf[10] = {1, 3}
    /\ BitsOf[16] = {4} /\ BitsOf[17] = {0, 4} /\ BitsOf[18] = {1, 4} /\ BitsOf[20] = {2, 4}
    /\ BitsOf[24] = {3, 4} /\ BitsOf[32] = {5} /\ BitsOf[33] = {0, 5} /\ BitsOf[49] = {0, 4, 5}
    /\ BitsOf[64] = {6} /\ BitsOf[65] = {0, 6} /\ BitsOf[66] = {1, 6} /\ BitsOf[68] = {2, 6}
    /\ BitsOf[72] = {3, 6}
  BY BitsOfNumber DEF Bit, Digit

\* A day has five bits, the lower part of a month has three.
LEMMA BitsOfDate ==
    /\ \A day \in 0 .. 31 : BitsOf[day] \subseteq BitsOf[\h1F]
    /\ \A month \in 0 .. 7 : BitsOf[month * 32] \subseteq BitsOf[\hE0]
  BY BitsOfNumber, BitsOfMasks DEF Bit, Digit

\* A number is twice its half and its lowest bit.
LEMMA HalfAndBit ==
    ASSUME NEW m \in Nat
    PROVE  m = 2 * (m \div 2) + (m % 2)
  BY SMTT(30)

\* n without the bits of weight less than w.
Above(n, w) == n \div w

\* What a bit adds to a number.
Weight(b, bits, w) == IF b \in bits THEN w ELSE 0

Sum(bits) ==
    Weight(0, bits, 1) + Weight(1, bits, 2) + Weight(2, bits, 4) + Weight(3, bits, 8)
        + Weight(4, bits, 16) + Weight(5, bits, 32) + Weight(6, bits, 64) + Weight(7, bits, 128)

\* A byte is the sum of its bits.
LEMMA SumOfBits ==
    ASSUME NEW n \in 0 .. 255
    PROVE  n = Sum(BitsOf[n])
  <1>1. n = Above(n, 1) /\ Above(n, 256) = 0 /\ n \in Nat
    BY DEF Above
  <1>2. 1 * Above(n, 1) = 2 * Above(n, 2) + Weight(0, BitsOf[n], 1)
    <2>1. (n \div 1) \div 2 = n \div 2 /\ n \div 1 \in Nat
      BY <1>1
    <2>2. Above(n, 1) = 2 * Above(n, 2) + Digit(n, 1)
      BY <2>1, HalfAndBit DEF Above, Digit
    <2>3. 1 * Digit(n, 1) = Weight(0, BitsOf[n], 1)
      <3>1. 0 \in BitsOf[n] <=> Digit(n, 1) = 1
        BY BitsOfNumber
      <3>2. Digit(n, 1) = 0 \/ Digit(n, 1) = 1
        BY <1>1 DEF Digit
      <3>3. QED
        BY <3>1, <3>2 DEF Weight
    <2>4. Above(n, 1) \in Nat /\ Above(n, 2) \in Nat /\ Digit(n, 1) \in Nat
      BY <1>1 DEF Above, Digit
    <2>5. QED
      BY <2>2, <2>3, <2>4
  <1>3. 2 * Above(n, 2) = 4 * Above(n, 4) + Weight(1, BitsOf[n], 2)
    <2>1. (n \div 2) \div 2 = n \div 4 /\ n \div 2 \in Nat
      BY <1>1
    <2>2. Above(n, 2) = 2 * Above(n, 4) + Digit(n, 2)
      BY <2>1, HalfAndBit DEF Above, Digit
    <2>3. 2 * Digit(n, 2) = Weight(1, BitsOf[n], 2)
      <3>1. 1 \in BitsOf[n] <=> Digit(n, 2) = 1
        BY BitsOfNumber
      <3>2. Digit(n, 2) = 0 \/ Digit(n, 2) = 1
        BY <1>1 DEF Digit
      <3>3. QED
        BY <3>1, <3>2 DEF Weight
    <2>4. Above(n, 2) \in Nat /\ Above(n, 4) \in Nat /\ Digit(n, 2) \in Nat
      BY <1>1 DEF Above, Digit
    <2>5. QED
      BY <2>2, <2>3, <2>4
  <1>4. 4 * Above(n, 4) = 8 * Above(n, 8) + Weight(2, BitsOf[n], 4)
    <2>1. (n \div 4) \div 2 = n \div 8 /\ n \div 4 \in Nat
      BY <1>1
    <2>2. Above(n, 4) = 2 * Above(n, 8) + Digit(n, 4)
      BY <2>1, HalfAndBit DEF Above, Digit
    <2>3. 4 * Digit(n, 4) = Weight(2, BitsOf[n], 4)
      <3>1. 2 \in BitsOf[n] <=> Digit(n, 4) = 1
        BY BitsOfNumber
      <3>2. Digit(n, 4) = 0 \/ Digit(n, 4) = 1
        BY <1>1 DEF Digit
      <3>3. QED
        BY <3>1, <3>2 DEF Weight
    <2>4. Above(n, 4) \in Nat /\ Above(n, 8) \in Nat /\ Digit(n, 4) \in Nat
      BY <1>1 DEF Above, Digit
    <2>5. QED
      BY <2>2, <2>3, <2>4
  <1>5. 8 * Above(n, 8) = 16 * Above(n, 16) + Weight(3, BitsOf[n], 8)
    <2>1. (n \div 8) \div 2 = n \div 16 /\ n \div 8 \in Nat
      BY <1>1
    <2>2. Above(n, 8) = 2 * Above(n, 16) + Digit(n, 8)
      BY <2>1, HalfAndBit DEF Above, Digit
    <2>3. 8 * Digit(n, 8) = Weight(3, BitsOf[n], 8)
      <3>1. 3 \in BitsOf[n] <=> Digit(n, 8) = 1
        BY BitsOfNumber
      <3>2. Digit(n, 8) = 0 \/ Digit(n, 8) = 1
        BY <1>1 DEF Digit
      <3>3. QED
        BY <3>1, <3>2 DEF Weight
    <2>4. Above(n, 8) \in Nat /\ Above(n, 16) \in Nat /\ Digit(n, 8) \in Nat
      BY <1>1 DEF Above, Digit
    <2>5. QED
      BY <2>2, <2>3, <2>4
  <1>6. 16 * Above(n, 16) = 32 * Above(n, 32) + Weight(4, BitsOf[n], 16)
    <2>1. (n \div 16) \div 2 = n \div 32 /\ n \div 16 \in Nat
      BY <1>1
    <2>2. Above(n, 16) = 2 * Above(n, 32) + Digit(n, 16)
      BY <2>1, HalfAndBit DEF Above, Digit
    <2>3. 16 * Digit(n, 16) = Weight(4, BitsOf[n], 16)
      <3>1. 4 \in BitsOf[n] <=> Digit(n, 16) = 1
        BY BitsOfNumber
      <3>2. Digit(n, 16) = 0 \/ Digit(n, 16) = 1
        BY <1>1 DEF Digit
      <3>3. QED
        BY <3>1, <3>2 DEF Weight
    <2>4. Above(n, 16) \in Nat /\ Above(n, 32) \in Nat /\ Digit(n, 16) \in Nat
      BY <1>1 DEF Above, Digit
    <2>5. QED
      BY <2>2, <2>3, <2>4
  <1>7. 32 * Above(n, 32) = 64 * Above(n, 64) + Weight(5, BitsOf[n], 32)
    <2>1. (n \div 32) \div 2 = n \div 64 /\ n \div 32 \in Nat
      BY <1>1
    <2>2. Above(n, 32) = 2 * Above(n, 64) + Digit(n, 32)
      BY <2>1, HalfAndBit DEF Above, Digit
    <2>3. 32 * Digit(n, 32) = Weight(5, BitsOf[n], 32)
      <3>1. 5 \in BitsOf[n] <=> Digit(n, 32) = 1
        BY BitsOfNumber
      <3>2. Digit(n, 32) = 0 \/ Digit(n, 32) = 1
        BY <1>1 DEF Digit
      <3>3. QED
        BY <3>1, <3>2 DEF Weight
    <2>4. Above(n, 32) \in Nat /\ Above(n, 64) \in Nat /\ Digit(n, 32) \in Nat
      BY <1>1 DEF Above, Digit
    <2>5. QED
      BY <2>2, <2>3, <2>4
  <1>8. 64 * Above(n, 64) = 128 * Above(n, 128) + Weight(6, BitsOf[n], 64)
    <2>1. (n \div 64) \div 2 = n \div 128 /\ n \div 64 \in Nat
      BY <1>1
    <2>2. Above(n, 64) = 2 * Above(n, 128) + Digit(n, 64)
      BY <2>1, HalfAndBit DEF Above, Digit
    <2>3. 64 * Digit(n, 64) = Weight(6, BitsOf[n], 64)
      <3>1. 6 \in BitsOf[n] <=> Digit(n, 64) = 1
        BY BitsOfNumber
      <3>2. Digit(n, 64) = 0 \/ Digit(n, 64) = 1
        BY <1>1 DEF Digit
      <3>3. QED
        BY <3>1, <3>2 DEF Weight
    <2>4. Above(n, 64) \in Nat /\ Above(n, 128) \in Nat /\ Digit(n, 64) \in Nat
      BY <1>1 DEF Above, Digit
    <2>5. QED
      BY <2>2, <2>3, <2>4
  <1>9. 128 * Above(n, 128) = 256 * Above(n, 256) + Weight(7, BitsOf[n], 128)
    <2>1. (n \div 128) \div 2 = n \div 256 /\ n \div 128 \in Nat
      BY <1>1
    <2>2. Above(n, 128) = 2 * Above(n, 256) + Digit(n, 128)
      BY <2>1, HalfAndBit DEF Above, Digit
    <2>3. 128 * Digit(n, 128) = Weight(7, BitsOf[n], 128)
      <3>1. 7 \in BitsOf[n] <=> Digit(n, 128) = 1
        BY BitsOfNumber
      <3>2. Digit(n, 128) = 0 \/ Digit(n, 128) = 1
        BY <1>1 DEF Digit
      <3>3. QED
        BY <3>1, <3>2 DEF Weight
    <2>4. Above(n, 128) \in Nat /\ Above(n, 256) \in Nat /\ Digit(n, 128) \in Nat
      BY <1>1 DEF Above, Digit
    <2>5. QED
      BY <2>2, <2>3, <2>4
  <1>10. /\ Above(n, 1) \in Nat /\ Above(n, 2) \in Nat /\ Above(n, 4) \in Nat
         /\ Above(n, 8) \in Nat /\ Above(n, 16) \in Nat /\ Above(n, 32) \in Nat
         /\ Above(n, 64) \in Nat /\ Above(n, 128) \in Nat
    BY <1>1 DEF Above
  <1>11. /\ Weight(0, BitsOf[n], 1) \in Nat /\ Weight(1, BitsOf[n], 2) \in Nat
         /\ Weight(2, BitsOf[n], 4) \in Nat /\ Weight(3, BitsOf[n], 8) \in Nat
         /\ Weight(4, BitsOf[n], 16) \in Nat /\ Weight(5, BitsOf[n], 32) \in Nat
         /\ Weight(6, BitsOf[n], 64) \in Nat /\ Weight(7, BitsOf[n], 128) \in Nat
    BY DEF Weight
  <1>12. QED
    BY <1>1, <1>2, <1>3, <1>4, <1>5, <1>6, <1>7, <1>8, <1>9, <1>10, <1>11 DEF Sum

\* A byte is known by its bits.
LEMMA SameBits ==
    ASSUME NEW m \in 0 .. 255, NEW n \in 0 .. 255, BitsOf[m] = BitsOf[n]
    PROVE  m = n
  BY SumOfBits

-----------------------------------------------------------------------------
(* The fields of frame 194                                                 *)

AllVersions == {"LEGACY", "NEXT", "ODYSSEE"}

\* What is written to a field stays within its bits, and these are bits the
\* getter looks at.
Contained(field) ==
    /\ \A value \in DOMAIN field.code : BitsOf[field.code[value]] \subseteq BitsOf[field.writes]
    /\ BitsOf[field.writes] \subseteq BitsOf[field.reads]

\* The fields of the legacy protocol, one by one.
LEMMA LegacyFieldsContained ==
    \A attr \in DOMAIN LegacyFields :
        /\ Contained(LegacyFields[attr])
        /\ attr \in DOMAIN LegacyReads
        /\ LegacyReads[attr] = Mask(LegacyFields[attr].byte, LegacyFields[attr].reads)
  <1> DEFINE P(attr) ==
        /\ Contained(LegacyFields[attr])
        /\ attr \in DOMAIN LegacyReads
        /\ LegacyReads[attr] = Mask(LegacyFields[attr].byte, LegacyFields[attr].reads)
  <1>1. P("OPERATION_MODE")
    BY BitsOfMasks, BitsOfCodes DEF LegacyFields, LegacyReads, Field, Contained
  <1>2. P("OPERATION_TYPE")
    BY BitsOfMasks, BitsOfCodes DEF LegacyFields, LegacyReads, Field, Contained
  <1>3. P("CONFIG_AIRDUCT")
    BY BitsOfMasks, BitsOfCodes DEF LegacyFields, LegacyReads, Field, Contained
  <1>4. P("STATE_INSTALLATION_MODE")
    BY BitsOfMasks, BitsOfCodes DEF LegacyFields, LegacyReads, Field, Contained
  <1>5. P("CONFIG_FAN_EXHAUST")
    BY BitsOfMasks, BitsOfCodes DEF LegacyFields, LegacyReads, Field, Contained
  <1>6. P("EMERGENCY_MODE_ENABLED")
    BY BitsOfMasks, BitsOfCodes DEF LegacyFields, LegacyReads, Field, Flag, Contained
  <1>7. P("HEATING_ELEMENT_ALLOWED")
    BY BitsOfMasks, BitsOfCodes DEF LegacyFields, LegacyReads, Field, Flag, Contained
  <1>8. DOMAIN LegacyFields = {"OPERATION_MODE", "OPERATION_TYPE", "CONFIG_AIRDUCT",
            "STATE_INSTALLATION_MODE", "CONFIG_FAN_EXHAUST", "EMERGENCY_MODE_ENABLED",
            "HEATING_ELEMENT_ALLOWED"}
    BY DEF LegacyFields
  <1>9. QED
    BY <1>1, <1>2, <1>3, <1>4, <1>5, <1>6, <1>7, <1>8

\* The fields of the next protocol, one by one.
LEMMA NextFieldsContained ==
    \A attr \in DOMAIN NextFields :
        /\ Contained(NextFields[attr])
        /\ attr \in DOMAIN NextReads
        /\ NextReads[attr] = Mask(NextFields[attr].byte, NextFields[attr].reads)
  <1> DEFINE P(attr) ==
        /\ Contained(NextFields[attr])
        /\ attr \in DOMAIN NextReads
        /\ NextReads[attr] = Mask(NextFields[attr].byte, NextFields[attr].reads)
  <1>1. P("OPERATION_MODE")
    BY BitsOfMasks, BitsOfCodes DEF NextFields, NextReads, Field, Contained
  <1>2. P("OPERATION_TYPE")
    BY BitsOfMasks, BitsOfCodes DEF NextFields, NextReads, Field, Contained
  <1>3. P("CONFIG_AIRDUCT")
    BY BitsOfMasks, BitsOfCodes DEF NextFields, NextReads, Field, Contained
  <1>4. P("STATE_INSTALLATION_MODE")
    BY BitsOfMasks, BitsOfCodes DEF NextFields, NextReads, Field, Contained
  <1>5. P("CONFIG_FAN_EXHAUST")
    BY BitsOfMasks, BitsOfCodes DEF NextFields, NextReads, Field, Contained
  <1>6. P("EMERGENCY_MODE_ENABLED")
    BY BitsOfMasks, BitsOfCodes DEF NextFields, NextReads, Field, Flag, Contained
  <1>7. P("HEATING_ELEMENT_ALLOWED")
    BY BitsOfMasks, BitsOfCodes DEF NextFields, NextReads, Field, Contained
  <1>8. DOMAIN NextFields = {"OPERATION_MODE", "OPERATION_TYPE", "CONFIG_AIRDUCT",
            "STATE_INSTALLATION_MODE", "CONFIG_FAN_EXHAUST", "EMERGENCY_MODE_ENABLED",
            "HEATING_ELEMENT_ALLOWED"}
    BY DEF NextFields
  <1>9. QED
    BY <1>1, <1>2, <1>3, <1>4, <1>5, <1>6, <1>7, <1>8

\* Type and mode of ODYSSEE are not written by SetField.
LEMMA OdysseeFieldsContained ==
    \A attr \in DOMAIN OdysseeFields \ {"OPERATION_TYPE"} :
        /\ Contained(OdysseeFields[attr])
        /\ attr \in DOMAIN OdysseeReads
        /\ OdysseeReads[attr] = Mask(OdysseeFields[attr].byte, OdysseeFields[attr].reads)
  <1> DEFINE P(attr) ==
        /\ Contained(OdysseeFields[attr])
        /\ attr \in DOMAIN OdysseeReads
        /\ OdysseeReads[attr] = Mask(OdysseeFields[attr].byte, OdysseeFields[attr].reads)
  <1>1. P("CONFIG_AIRDUCT")
    BY BitsOfMasks, BitsOfCodes DEF OdysseeFields, OdysseeReads, Field, Contained
  <1>2. P("EMERGENCY_MODE_ENABLED")
    BY BitsOfMasks, BitsOfCodes DEF OdysseeFields, OdysseeReads, Field, Flag, Contained
  <1>3. DOMAIN OdysseeFields = {"OPERATION_TYPE", "CONFIG_AIRDUCT", "EMERGENCY_MODE_ENABLED"}
    BY DEF OdysseeFields
  <1>4. QED
    BY <1>1, <1>2, <1>3

ReadsOf(v, attr) ==
    IF attr \in DOMAIN HMIMessage(v).reads THEN HMIMessage(v).reads[attr] ELSE {}

\* In every version a setter clears and sets only bits its getter reads, but for
\* the type of ODYSSEE, which is set with the mode.
LEMMA FieldsContained ==
    ASSUME NEW v \in AllVersions, NEW attr \in DOMAIN Fields(v),
           ~(v = "ODYSSEE" /\ attr = "OPERATION_TYPE")
    PROVE  /\ Contained(Fields(v)[attr])
           /\ ReadsOf(v, attr) = Mask(Fields(v)[attr].byte, Fields(v)[attr].reads)
  <1>1. CASE v = "LEGACY"
    <2>1. Fields(v) = LegacyFields /\ HMIMessage(v).reads = LegacyReads
      BY <1>1 DEF Fields, HMIMessage
    <2>2. QED
      BY <2>1, LegacyFieldsContained DEF ReadsOf
  <1>2. CASE v = "NEXT"
    <2>1. Fields(v) = NextFields /\ HMIMessage(v).reads = NextReads
      BY <1>2 DEF Fields, HMIMessage
    <2>2. QED
      BY <2>1, NextFieldsContained DEF ReadsOf
  <1>3. CASE v = "ODYSSEE"
    <2>1. Fields(v) = OdysseeFields /\ HMIMessage(v).reads = OdysseeReads
      BY <1>3 DEF Fields, HMIMessage
    <2>2. QED
      BY <1>3, <2>1, OdysseeFieldsContained DEF ReadsOf
  <1>4. QED
    BY <1>1, <1>2, <1>3 DEF AllVersions

-----------------------------------------------------------------------------
(* What a setter leaves alone                                              *)

\* p and q differ in these bits only.
Same(p, q, bits) == p \ bits = q \ bits

\* Two steps leave alone what both leave alone.
LEMMA SameThrough ==
    ASSUME NEW p, NEW q, NEW r, NEW A, NEW B, Same(p, q, A), Same(q, r, B)
    PROVE  Same(p, r, A \cup B)
  BY DEF Same

\* What leaves more alone leaves less alone.
LEMMA SameWithin ==
    ASSUME NEW p, NEW q, NEW A, NEW B, Same(p, q, A), A \subseteq B
    PROVE  Same(p, q, B)
  BY DEF Same

\* Doing nothing leaves everything alone.
LEMMA SameSelf == \A p, bits : Same(p, p, bits)
  BY DEF Same

\* A write stays within its mask if its value does.
LEMMA WriteWithin ==
    ASSUME NEW p, NEW i, NEW m, NEW n, BitsOf[n] \subseteq BitsOf[m]
    PROVE  Same(p, Write(p, i, m, n), Mask(i, m))
  BY DEF Same, Write, Mask

\* All setters of fields but those of mode and type of ODYSSEE.
LEMMA SetFieldWithin ==
    ASSUME NEW v \in AllVersions, NEW attr, NEW value, NEW p,
           ~(v = "ODYSSEE" /\ attr = "OPERATION_TYPE")
    PROVE  Same(p, SetField(v, attr, value, p), ReadsOf(v, attr))
  <1>1. CASE attr \in DOMAIN Fields(v) /\ value \in DOMAIN Fields(v)[attr].code
    <2> DEFINE field == Fields(v)[attr]
    <2>1. SetField(v, attr, value, p) = Write(p, field.byte, field.writes, field.code[value])
      BY <1>1 DEF SetField
    <2>2. Same(p, Write(p, field.byte, field.writes, field.code[value]),
               Mask(field.byte, field.writes))
      BY <1>1, FieldsContained, WriteWithin DEF Contained
    <2>3. Mask(field.byte, field.writes) \subseteq ReadsOf(v, attr)
      BY <1>1, FieldsContained DEF Contained, Mask
    <2>4. QED
      BY <2>1, <2>2, <2>3, SameWithin
  <1>2. CASE ~(attr \in DOMAIN Fields(v) /\ value \in DOMAIN Fields(v)[attr].code)
    BY <1>2, SameSelf DEF SetField
  <1>3. QED
    BY <1>1, <1>2

\* setAttr of HEATING_ELEMENT_ALLOWED, refused or not.
LEMMA SetElementWithin ==
    ASSUME NEW v \in AllVersions, NEW value, NEW p
    PROVE  Same(p, SetElement(v, value, p), ReadsOf(v, "HEATING_ELEMENT_ALLOWED"))
  BY SetFieldWithin, SameSelf DEF SetElement

\* setAttr of EMERGENCY_MODE_ENABLED, refused or not.
LEMMA SetEmergencyWithin ==
    ASSUME NEW v \in AllVersions, NEW value, NEW p
    PROVE  Same(p, SetEmergency(v, value, p), ReadsOf(v, "EMERGENCY_MODE_ENABLED"))
  BY SetFieldWithin, SameSelf DEF SetEmergency

-----------------------------------------------------------------------------
(* Mode and type                                                           *)

Modes == {"ABSENCE", "ECO_ACTIVE", "ECO_INACTIVE", "BOOST", "AUTO"}

Types == {"ALWAYS_ON", "TIMER", "OFF_PEAK_HOURS"}

\* A getter answers a value that has a code, or UNKNOWN.
LEMMA DecodedTyped ==
    ASSUME NEW p, NEW field
    PROVE  Decoded(p, field) \in DOMAIN field.code \cup {"UNKNOWN"}
  BY DEF Decoded

\* getAttr of OPERATION_MODE answers a mode, or UNKNOWN.
LEMMA ModeTyped ==
    ASSUME NEW v \in AllVersions, NEW p
    PROVE  Get(v, "OPERATION_MODE", p) \in Modes \cup {"UNKNOWN"}
  <1>1. CASE v = "ODYSSEE"
    <2>1. Get(v, "OPERATION_MODE", p) = OdysseeMode(p)
      BY <1>1 DEF Get
    <2>2. DOMAIN ModeAndType.TIMER = Modes
      BY DEF ModeAndType, Modes
    <2>3. OdysseeMode(p) \in DOMAIN ModeAndType.TIMER \cup {"UNKNOWN"}
      BY DEF OdysseeMode
    <2>4. QED
      BY <2>1, <2>2, <2>3
  <1>2. CASE v # "ODYSSEE"
    <2>1. Get(v, "OPERATION_MODE", p) = Decoded(p, Fields(v).OPERATION_MODE)
      BY <1>2 DEF Get
    <2>2. DOMAIN Fields(v).OPERATION_MODE.code = Modes
      BY <1>2 DEF AllVersions, Fields, LegacyFields, NextFields, Field, Modes
    <2>3. QED
      BY <2>1, <2>2, DecodedTyped
  <1>3. QED
    BY <1>1, <1>2

\* getAttr of OPERATION_TYPE answers a type, or UNKNOWN.
LEMMA TypeTyped ==
    ASSUME NEW v \in AllVersions, NEW p
    PROVE  Get(v, "OPERATION_TYPE", p) \in Types \cup {"UNKNOWN"}
  <1>1. Get(v, "OPERATION_TYPE", p) = Decoded(p, Fields(v).OPERATION_TYPE)
    BY DEF Get
  <1>2. DOMAIN Fields(v).OPERATION_TYPE.code \subseteq Types
    BY DEF AllVersions, Fields, LegacyFields, NextFields, OdysseeFields, Field, Types
  <1>3. QED
    BY <1>1, <1>2, DecodedTyped

\* The table of ODYSSEE: bytes, all different.
LEMMA ModeAndTypeTable ==
    /\ \A type \in Types, mode \in Modes : ModeAndType[type][mode] \in 0 .. 255
    /\ \A type1, type2 \in Types, mode1, mode2 \in Modes :
          ModeAndType[type1][mode1] = ModeAndType[type2][mode2] => mode1 = mode2
  BY DEF ModeAndType, Types, Modes

\* The values of a byte, as a set the provers need not open.
Octet == 0 .. 255

\* getValueByOperationModeAndType answers a byte.
LEMMA ValueTyped ==
    ASSUME NEW mode \in Modes \cup {"UNKNOWN"}, NEW type \in Types \cup {"UNKNOWN"}
    PROVE  ValueByModeAndType(mode, type) \in Octet
  BY ModeAndTypeTable DEF ValueByModeAndType, Octet

\* The bits that are written to a mask are the bits read from it.
LEMMA MaskedWritten ==
    ASSUME NEW p, NEW i, NEW m, NEW n, BitsOf[n] \subseteq BitsOf[m]
    PROVE  Masked(Write(p, i, m, n), i, m) = BitsOf[n]
  BY DEF Masked, Write, Mask

\* The upper half of a byte is the type's, whatever the mode.
LEMMA TypeNibble ==
    ASSUME NEW type \in Types, NEW mode \in Modes
    PROVE  BitsOf[ModeAndType[type][mode]] \cap BitsOf[\hF0] =
               BitsOf[OdysseeFields.OPERATION_TYPE.code[type]]
  <1>1. CASE type = "ALWAYS_ON"
    BY <1>1, BitsOfMasks, BitsOfCodes DEF ModeAndType, Modes, OdysseeFields, Field
  <1>2. CASE type = "TIMER"
    BY <1>2, BitsOfMasks, BitsOfCodes DEF ModeAndType, Modes, OdysseeFields, Field
  <1>3. CASE type = "OFF_PEAK_HOURS"
    BY <1>3, BitsOfMasks, BitsOfCodes DEF ModeAndType, Modes, OdysseeFields, Field
  <1>4. QED
    BY <1>1, <1>2, <1>3 DEF Types

\* ODYSSEE reads back the mode and the type that were written.
LEMMA OdysseeReadsBack ==
    ASSUME NEW p, NEW mode \in Modes, NEW type \in Types,
           Masked(p, 2, \hFF) = BitsOf[ModeAndType[type][mode]]
    PROVE  /\ Get("ODYSSEE", "OPERATION_MODE", p) = mode
           /\ Get("ODYSSEE", "OPERATION_TYPE", p) = type
  <1>1. Get("ODYSSEE", "OPERATION_MODE", p) = mode
    <2> DEFINE known == { m \in DOMAIN ModeAndType.TIMER :
                            \E t \in DOMAIN ModeAndType :
                               BitsOf[ModeAndType[t][m]] = Masked(p, 2, \hFF) }
    <2>1. DOMAIN ModeAndType = Types /\ DOMAIN ModeAndType.TIMER = Modes
      BY DEF ModeAndType, Types, Modes
    <2>2. mode \in known
      BY <2>1
    <2>3. ASSUME NEW m \in known
          PROVE  m = mode
      <3>1. PICK t \in Types : BitsOf[ModeAndType[t][m]] = BitsOf[ModeAndType[type][mode]]
        BY <2>1
      <3>2. m \in Modes
        BY <2>1
      <3>3. ModeAndType[t][m] \in 0 .. 255 /\ ModeAndType[type][mode] \in 0 .. 255
        BY <3>2, ModeAndTypeTable
      <3>4. ModeAndType[t][m] = ModeAndType[type][mode]
        BY <3>1, <3>3, SameBits
      <3>5. QED
        BY <3>2, <3>4, ModeAndTypeTable
    <2>4. OdysseeMode(p) = mode
      BY <2>2, <2>3 DEF OdysseeMode
    <2>5. QED
      BY <2>4 DEF Get
  <1>2. Get("ODYSSEE", "OPERATION_TYPE", p) = type
    <2> DEFINE field == OdysseeFields.OPERATION_TYPE
               known == { t \in DOMAIN field.code :
                            BitsOf[field.code[t]] = Masked(p, field.byte, field.reads) }
    <2>1. field.byte = 2 /\ field.reads = \hF0 /\ DOMAIN field.code = Types
      BY DEF OdysseeFields, Field, Types
    <2>2. Masked(p, field.byte, field.reads) = BitsOf[field.code[type]]
      <3>1. Masked(p, 2, \hF0) = BitsOf[ModeAndType[type][mode]] \cap BitsOf[\hF0]
        BY BitsOfMasks DEF Masked, Bit
      <3>2. BitsOf[ModeAndType[type][mode]] \cap BitsOf[\hF0] = BitsOf[field.code[type]]
        BY TypeNibble
      <3>3. Masked(p, field.byte, field.reads) = Masked(p, 2, \hF0)
        BY <2>1
      <3>4. QED
        BY <3>1, <3>2, <3>3
    <2>3. type \in known
      BY <2>1, <2>2
    <2>4. ASSUME NEW t \in known
          PROVE  t = type
      <3>1. BitsOf[field.code[t]] = BitsOf[field.code[type]]
        BY <2>2
      <3>2. BitsOf[field.code["ALWAYS_ON"]] = {6} /\ BitsOf[field.code["TIMER"]] = {4}
              /\ BitsOf[field.code["OFF_PEAK_HOURS"]] = {}
        BY BitsOfMasks, BitsOfCodes DEF OdysseeFields, Field
      <3>3. QED
        BY <2>1, <3>1, <3>2 DEF Types
    <2>5. Decoded(p, field) = type
      BY <2>3, <2>4 DEF Decoded
    <2>6. QED
      BY <2>5 DEF Get, Fields
  <1>3. QED
    BY <1>1, <1>2

-----------------------------------------------------------------------------
(* What the other setters leave alone                                      *)

\* The mask of all bits is the byte.
LEMMA WholeByte ==
    \A i : Mask(i, \hFF) = Bytes({i})
  BY BitsOfMasks DEF Mask, Bytes

\* Every value of a byte fits the whole byte.
LEMMA OctetFits == \A n \in Octet : BitsOf[n] \subseteq BitsOf[\hFF]
  BY BitsOfNumber, BitsOfMasks DEF Octet

\* A byte that is written as a whole.
LEMMA WriteByteWithin ==
    ASSUME NEW p, NEW i, NEW n \in Octet
    PROVE  Same(p, Write(p, i, \hFF, n), Bytes({i}))
  BY OctetFits, WriteWithin, WholeByte

\* In ODYSSEE a type is written to the byte of the mode.
TypeBits(v) == ReadsOf(v, IF v = "ODYSSEE" THEN "OPERATION_MODE" ELSE "OPERATION_TYPE")

\* ODYSSEE reads the mode from the whole byte.
LEMMA OdysseeModeBits == ReadsOf("ODYSSEE", "OPERATION_MODE") = Bytes({2})
  BY DEF ReadsOf, HMIMessage, OdysseeReads

\* setAttr of OPERATION_MODE; in ODYSSEE, with the type it reads.
LEMMA SetModeWithin ==
    ASSUME NEW v \in AllVersions, NEW value \in Modes, NEW p
    PROVE  Same(p, SetMode(v, value, p), ReadsOf(v, "OPERATION_MODE"))
  <1>1. CASE v = "ODYSSEE"
    BY <1>1, TypeTyped, ValueTyped, WriteByteWithin, OdysseeModeBits DEF SetMode
  <1>2. CASE v # "ODYSSEE"
    BY <1>2, SetFieldWithin DEF SetMode
  <1>3. QED
    BY <1>1, <1>2

\* setAttr of OPERATION_TYPE; in ODYSSEE, with the mode it reads.
LEMMA SetTypeWithin ==
    ASSUME NEW v \in AllVersions, NEW value \in Types, NEW p
    PROVE  Same(p, SetType(v, value, p), TypeBits(v))
  <1>1. CASE v = "ODYSSEE"
    BY <1>1, ModeTyped, ValueTyped, WriteByteWithin, OdysseeModeBits DEF SetType, TypeBits
  <1>2. CASE v # "ODYSSEE"
    BY <1>2, SetFieldWithin DEF SetType, TypeBits
  <1>3. QED
    BY <1>1, <1>2

Temperatures == ABSENCE_WATER_TEMPERATURE .. MAX_WATER_TEMPERATURE

\* A temperature that may be set fits its bytes.
LEMMA TemperatureBytes ==
    ASSUME NEW value \in Temperatures
    PROVE  /\ Tenths(value) % 256 \in Octet /\ Tenths(value) \div 256 \in Octet
           /\ value \div 10 \in Octet
  <1>1. Tenths(value) \in 199 .. 620
    BY DEF Tenths, Temperatures, ABSENCE_WATER_TEMPERATURE, MAX_WATER_TEMPERATURE
  <1>2. value \div 10 \in 0 .. 255
    BY DEF Temperatures, ABSENCE_WATER_TEMPERATURE, MAX_WATER_TEMPERATURE
  <1>3. Tenths(value) % 256 \in 0 .. 255
    BY <1>1
  <1>4. Tenths(value) \div 256 \in 0 .. 255
    BY <1>1
  <1>5. QED
    BY <1>2, <1>3, <1>4 DEF Octet

\* setAttr of WATER_TARGET_TEMPERATURE: two bytes in legacy, one otherwise.
LEMMA SetTemperatureWithin ==
    ASSUME NEW v \in AllVersions, NEW value \in Temperatures, NEW p
    PROVE  Same(p, SetTemperature(v, value, p), ReadsOf(v, "WATER_TARGET_TEMPERATURE"))
  <1>1. CASE v = "LEGACY"
    <2> DEFINE low  == Tenths(value) % 256
               high == Tenths(value) \div 256
               q    == Write(p, 1, \hFF, low)
               r    == Write(q, 2, \hFF, high)
    <2>1. SetTemperature(v, value, p) = r
      BY <1>1 DEF SetTemperature
    <2>2. low \in Octet /\ high \in Octet
      BY TemperatureBytes
    <2> HIDE DEF low, high
    <2>3. Same(p, q, Bytes({1})) /\ Same(q, r, Bytes({2}))
      BY <2>2, WriteByteWithin
    <2>4. Same(p, r, Bytes({1}) \cup Bytes({2}))
      BY <2>3, SameThrough
    <2>5. Bytes({1}) \cup Bytes({2}) = ReadsOf(v, "WATER_TARGET_TEMPERATURE")
      BY <1>1 DEF Bytes, ReadsOf, HMIMessage, LegacyReads
    <2>6. QED
      BY <2>1, <2>4, <2>5
  <1>2. CASE v # "LEGACY"
    <2>1. ReadsOf(v, "WATER_TARGET_TEMPERATURE") = Bytes({1})
      BY <1>2 DEF AllVersions, ReadsOf, HMIMessage, NextReads, OdysseeReads
    <2>2. QED
      BY <1>2, <2>1, TemperatureBytes, WriteByteWithin DEF SetTemperature
  <1>3. QED
    BY <1>1, <1>2

\* All that is read of the time.
TimeBits(v) == UNION { ReadsOf(v, attr) : attr \in TimeAndDate }

\* The bytes setAttr writes of time and date are read as time and date.
LEMMA TimeBytes ==
    ASSUME NEW v \in AllVersions
    PROVE  /\ Bytes({Numbers(v).hours}) \subseteq TimeBits(v)
           /\ Bytes({Numbers(v).minutes}) \subseteq TimeBits(v)
           /\ v # "ODYSSEE" => Bytes({Numbers(v).seconds}) \subseteq TimeBits(v)
           /\ Mask(Numbers(v).day, \h1F) \subseteq TimeBits(v)
           /\ Mask(Numbers(v).day, \hE0) \subseteq TimeBits(v)
           /\ Bytes({Numbers(v).year}) \subseteq TimeBits(v)
  <1>1. \A attr \in TimeAndDate : ReadsOf(v, attr) \subseteq TimeBits(v)
    BY DEF TimeBits
  <1>2. {"TIME_SECONDS", "TIME_MINUTES", "TIME_HOURS", "DATE_DAY", "DATE_MONTH", "DATE_YEAR"}
            \subseteq TimeAndDate
    BY DEF TimeAndDate
  <1>3. /\ ReadsOf(v, "TIME_HOURS") = Bytes({Numbers(v).hours})
        /\ ReadsOf(v, "TIME_MINUTES") = Bytes({Numbers(v).minutes})
        /\ v # "ODYSSEE" => ReadsOf(v, "TIME_SECONDS") = Bytes({Numbers(v).seconds})
    BY DEF AllVersions, ReadsOf, HMIMessage, LegacyReads, NextReads, OdysseeReads, Numbers
  <1>4. /\ ReadsOf(v, "DATE_DAY") = Mask(Numbers(v).day, \h1F)
        /\ ReadsOf(v, "DATE_MONTH") = Mask(Numbers(v).day, \hE0) \cup Mask(Numbers(v).year, \h01)
        /\ ReadsOf(v, "DATE_YEAR") = Mask(Numbers(v).year, \hFE)
    BY DEF AllVersions, ReadsOf, HMIMessage, LegacyReads, NextReads, OdysseeReads, Numbers
  <1>5. Bytes({Numbers(v).year}) \subseteq
            Mask(Numbers(v).year, \h01) \cup Mask(Numbers(v).year, \hFE)
    BY BitsOfMasks DEF Bytes, Mask, Bit
  <1>6. Bytes({Numbers(v).hours}) \subseteq TimeBits(v)
    BY <1>1, <1>2, <1>3
  <1>7. Bytes({Numbers(v).minutes}) \subseteq TimeBits(v)
    BY <1>1, <1>2, <1>3
  <1>8. v # "ODYSSEE" => Bytes({Numbers(v).seconds}) \subseteq TimeBits(v)
    BY <1>1, <1>2, <1>3
  <1>9. Mask(Numbers(v).day, \h1F) \subseteq TimeBits(v)
    BY <1>1, <1>2, <1>4
  <1>10. /\ Mask(Numbers(v).day, \hE0) \subseteq TimeBits(v)
         /\ Mask(Numbers(v).year, \h01) \subseteq TimeBits(v)
    BY <1>1, <1>2, <1>4
  <1>11. Mask(Numbers(v).year, \hFE) \subseteq TimeBits(v)
    BY <1>1, <1>2, <1>4
  <1>12. Bytes({Numbers(v).year}) \subseteq TimeBits(v)
    BY <1>5, <1>10, <1>11
  <1>13. QED
    BY <1>6, <1>7, <1>8, <1>9, <1>10, <1>12

\* A byte of the time.
LEMMA WriteTimeWithin ==
    ASSUME NEW v, NEW p, NEW i, NEW n \in Octet, Bytes({i}) \subseteq TimeBits(v)
    PROVE  Same(p, Write(p, i, \hFF, n), TimeBits(v))
  BY WriteByteWithin, SameWithin

\* A part of a byte of the date.
LEMMA WriteDateWithin ==
    ASSUME NEW v, NEW p, NEW i, NEW m, NEW n, BitsOf[n] \subseteq BitsOf[m],
           Mask(i, m) \subseteq TimeBits(v)
    PROVE  Same(p, Write(p, i, m, n), TimeBits(v))
  BY WriteWithin, SameWithin

\* The upper three bits of the byte of the day take the lower three of the month.
LEMMA MonthBits ==
    ASSUME NEW within \in Int
    PROVE  BitsOf[(within % 8) * 32] \subseteq BitsOf[\hE0]
  <1>1. within % 8 \in 0 .. 7
    OBVIOUS
  <1>2. QED
    BY <1>1, BitsOfDate

\* setDateMonthAndYear writes nothing but the date.
LEMMA SetDateWithin ==
    ASSUME NEW v \in AllVersions, NEW month \in 1 .. 12, NEW year \in Years, NEW p
    PROVE  Same(p, SetDateMonthAndYear(v, month, year, p), TimeBits(v))
  <1> DEFINE past   == IF month > (IF v = "LEGACY" THEN 7 ELSE 8) THEN 1 ELSE 0
             within == IF v = "LEGACY" THEN month - 8 * past ELSE month - 1 - 8 * past
             low    == ((year - 2000) * 2 + past) % 256
             high   == (within % 8) * 32
             n      == Numbers(v)
             q      == Write(p, n.year, \hFF, low)
             r      == Write(q, n.day, \hE0, high)
  <1>1. SetDateMonthAndYear(v, month, year, p) = r
    BY DEF SetDateMonthAndYear
  <1>2. past \in {0, 1}
    OBVIOUS
  <1>3. within \in Int
    BY <1>2
  <1> HIDE DEF past, within
  <1>4. low \in Octet
    BY <1>2 DEF Years, Octet
  <1>5. BitsOf[high] \subseteq BitsOf[\hE0]
    BY <1>3, MonthBits
  <1> HIDE DEF low, high
  <1>6. Bytes({n.year}) \subseteq TimeBits(v) /\ Mask(n.day, \hE0) \subseteq TimeBits(v)
    BY TimeBytes
  <1> HIDE DEF n
  <1>7. Same(p, q, TimeBits(v))
    BY <1>4, <1>6, WriteTimeWithin
  <1>8. Same(q, r, TimeBits(v))
    BY <1>5, <1>6, WriteDateWithin
  <1>9. Same(p, r, TimeBits(v))
    BY <1>7, <1>8 DEF Same
  <1>10. QED
    BY <1>1, <1>9

\* All the setters of the time write nothing but time and date.
LEMMA SetTimeWithin ==
    ASSUME NEW v \in AllVersions, NEW t \in Clock, NEW p
    PROVE  Same(p, SetTime(v, t, p), TimeBits(v))
  <1> DEFINE n       == Numbers(v)
             hours   == Write(p, n.hours, \hFF, t.hours)
             minutes == Write(hours, n.minutes, \hFF, t.minutes)
             seconds == IF v = "ODYSSEE" THEN minutes
                        ELSE Write(minutes, n.seconds, \hFF, t.seconds)
             day     == Write(seconds, n.day, \h1F, t.day)
             last    == SetDateMonthAndYear(v, t.month, t.year, day)
  <1>1. SetTime(v, t, p) = last
    BY DEF SetTime
  <1>2. /\ t.hours \in Octet /\ t.minutes \in Octet /\ t.seconds \in Octet
        /\ t.month \in 1 .. 12 /\ t.year \in Years
    BY DEF Clock, Octet
  <1>3. BitsOf[t.day] \subseteq BitsOf[\h1F]
    <2>1. t.day \in 0 .. 31
      BY DEF Clock
    <2>2. QED
      BY <2>1, BitsOfDate
  <1>4. Bytes({n.hours}) \subseteq TimeBits(v) /\ Bytes({n.minutes}) \subseteq TimeBits(v)
    BY TimeBytes
  <1>5. v # "ODYSSEE" => Bytes({n.seconds}) \subseteq TimeBits(v)
    BY TimeBytes
  <1>6. Mask(n.day, \h1F) \subseteq TimeBits(v)
    BY TimeBytes
  <1> HIDE DEF n
  <1>7. Same(p, hours, TimeBits(v))
    BY <1>2, <1>4, WriteTimeWithin
  <1>8. Same(hours, minutes, TimeBits(v))
    BY <1>2, <1>4, WriteTimeWithin
  <1>9. Same(minutes, seconds, TimeBits(v))
    <2>1. CASE v = "ODYSSEE"
      BY <2>1, SameSelf
    <2>2. CASE v # "ODYSSEE"
      BY <2>2, <1>2, <1>5, WriteTimeWithin
    <2>3. QED
      BY <2>1, <2>2
  <1> HIDE DEF seconds
  <1>10. Same(seconds, day, TimeBits(v))
    BY <1>3, <1>6, WriteDateWithin
  <1>11. Same(day, last, TimeBits(v))
    BY <1>2, SetDateWithin
  <1> HIDE DEF hours, minutes, day, last
  <1>12. Same(p, last, TimeBits(v))
    BY <1>7, <1>8, <1>9, <1>10, <1>11 DEF Same
  <1>13. QED
    BY <1>1, <1>12

-----------------------------------------------------------------------------
(* applyHMIOverrides                                                       *)

\* The attribute of a topic's bits.
TopicAttr(topic) ==
    IF topic = "waterTempTarget" THEN "WATER_TARGET_TEMPERATURE"
    ELSE IF version = "ODYSSEE" /\ topic = "operationType" THEN "OPERATION_MODE"
    ELSE Attribute[topic]

\* The bits an override is said to change are those its attribute is read from.
LEMMA BitsOfTopics ==
    /\ BitsOfTopic("configInstallation") = ReadsOf(version, "STATE_INSTALLATION_MODE")
    /\ BitsOfTopic("operationMode") = ReadsOf(version, "OPERATION_MODE")
    /\ BitsOfTopic("operationType") = TypeBits(version)
    /\ BitsOfTopic("configFanExhaust") = ReadsOf(version, "CONFIG_FAN_EXHAUST")
    /\ BitsOfTopic("configAirduct") = ReadsOf(version, "CONFIG_AIRDUCT")
    /\ BitsOfTopic("heatingElementEnabled") = ReadsOf(version, "HEATING_ELEMENT_ALLOWED")
    /\ BitsOfTopic("emergencyModeEnabled") = ReadsOf(version, "EMERGENCY_MODE_ENABLED")
    /\ BitsOfTopic("waterTempTarget") = ReadsOf(version, "WATER_TARGET_TEMPERATURE")
  BY DEF BitsOfTopic, ReadsOf, TypeBits, Attribute

\* The bits the time is said to change.
LEMMA BitsOfTimes == BitsOfTime = TimeBits(version)
  BY DEF BitsOfTime, TimeBits, ReadsOf

Installations ==
    {"HP_ONLY", "HP_AND_EXT_PRIO_HP", "HP_AND_EXT_OPT_HP", "HP_AND_EXT_OPT_EXT",
     "HP_AND_EXT_PRIO_EXT", "HP_AND_SOLAR"}

\* What messageReceived can make of an option.
Overridden ==
    [configInstallation    : Installations \cup {None},
     operationMode         : Modes \cup {None},
     operationType         : Types \cup {None},
     configFanExhaust      : {"STOP", "LOW_SPEED", "HIGH_SPEED", None},
     configAirduct         : {"INT_INT", "INT_EXT", "EXT_EXT", None},
     heatingElementEnabled : BOOLEAN \cup {None},
     emergencyModeEnabled  : BOOLEAN \cup {None},
     waterTempTarget       : TargetTemperatures \cup {None}]

PVFlags == [heatPump : BOOLEAN, heatElement : BOOLEAN]

\* The steps of Standard.
AfterTemperature(p) == OverrideTemperature(p)
AfterInstallation(p) ==
    IF override.configInstallation = None THEN AfterTemperature(p)
    ELSE SetInstallation(override.configInstallation, AfterTemperature(p))
AfterFan(p) ==
    IF override.configFanExhaust = None THEN AfterInstallation(p)
    ELSE SetField(version, "CONFIG_FAN_EXHAUST", override.configFanExhaust, AfterInstallation(p))
AfterAirduct(p) ==
    IF override.configAirduct = None THEN AfterFan(p)
    ELSE SetField(version, "CONFIG_AIRDUCT", override.configAirduct, AfterFan(p))
AfterMode(p) == OverrideMode(AfterAirduct(p))
AfterType(p) ==
    IF override.operationType = None THEN AfterMode(p)
    ELSE SetType(version, override.operationType, AfterMode(p))
AfterElement(p) ==
    IF override.heatingElementEnabled = None THEN AfterType(p)
    ELSE SetElement(version, override.heatingElementEnabled, AfterType(p))
AfterEmergency(p) ==
    IF override.emergencyModeEnabled = None THEN AfterElement(p)
    ELSE SetEmergency(version, override.emergencyModeEnabled, AfterElement(p))

\* No override is not an override with a mode.
LEMMA NoneIsNoMode == None \notin Modes
  BY NoneAssumption DEF Strings, Modes

\* The last step is the whole.
LEMMA StandardSteps == \A p : Standard(p) = AfterEmergency(p)
  BY DEF Standard, Or, AfterInstallation, AfterTemperature, AfterFan, AfterAirduct,
         AfterMode, AfterType, AfterElement, AfterEmergency

\* What is overridden without PV mode: BOOST and ABSENCE set the temperature, too.
ForcedTopics ==
    InForce \cup (IF override.operationMode \in {"BOOST", "ABSENCE"}
                  THEN {"waterTempTarget"} ELSE {})

ForcedBits == UNION { BitsOfTopic(topic) : topic \in ForcedTopics }

\* The bits of an override in force may change.
LEMMA ForcedTopic ==
    ASSUME NEW topic \in Topics, override[topic] # None
    PROVE  BitsOfTopic(topic) \subseteq ForcedBits
  BY DEF ForcedBits, ForcedTopics, InForce

\* Those of the temperature may change if the mode decides it.
LEMMA ForcedTemperature ==
    ASSUME override.operationMode \in {"BOOST", "ABSENCE"}
    PROVE  BitsOfTopic("waterTempTarget") \subseteq ForcedBits
  BY DEF ForcedBits, ForcedTopics

\* Without PV mode every step writes to the bits of what is overridden.
LEMMA StandardWithin ==
    ASSUME version \in AllVersions, override \in Overridden, NEW p
    PROVE  Same(p, Standard(p), ForcedBits)
  <1>0. /\ "configInstallation" \in Topics /\ "operationMode" \in Topics
        /\ "operationType" \in Topics /\ "configFanExhaust" \in Topics
        /\ "configAirduct" \in Topics /\ "heatingElementEnabled" \in Topics
        /\ "emergencyModeEnabled" \in Topics /\ "waterTempTarget" \in Topics
    BY DEF Topics
  <1>1. Same(p, AfterTemperature(p), ForcedBits)
    <2> DEFINE value == override.waterTempTarget
    <2>1. CASE value # None /\ value \in Temperatures
      <3>1. Same(p, SetTemperature(version, value, p), BitsOfTopic("waterTempTarget"))
        BY <2>1, SetTemperatureWithin, BitsOfTopics
      <3>2. BitsOfTopic("waterTempTarget") \subseteq ForcedBits
        BY <2>1, <1>0, ForcedTopic
      <3>3. AfterTemperature(p) = SetTemperature(version, value, p)
        BY <2>1 DEF AfterTemperature, OverrideTemperature, Temperatures
      <3>4. QED
        BY <3>1, <3>2, <3>3, SameWithin
    <2>2. CASE ~(value # None /\ value \in Temperatures)
      BY <2>2, SameSelf DEF AfterTemperature, OverrideTemperature, Temperatures
    <2>3. QED
      BY <2>1, <2>2
  <1>2. Same(AfterTemperature(p), AfterInstallation(p), ForcedBits)
    <2>1. CASE override.configInstallation = None
      BY <2>1, SameSelf DEF AfterInstallation
    <2>2. CASE override.configInstallation # None
      <3>1. Same(AfterTemperature(p), AfterInstallation(p), BitsOfTopic("configInstallation"))
        BY <2>2, SetFieldWithin, BitsOfTopics DEF AfterInstallation, SetInstallation
      <3>2. QED
        BY <2>2, <3>1, <1>0, ForcedTopic, SameWithin
    <2>3. QED
      BY <2>1, <2>2
  <1>3. Same(AfterInstallation(p), AfterFan(p), ForcedBits)
    <2>1. CASE override.configFanExhaust = None
      BY <2>1, SameSelf DEF AfterFan
    <2>2. CASE override.configFanExhaust # None
      <3>1. Same(AfterInstallation(p), AfterFan(p), BitsOfTopic("configFanExhaust"))
        BY <2>2, SetFieldWithin, BitsOfTopics DEF AfterFan
      <3>2. QED
        BY <2>2, <3>1, <1>0, ForcedTopic, SameWithin
    <2>3. QED
      BY <2>1, <2>2
  <1>4. Same(AfterFan(p), AfterAirduct(p), ForcedBits)
    <2>1. CASE override.configAirduct = None
      BY <2>1, SameSelf DEF AfterAirduct
    <2>2. CASE override.configAirduct # None
      <3>1. Same(AfterFan(p), AfterAirduct(p), BitsOfTopic("configAirduct"))
        BY <2>2, SetFieldWithin, BitsOfTopics DEF AfterAirduct
      <3>2. QED
        BY <2>2, <3>1, <1>0, ForcedTopic, SameWithin
    <2>3. QED
      BY <2>1, <2>2
  <1>5. Same(AfterAirduct(p), AfterMode(p), ForcedBits)
    <2> DEFINE q    == AfterAirduct(p)
               mode == override.operationMode
               r    == SetMode(version, mode, q)
    <2>1. CASE mode = None
      BY <2>1, SameSelf, NoneIsNoMode DEF AfterMode, OverrideMode, Modes
    <2>2. CASE mode # None
      <3>1. mode \in Modes
        BY <2>2 DEF Overridden
      <3>2. Same(q, r, ForcedBits)
        <4>1. Same(q, r, BitsOfTopic("operationMode"))
          BY <3>1, SetModeWithin, BitsOfTopics
        <4>2. QED
          BY <2>2, <4>1, <1>0, ForcedTopic, SameWithin
      <3>3. CASE mode \in {"BOOST", "ABSENCE"}
        <4>1. PICK t \in Temperatures : AfterMode(p) = SetTemperature(version, t, r)
          <5>1. MAX_WATER_TEMPERATURE \in Temperatures /\ ABSENCE_WATER_TEMPERATURE \in Temperatures
            BY DEF Temperatures, MAX_WATER_TEMPERATURE, ABSENCE_WATER_TEMPERATURE
          <5>2. CASE mode = "BOOST"
            BY <2>2, <5>1, <5>2 DEF AfterMode, OverrideMode
          <5>3. CASE mode = "ABSENCE"
            BY <2>2, <5>1, <5>3 DEF AfterMode, OverrideMode
          <5>4. QED
            BY <3>3, <5>2, <5>3
        <4>2. Same(r, AfterMode(p), BitsOfTopic("waterTempTarget"))
          BY <4>1, SetTemperatureWithin, BitsOfTopics
        <4>3. BitsOfTopic("waterTempTarget") \subseteq ForcedBits
          BY <3>3, ForcedTemperature
        <4>4. Same(r, AfterMode(p), ForcedBits)
          BY <4>2, <4>3, SameWithin
        <4>5. QED
          BY <3>2, <4>4 DEF Same
      <3>4. CASE mode \notin {"BOOST", "ABSENCE"}
        BY <2>2, <3>2, <3>4 DEF AfterMode, OverrideMode
      <3>5. QED
        BY <3>3, <3>4
    <2>3. QED
      BY <2>1, <2>2
  <1>6. Same(AfterMode(p), AfterType(p), ForcedBits)
    <2>1. CASE override.operationType = None
      BY <2>1, SameSelf DEF AfterType
    <2>2. CASE override.operationType # None
      <3>1. override.operationType \in Types
        BY <2>2 DEF Overridden
      <3>2. Same(AfterMode(p), AfterType(p), BitsOfTopic("operationType"))
        BY <2>2, <3>1, SetTypeWithin, BitsOfTopics DEF AfterType
      <3>3. QED
        BY <2>2, <3>2, <1>0, ForcedTopic, SameWithin
    <2>3. QED
      BY <2>1, <2>2
  <1>7. Same(AfterType(p), AfterElement(p), ForcedBits)
    <2>1. CASE override.heatingElementEnabled = None
      BY <2>1, SameSelf DEF AfterElement
    <2>2. CASE override.heatingElementEnabled # None
      <3>1. Same(AfterType(p), AfterElement(p), BitsOfTopic("heatingElementEnabled"))
        BY <2>2, SetElementWithin, BitsOfTopics DEF AfterElement
      <3>2. QED
        BY <2>2, <3>1, <1>0, ForcedTopic, SameWithin
    <2>3. QED
      BY <2>1, <2>2
  <1>8. Same(AfterElement(p), AfterEmergency(p), ForcedBits)
    <2>1. CASE override.emergencyModeEnabled = None
      BY <2>1, SameSelf DEF AfterEmergency
    <2>2. CASE override.emergencyModeEnabled # None
      <3>1. Same(AfterElement(p), AfterEmergency(p), BitsOfTopic("emergencyModeEnabled"))
        BY <2>2, SetEmergencyWithin, BitsOfTopics DEF AfterEmergency
      <3>2. QED
        BY <2>2, <3>1, <1>0, ForcedTopic, SameWithin
    <2>3. QED
      BY <2>1, <2>2
  <1>9. QED
    BY <1>1, <1>2, <1>3, <1>4, <1>5, <1>6, <1>7, <1>8, StandardSteps DEF Same

\* PVMode, which all PV modes begin with.
LEMMA PVModeWithin ==
    ASSUME version \in AllVersions, NEW mode \in Modes, NEW p
    PROVE  Same(p, PVMode(mode, p),
                UNION { BitsOfTopic(topic) : topic \in {"operationMode", "operationType",
                                                        "waterTempTarget", "configInstallation"} })
  <1> DEFINE bits == UNION { BitsOfTopic(topic) : topic \in {"operationMode", "operationType",
                                                   "waterTempTarget", "configInstallation"} }
             q == SetInstallation("HP_ONLY", p)
             r == SetType(version, "ALWAYS_ON", q)
             s == SetMode(version, mode, r)
  <1>1. /\ BitsOfTopic("operationMode") \subseteq bits
        /\ BitsOfTopic("operationType") \subseteq bits
        /\ BitsOfTopic("waterTempTarget") \subseteq bits
        /\ BitsOfTopic("configInstallation") \subseteq bits
    OBVIOUS
  <1> HIDE DEF bits
  <1>2. Same(p, q, bits)
    <2>1. Same(p, q, BitsOfTopic("configInstallation"))
      BY SetFieldWithin, BitsOfTopics DEF SetInstallation
    <2>2. QED
      BY <1>1, <2>1, SameWithin
  <1>3. Same(q, r, bits)
    <2>1. Same(q, r, BitsOfTopic("operationType"))
      BY SetTypeWithin, BitsOfTopics DEF Types
    <2>2. QED
      BY <1>1, <2>1, SameWithin
  <1>4. Same(r, s, bits)
    <2>1. Same(r, s, BitsOfTopic("operationMode"))
      BY SetModeWithin, BitsOfTopics
    <2>2. QED
      BY <1>1, <2>1, SameWithin
  <1>5. Same(s, SetTemperature(version, MAX_WATER_TEMPERATURE, s), bits)
    <2>1. MAX_WATER_TEMPERATURE \in Temperatures
      BY DEF Temperatures, MAX_WATER_TEMPERATURE, ABSENCE_WATER_TEMPERATURE
    <2>2. Same(s, SetTemperature(version, MAX_WATER_TEMPERATURE, s), BitsOfTopic("waterTempTarget"))
      BY <2>1, SetTemperatureWithin, BitsOfTopics
    <2>3. QED
      BY <1>1, <2>2, SameWithin
  <1>6. Same(p, PVMode(mode, p), bits)
    BY <1>2, <1>3, <1>4, <1>5 DEF Same, PVMode
  <1>7. QED
    BY <1>6 DEF bits

\* The bits of what getOverrides names are overridden.
LEMMA OverriddenTopic ==
    ASSUME NEW topic \in OverriddenTopics
    PROVE  BitsOfTopic(topic) \subseteq OverriddenBits
  BY DEF OverriddenBits

\* With PV mode, four attributes are written, and getOverrides names them.
LEMMA PVModeOverridden ==
    ASSUME version \in AllVersions, NEW mode \in Modes, NEW p,
           {"operationMode", "operationType", "waterTempTarget", "configInstallation"}
               \subseteq OverriddenTopics
    PROVE  Same(p, PVMode(mode, p), OverriddenBits)
  <1>1. UNION { BitsOfTopic(topic) : topic \in {"operationMode", "operationType",
                                                "waterTempTarget", "configInstallation"} }
            \subseteq OverriddenBits
    BY OverriddenTopic
  <1>2. QED
    BY <1>1, PVModeWithin, SameWithin

\* After the overrides nothing but overridden bits differ.
LEMMA ApplyWithin ==
    ASSUME version \in AllVersions, override \in Overridden, hmiFlags \in PVFlags,
           time \in Clock \cup {None}, NEW p
    PROVE  Same(p, ApplyHMIOverrides(p), OverriddenBits)
  <1> DEFINE pv == {"operationMode", "operationType", "waterTempTarget", "configInstallation"}
             q  == CASE hmiFlags.heatPump /\ hmiFlags.heatElement   -> PVFull(p)
                     [] hmiFlags.heatPump /\ ~hmiFlags.heatElement  -> PVHeatPumpOnly(p)
                     [] ~hmiFlags.heatPump /\ hmiFlags.heatElement  -> PVHeatElementOnly(p)
                     [] ~hmiFlags.heatPump /\ ~hmiFlags.heatElement -> Standard(p)
  <1>0. /\ "BOOST" \in Modes /\ "ECO_ACTIVE" \in Modes /\ "ECO_INACTIVE" \in Modes
        /\ hmiFlags.heatPump \in BOOLEAN /\ hmiFlags.heatElement \in BOOLEAN
        /\ hmiFlags = [heatPump |-> hmiFlags.heatPump, heatElement |-> hmiFlags.heatElement]
    BY DEF Modes, PVFlags
  <1>1. Same(p, q, OverriddenBits)
    <2>1. CASE hmiFlags.heatPump /\ hmiFlags.heatElement
      <3>1. pv \subseteq OverriddenTopics
        BY <2>1 DEF OverriddenTopics, GetOverrides
      <3>2. QED
        BY <2>1, <3>1, <1>0, PVModeOverridden DEF PVFull
    <2>2. CASE hmiFlags.heatPump /\ ~hmiFlags.heatElement
      <3> DEFINE r == PVMode(IF version = "ODYSSEE" THEN "ECO_ACTIVE" ELSE "ECO_INACTIVE", p)
                 s == SetEmergency(version, FALSE, r)
                 t == SetElement(version, FALSE, s)
      <3>1. pv \cup Flags \subseteq OverriddenTopics
        BY <2>2 DEF OverriddenTopics, GetOverrides
      <3>2. Same(p, r, OverriddenBits)
        BY <3>1, <1>0, PVModeOverridden
      <3>3. Same(r, s, OverriddenBits) /\ Same(s, t, OverriddenBits)
        <4>1. /\ BitsOfTopic("emergencyModeEnabled") \subseteq OverriddenBits
              /\ BitsOfTopic("heatingElementEnabled") \subseteq OverriddenBits
          BY <3>1, OverriddenTopic DEF Flags
        <4>2. QED
          BY <4>1, SetElementWithin, SetEmergencyWithin, BitsOfTopics, SameWithin
      <3>4. q = t
        BY <2>2 DEF PVHeatPumpOnly
      <3>5. QED
        BY <3>2, <3>3, <3>4 DEF Same
    <2>3. CASE ~hmiFlags.heatPump /\ hmiFlags.heatElement
      <3> DEFINE r == PVMode("ECO_INACTIVE", p)
                 s == SetEmergency(version, TRUE, r)
                 t == SetElement(version, TRUE, s)
      <3>1. pv \cup Flags \subseteq OverriddenTopics
        BY <2>3 DEF OverriddenTopics, GetOverrides
      <3>2. Same(p, r, OverriddenBits)
        BY <3>1, <1>0, PVModeOverridden
      <3>3. Same(r, s, OverriddenBits) /\ Same(s, t, OverriddenBits)
        <4>1. /\ BitsOfTopic("emergencyModeEnabled") \subseteq OverriddenBits
              /\ BitsOfTopic("heatingElementEnabled") \subseteq OverriddenBits
          BY <3>1, OverriddenTopic DEF Flags
        <4>2. QED
          BY <4>1, SetElementWithin, SetEmergencyWithin, BitsOfTopics, SameWithin
      <3>4. q = t
        BY <2>3 DEF PVHeatElementOnly
      <3>5. QED
        BY <3>2, <3>3, <3>4 DEF Same
    <2>4. CASE ~hmiFlags.heatPump /\ ~hmiFlags.heatElement
      <3>1. ForcedTopics \subseteq OverriddenTopics
        BY <2>4, <1>0 DEF ForcedTopics, OverriddenTopics, GetOverrides, NoFlag
      <3>2. ForcedBits \subseteq OverriddenBits
        BY <3>1, OverriddenTopic DEF ForcedBits
      <3>3. q = Standard(p)
        BY <2>4
      <3>4. QED
        BY <3>2, <3>3, StandardWithin, SameWithin
    <2>5. QED
      BY <1>0, <2>1, <2>2, <2>3, <2>4
  <1> HIDE DEF q
  <1>2. CASE time = None
    <2>1. ApplyHMIOverrides(p) = q
      BY <1>2 DEF ApplyHMIOverrides, q
    <2>2. QED
      BY <1>1, <2>1
  <1>3. CASE time # None
    <2>1. ApplyHMIOverrides(p) = SetTime(version, time, q)
      BY <1>3 DEF ApplyHMIOverrides, q
    <2>2. time \in Clock
      BY <1>3
    <2>3. Same(q, SetTime(version, time, q), TimeBits(version))
      BY <2>2, SetTimeWithin
    <2>4. TimeBits(version) \subseteq OverriddenBits
      BY <1>3, BitsOfTimes DEF OverriddenBits
    <2>5. QED
      BY <1>1, <2>1, <2>3, <2>4 DEF Same
  <1>4. QED
    BY <1>2, <1>3

-----------------------------------------------------------------------------
(* Mode and type keep their values                                         *)

\* Bits that are left alone are read as before.
LEMMA MaskedSame ==
    ASSUME NEW p, NEW q, NEW bits, Same(p, q, bits), NEW i, NEW m, Mask(i, m) \cap bits = {}
    PROVE  Masked(p, i, m) = Masked(q, i, m)
  BY DEF Same, Masked, Mask

\* LEGACY and NEXT: no other attribute shares bits with the mode or the type.
LEMMA ModeBitsApart ==
    ASSUME version \in AllVersions, version # "ODYSSEE",
           NEW topic \in {"operationMode", "operationType"}
    PROVE  /\ \A other \in Topics \ {topic} : BitsOfTopic(topic) \cap BitsOfTopic(other) = {}
           /\ BitsOfTopic(topic) \cap BitsOfTime = {}
  <1> DEFINE byte == IF version = "LEGACY" THEN 3 ELSE 2
  <1>1. /\ BitsOfTopic("operationMode") = Mask(byte, \h0F)
        /\ BitsOfTopic("operationType") = Mask(byte, IF version = "LEGACY" THEN \h40 ELSE \hF0)
    BY BitsOfTopics DEF AllVersions, ReadsOf, TypeBits, HMIMessage, LegacyReads, NextReads
  <1>2. Mask(byte, \h0F) \cap Mask(byte, IF version = "LEGACY" THEN \h40 ELSE \hF0) = {}
    BY BitsOfMasks DEF Mask
  <1>3. \A other \in Topics \ {"operationMode", "operationType"} :
            \A bit \in BitsOfTopic(other) : bit[1] # byte
    <2>1. /\ \A bit \in BitsOfTopic("configInstallation") : bit[1] # byte
          /\ \A bit \in BitsOfTopic("configFanExhaust") : bit[1] # byte
      BY BitsOfTopics DEF AllVersions, ReadsOf, HMIMessage, LegacyReads, NextReads, Mask
    <2>2. /\ \A bit \in BitsOfTopic("configAirduct") : bit[1] # byte
          /\ \A bit \in BitsOfTopic("heatingElementEnabled") : bit[1] # byte
      BY BitsOfTopics DEF AllVersions, ReadsOf, HMIMessage, LegacyReads, NextReads, Mask
    <2>3. /\ \A bit \in BitsOfTopic("emergencyModeEnabled") : bit[1] # byte
          /\ \A bit \in BitsOfTopic("waterTempTarget") : bit[1] # byte
      BY BitsOfTopics DEF AllVersions, ReadsOf, HMIMessage, LegacyReads, NextReads, Mask, Bytes
    <2>4. QED
      BY <2>1, <2>2, <2>3 DEF Topics
  <1>4. \A bit \in BitsOfTime : bit[1] # byte
    <2>1. ASSUME NEW attr \in TimeAndDate
          PROVE  \A bit \in ReadsOf(version, attr) : bit[1] # byte
      BY DEF AllVersions, TimeAndDate, ReadsOf, HMIMessage, LegacyReads, NextReads, Mask, Bytes
    <2>2. QED
      BY <2>1, BitsOfTimes DEF TimeBits
  <1>5. \A bit \in BitsOfTopic(topic) : bit[1] = byte
    BY <1>1 DEF Mask
  <1>6. ASSUME NEW other \in Topics \ {topic}
        PROVE  BitsOfTopic(topic) \cap BitsOfTopic(other) = {}
    <2>1. CASE other \in {"operationMode", "operationType"}
      BY <2>1, <1>1, <1>2
    <2>2. CASE other \notin {"operationMode", "operationType"}
      BY <2>2, <1>3, <1>5
    <2>3. QED
      BY <2>1, <2>2
  <1>7. QED
    BY <1>4, <1>5, <1>6

\* ODYSSEE: nothing else is in the byte of mode and type.
LEMMA ModeByteApart ==
    ASSUME version = "ODYSSEE"
    PROVE  /\ \A other \in Topics \ {"operationMode", "operationType"} :
                 Mask(2, \hFF) \cap BitsOfTopic(other) = {}
           /\ Mask(2, \hFF) \cap BitsOfTime = {}
  <1>1. version \in AllVersions
    BY DEF AllVersions
  <1>2. \A other \in Topics \ {"operationMode", "operationType"} :
            \A bit \in BitsOfTopic(other) : bit[1] # 2
    <2>1. /\ \A bit \in BitsOfTopic("configInstallation") : bit[1] # 2
          /\ \A bit \in BitsOfTopic("configFanExhaust") : bit[1] # 2
      BY BitsOfTopics DEF ReadsOf, HMIMessage, OdysseeReads
    <2>2. /\ \A bit \in BitsOfTopic("configAirduct") : bit[1] # 2
          /\ \A bit \in BitsOfTopic("heatingElementEnabled") : bit[1] # 2
      BY BitsOfTopics DEF ReadsOf, HMIMessage, OdysseeReads, Mask
    <2>3. /\ \A bit \in BitsOfTopic("emergencyModeEnabled") : bit[1] # 2
          /\ \A bit \in BitsOfTopic("waterTempTarget") : bit[1] # 2
      BY BitsOfTopics DEF ReadsOf, HMIMessage, OdysseeReads, Mask, Bytes
    <2>4. QED
      BY <2>1, <2>2, <2>3 DEF Topics
  <1>3. \A bit \in BitsOfTime : bit[1] # 2
    <2>1. ASSUME NEW attr \in TimeAndDate
          PROVE  \A bit \in ReadsOf(version, attr) : bit[1] # 2
      BY DEF TimeAndDate, ReadsOf, HMIMessage, OdysseeReads, Mask, Bytes
    <2>2. QED
      BY <2>1, BitsOfTimes DEF TimeBits
  <1>4. \A bit \in Mask(2, \hFF) : bit[1] = 2
    BY DEF Mask
  <1>5. QED
    BY <1>2, <1>3, <1>4

KeepsModeByte(p, q) == Masked(p, 2, \hFF) = Masked(q, 2, \hFF)

\* Mode and type by the bits of a byte.
ModeOf(bits) ==
    LET known == { mode \in DOMAIN ModeAndType.TIMER :
                       \E type \in DOMAIN ModeAndType : BitsOf[ModeAndType[type][mode]] = bits }
    IN IF known = {} THEN "UNKNOWN" ELSE CHOOSE mode \in known : TRUE

ValueOf(bits, field) ==
    LET known == { v \in DOMAIN field.code : BitsOf[field.code[v]] = bits }
    IN IF known = {} THEN "UNKNOWN" ELSE CHOOSE v \in known : TRUE

\* What a getter answers depends on the bits it reads alone.
LEMMA GettersOfBits ==
    /\ \A p : OdysseeMode(p) = ModeOf(Masked(p, 2, \hFF))
    /\ \A p, field : Decoded(p, field) = ValueOf(Masked(p, field.byte, field.reads), field)
  BY DEF OdysseeMode, ModeOf, Decoded, ValueOf

\* In ODYSSEE mode and type depend on one byte alone.
LEMMA KeptModeAndType ==
    ASSUME NEW p, NEW q, KeepsModeByte(p, q)
    PROVE  /\ Get("ODYSSEE", "OPERATION_MODE", p) = Get("ODYSSEE", "OPERATION_MODE", q)
           /\ Get("ODYSSEE", "OPERATION_TYPE", p) = Get("ODYSSEE", "OPERATION_TYPE", q)
  <1>1. OdysseeMode(p) = OdysseeMode(q)
    BY GettersOfBits DEF KeepsModeByte
  <1>2. Masked(p, 2, \hF0) = Masked(q, 2, \hF0)
    BY BitsOfMasks DEF KeepsModeByte, Masked, Bit
  <1>3. OdysseeFields.OPERATION_TYPE.byte = 2 /\ OdysseeFields.OPERATION_TYPE.reads = \hF0
    BY DEF OdysseeFields, Field
  <1>4. Decoded(p, OdysseeFields.OPERATION_TYPE) = Decoded(q, OdysseeFields.OPERATION_TYPE)
    BY <1>2, <1>3, GettersOfBits
  <1>5. QED
    BY <1>1, <1>4 DEF Get, Fields

\* The setters of all other attributes leave this byte alone.
LEMMA KeptByOtherTopics ==
    ASSUME version = "ODYSSEE", NEW p, NEW q,
           NEW other \in Topics \ {"operationMode", "operationType"},
           Same(p, q, BitsOfTopic(other))
    PROVE  KeepsModeByte(p, q)
  BY ModeByteApart, MaskedSame DEF KeepsModeByte

\* Every code of mode and type fits the byte.
LEMMA CodeInByte ==
    ASSUME NEW type \in Types, NEW mode \in Modes
    PROVE  BitsOf[ModeAndType[type][mode]] \subseteq BitsOf[\hFF]
  <1>1. ModeAndType[type][mode] \in Octet
    BY ModeAndTypeTable DEF Octet
  <1>2. QED
    BY <1>1, OctetFits

\* What is read as before is shown as before.
LEMMA ShownSame ==
    ASSUME NEW topic \in {"operationMode", "operationType"}, NEW p, NEW q,
           Get(version, Attribute[topic], p) = Get(version, Attribute[topic], q)
    PROVE  Shown(topic, p) = Shown(topic, q)
  BY DEF Shown

\* The steps of Standard around the two that may write the byte of ODYSSEE.
LEMMA OdysseeSteps ==
    ASSUME version = "ODYSSEE", override \in Overridden, time \in Clock \cup {None},
           hmiFlags.heatPump = FALSE, hmiFlags.heatElement = FALSE, NEW p
    PROVE  /\ KeepsModeByte(p, AfterAirduct(p))
           /\ override.operationMode = None => AfterMode(p) = AfterAirduct(p)
           /\ override.operationMode # None =>
                 KeepsModeByte(SetMode(version, override.operationMode, AfterAirduct(p)),
                               AfterMode(p))
           /\ KeepsModeByte(AfterType(p), ApplyHMIOverrides(p))
  <1>0. /\ version \in AllVersions
        /\ {"configInstallation", "configFanExhaust", "configAirduct", "heatingElementEnabled",
            "emergencyModeEnabled", "waterTempTarget"} \subseteq
               Topics \ {"operationMode", "operationType"}
    BY DEF AllVersions, Topics
  <1>1. \A q, r : Same(q, r, {}) => KeepsModeByte(q, r)
    BY DEF Same, KeepsModeByte
  <1>2. \A q : \A value \in Temperatures : KeepsModeByte(q, SetTemperature(version, value, q))
    BY <1>0, SetTemperatureWithin, BitsOfTopics, KeptByOtherTopics
  <1>3. KeepsModeByte(p, AfterTemperature(p))
    <2>1. CASE AfterTemperature(p) = p
      BY <2>1 DEF KeepsModeByte
    <2>2. CASE AfterTemperature(p) # p
      BY <2>2, <1>2 DEF AfterTemperature, OverrideTemperature, Temperatures
    <2>3. QED
      BY <2>1, <2>2
  <1>4. KeepsModeByte(AfterTemperature(p), AfterInstallation(p))
    <2>1. \A q, value : Same(q, SetInstallation(value, q), BitsOfTopic("configInstallation"))
      BY <1>0, SetFieldWithin, BitsOfTopics DEF SetInstallation
    <2>2. QED
      BY <2>1, <1>0, KeptByOtherTopics DEF AfterInstallation, KeepsModeByte
  <1>5. KeepsModeByte(AfterInstallation(p), AfterFan(p))
    <2>1. \A q, value : Same(q, SetField(version, "CONFIG_FAN_EXHAUST", value, q),
                             BitsOfTopic("configFanExhaust"))
      BY <1>0, SetFieldWithin, BitsOfTopics
    <2>2. QED
      BY <2>1, <1>0, KeptByOtherTopics DEF AfterFan, KeepsModeByte
  <1>6. KeepsModeByte(AfterFan(p), AfterAirduct(p))
    <2>1. \A q, value : Same(q, SetField(version, "CONFIG_AIRDUCT", value, q),
                             BitsOfTopic("configAirduct"))
      BY <1>0, SetFieldWithin, BitsOfTopics
    <2>2. QED
      BY <2>1, <1>0, KeptByOtherTopics DEF AfterAirduct, KeepsModeByte
  <1>7. KeepsModeByte(p, AfterAirduct(p))
    BY <1>3, <1>4, <1>5, <1>6 DEF KeepsModeByte
  <1>8. override.operationMode = None => AfterMode(p) = AfterAirduct(p)
    BY NoneIsNoMode DEF AfterMode, OverrideMode, Modes
  <1>9. ASSUME override.operationMode # None
        PROVE  KeepsModeByte(SetMode(version, override.operationMode, AfterAirduct(p)),
                             AfterMode(p))
    <2> DEFINE mode == override.operationMode
               r    == SetMode(version, mode, AfterAirduct(p))
    <2>1. MAX_WATER_TEMPERATURE \in Temperatures /\ ABSENCE_WATER_TEMPERATURE \in Temperatures
      BY DEF Temperatures, MAX_WATER_TEMPERATURE, ABSENCE_WATER_TEMPERATURE
    <2>2. CASE mode = "BOOST"
      <3>1. AfterMode(p) = SetTemperature(version, MAX_WATER_TEMPERATURE, r)
        BY <1>9, <2>2 DEF AfterMode, OverrideMode
      <3>2. QED
        BY <3>1, <2>1, <1>2
    <2>3. CASE mode = "ABSENCE"
      <3>1. AfterMode(p) = SetTemperature(version, ABSENCE_WATER_TEMPERATURE, r)
        BY <1>9, <2>3 DEF AfterMode, OverrideMode
      <3>2. QED
        BY <3>1, <2>1, <1>2
    <2>4. CASE mode \notin {"BOOST", "ABSENCE"}
      BY <1>9, <2>4 DEF AfterMode, OverrideMode, KeepsModeByte
    <2>5. QED
      BY <2>2, <2>3, <2>4
  <1>10. KeepsModeByte(AfterType(p), AfterElement(p))
    <2>1. \A q, value : Same(q, SetElement(version, value, q), BitsOfTopic("heatingElementEnabled"))
      BY <1>0, SetElementWithin, BitsOfTopics
    <2>2. QED
      BY <2>1, <1>0, KeptByOtherTopics DEF AfterElement, KeepsModeByte
  <1>11. KeepsModeByte(AfterElement(p), AfterEmergency(p))
    <2>1. \A q, value : Same(q, SetEmergency(version, value, q), BitsOfTopic("emergencyModeEnabled"))
      BY <1>0, SetEmergencyWithin, BitsOfTopics
    <2>2. QED
      BY <2>1, <1>0, KeptByOtherTopics DEF AfterEmergency, KeepsModeByte
  <1>12. KeepsModeByte(Standard(p), ApplyHMIOverrides(p))
    <2>1. CASE time = None
      BY <2>1 DEF ApplyHMIOverrides, KeepsModeByte
    <2>2. CASE time # None
      <3>1. ApplyHMIOverrides(p) = SetTime(version, time, Standard(p))
        BY <2>2 DEF ApplyHMIOverrides
      <3>2. Same(Standard(p), ApplyHMIOverrides(p), BitsOfTime)
        BY <1>0, <2>2, <3>1, SetTimeWithin, BitsOfTimes
      <3>3. QED
        BY <3>2, ModeByteApart, MaskedSame DEF KeepsModeByte
    <2>3. QED
      BY <2>1, <2>2
  <1>13. KeepsModeByte(AfterType(p), ApplyHMIOverrides(p))
    BY <1>10, <1>11, <1>12, StandardSteps DEF KeepsModeByte
  <1>14. QED
    BY <1>7, <1>8, <1>9, <1>13

\* Mode and type, each keeps its value if only the other one is overridden.
LEMMA ApplyKeeps ==
    ASSUME version \in AllVersions, override \in Overridden, hmiFlags \in PVFlags,
           time \in Clock \cup {None}, NEW p,
           NEW topic \in {"operationMode", "operationType"} \ OverriddenTopics
    PROVE  ByteUnknown(p) \/ Shown(topic, ApplyHMIOverrides(p)) = Shown(topic, p)
  <1> DEFINE q == ApplyHMIOverrides(p)
  <1>1. hmiFlags.heatPump = FALSE /\ hmiFlags.heatElement = FALSE
    BY DEF PVFlags, OverriddenTopics, GetOverrides
  <1>2. OverriddenTopics \subseteq Topics /\ InForce \subseteq OverriddenTopics
    BY <1>1 DEF OverriddenTopics, GetOverrides, InForce, Topics
  <1>3. override[topic] = None
    BY <1>2 DEF InForce, Topics
  <1>4. CASE version # "ODYSSEE"
    <2> DEFINE field == Fields(version)[Attribute[topic]]
    <2>1. Same(p, q, OverriddenBits)
      BY ApplyWithin
    <2>2. Mask(field.byte, field.reads) = BitsOfTopic(topic)
      <3>1. Attribute[topic] \in DOMAIN Fields(version)
        BY <1>4 DEF AllVersions, Attribute, Fields, LegacyFields, NextFields
      <3>2. BitsOfTopic(topic) = ReadsOf(version, Attribute[topic])
        BY <1>4, BitsOfTopics DEF TypeBits, Attribute
      <3>3. QED
        BY <1>4, <3>1, <3>2, FieldsContained
    <2>3. Mask(field.byte, field.reads) \cap OverriddenBits = {}
      BY <1>2, <1>4, <2>2, ModeBitsApart DEF OverriddenBits
    <2>4. Masked(p, field.byte, field.reads) = Masked(q, field.byte, field.reads)
      BY <2>1, <2>3, MaskedSame
    <2>5. Decoded(p, field) = Decoded(q, field)
      BY <2>4, GettersOfBits
    <2>6. Get(version, Attribute[topic], p) = Get(version, Attribute[topic], q)
      BY <1>4, <2>5 DEF Get, Attribute
    <2>7. QED
      BY <2>6, ShownSame
  <1>5. CASE version = "ODYSSEE"
    <2> DEFINE mode == Get("ODYSSEE", "OPERATION_MODE", p)
               type == Get("ODYSSEE", "OPERATION_TYPE", p)
    <2> SUFFICES ASSUME ~ByteUnknown(p)
                 PROVE  Get("ODYSSEE", Attribute[topic], q) = Get("ODYSSEE", Attribute[topic], p)
      BY <1>5, ShownSame
    <2>1. mode \in Modes /\ type \in Types
      BY <1>5, ModeTyped, TypeTyped DEF ByteUnknown, AllVersions
    <2>2. /\ Get("ODYSSEE", "OPERATION_MODE", AfterAirduct(p)) = mode
          /\ Get("ODYSSEE", "OPERATION_TYPE", AfterAirduct(p)) = type
      BY <1>1, <1>5, OdysseeSteps, KeptModeAndType
    <2>3. /\ Get("ODYSSEE", "OPERATION_MODE", q) = Get("ODYSSEE", "OPERATION_MODE", AfterType(p))
          /\ Get("ODYSSEE", "OPERATION_TYPE", q) = Get("ODYSSEE", "OPERATION_TYPE", AfterType(p))
      BY <1>1, <1>5, OdysseeSteps, KeptModeAndType
    <2>4. CASE topic = "operationMode"
      <3>1. AfterMode(p) = AfterAirduct(p)
        BY <1>1, <1>3, <1>5, <2>4, OdysseeSteps
      <3>2. CASE override.operationType = None
        BY <3>1, <3>2, <2>2, <2>3, <2>4 DEF AfterType, Attribute
      <3>3. CASE override.operationType # None
        <4> DEFINE other == override.operationType
        <4>1. other \in Types
          BY <3>3 DEF Overridden
        <4>2. AfterType(p) = Write(AfterMode(p), 2, \hFF, ModeAndType[other][mode])
          BY <1>5, <2>1, <2>2, <3>1, <3>3, <4>1
             DEF AfterType, SetType, ValueByModeAndType, Types, Modes
        <4>3. Masked(AfterType(p), 2, \hFF) = BitsOf[ModeAndType[other][mode]]
          BY <2>1, <4>1, <4>2, CodeInByte, MaskedWritten
        <4>4. Get("ODYSSEE", "OPERATION_MODE", AfterType(p)) = mode
          BY <2>1, <4>1, <4>3, OdysseeReadsBack
        <4>5. QED
          BY <2>3, <2>4, <4>4 DEF Attribute
      <3>4. QED
        BY <3>2, <3>3
    <2>5. CASE topic = "operationType"
      <3>1. AfterType(p) = AfterMode(p)
        BY <1>3, <2>5 DEF AfterType
      <3>2. CASE override.operationMode = None
        BY <1>1, <1>5, <3>1, <3>2, <2>2, <2>3, <2>5, OdysseeSteps DEF Attribute
      <3>3. CASE override.operationMode # None
        <4> DEFINE other == override.operationMode
                   r     == SetMode(version, other, AfterAirduct(p))
        <4>1. other \in Modes
          BY <3>3 DEF Overridden
        <4>2. r = Write(AfterAirduct(p), 2, \hFF, ModeAndType[type][other])
          BY <1>5, <2>1, <2>2, <4>1 DEF SetMode, ValueByModeAndType, Types, Modes
        <4>3. Masked(r, 2, \hFF) = BitsOf[ModeAndType[type][other]]
          BY <2>1, <4>1, <4>2, CodeInByte, MaskedWritten
        <4>4. Get("ODYSSEE", "OPERATION_TYPE", r) = type
          BY <2>1, <4>1, <4>3, OdysseeReadsBack
        <4>5. KeepsModeByte(r, AfterMode(p))
          BY <1>1, <1>5, <3>3, OdysseeSteps
        <4>6. Get("ODYSSEE", "OPERATION_TYPE", AfterMode(p)) = type
          BY <4>4, <4>5, KeptModeAndType
        <4>7. QED
          BY <2>3, <2>5, <3>1, <4>6 DEF Attribute
      <3>4. QED
        BY <3>2, <3>3
    <2>6. QED
      BY <2>4, <2>5
  <1>6. QED
    BY <1>4, <1>5

-----------------------------------------------------------------------------
(* The time is read back                                                   *)

\* A number fits a mask: it has no bit the mask has not.
Fits(n, m) == n \in Octet /\ BitsOf[n] \subseteq BitsOf[m]

\* The number of the bits of a number is this number: no other has them.
LEMMA NumberOfBits ==
    ASSUME NEW n \in Octet
    PROVE  NumberOf[BitsOf[n]] = n
  <1>1. BitsOf[n] \in SUBSET Bit
    BY BitsOfNumber DEF Octet
  <1>2. NumberOf[BitsOf[n]] = CHOOSE m \in 0 .. 255 : BitsOf[m] = BitsOf[n]
    BY <1>1 DEF NumberOf
  <1>3. \E m \in 0 .. 255 : BitsOf[m] = BitsOf[n]
    BY DEF Octet
  <1>4. NumberOf[BitsOf[n]] \in 0 .. 255 /\ BitsOf[NumberOf[BitsOf[n]]] = BitsOf[n]
    BY <1>2, <1>3
  <1>5. QED
    BY <1>4, SameBits DEF Octet

\* What is written to a mask is read from it.
LEMMA ReadsWritten ==
    ASSUME NEW p, NEW i, NEW m, NEW n, Fits(n, m)
    PROVE  Number(Write(p, i, m, n), i, m) = n
  BY MaskedWritten, NumberOfBits DEF Number, Fits

\* Whoever reads other bits does not see what is written.
LEMMA ReadsOther ==
    ASSUME NEW p, NEW i, NEW m, NEW n, Fits(n, m), NEW j, NEW k,
           i # j \/ BitsOf[m] \cap BitsOf[k] = {}
    PROVE  Number(Write(p, i, m, n), j, k) = Number(p, j, k)
  <1>1. Masked(Write(p, i, m, n), j, k) = Masked(p, j, k)
    BY DEF Masked, Write, Mask, Fits
  <1>2. QED
    BY <1>1 DEF Number

\* A mask of one bit.
LEMMA ReadsLowestBit ==
    ASSUME NEW p, NEW i, NEW n \in Octet
    PROVE  Number(Write(p, i, \hFF, n), i, \h01) = n % 2
  <1>1. Masked(Write(p, i, \hFF, n), i, \h01) = BitsOf[n] \cap {0}
    <2>1. Masked(Write(p, i, \hFF, n), i, \hFF) = BitsOf[n]
      BY MaskedWritten, OctetFits
    <2>2. QED
      BY <2>1, BitsOfMasks DEF Masked, Bit
  <1>2. n % 2 \in {0, 1} /\ n \div 1 = n
    BY DEF Octet
  <1>3. 0 \in BitsOf[n] <=> n % 2 = 1
    <2>1. 0 \in BitsOf[n] <=> Digit(n, 1) = 1
      BY BitsOfNumber DEF Octet
    <2>2. QED
      BY <1>2, <2>1 DEF Digit
  <1>4. BitsOf[n] \cap {0} = BitsOf[n % 2]
    <2>1. BitsOf[0] = {} /\ BitsOf[1] = {0}
      BY BitsOfMasks
    <2>2. QED
      BY <1>2, <1>3, <2>1
  <1>5. NumberOf[BitsOf[n % 2]] = n % 2
    BY <1>2, NumberOfBits DEF Octet
  <1>6. QED
    BY <1>1, <1>4, <1>5 DEF Number

\* Month and year are read back: the lowest bit of the year says which half of the
\* months is meant, July and August included, and the day is not touched.
LEMMA DateReadBack ==
    ASSUME NEW v \in AllVersions, NEW month \in 1 .. 12, NEW year \in Years, NEW p
    PROVE  LET n == Numbers(v)
               r == SetDateMonthAndYear(v, month, year, p)
               m == Number(r, n.day, \hE0) \div 32 + 8 * Number(r, n.year, \h01)
           IN /\ month = (IF v = "LEGACY" THEN m ELSE 1 + m)
              /\ year = 2000 + Number(r, n.year, \hFF) \div 2
              /\ Number(r, n.day, \h1F) = Number(p, n.day, \h1F)
              /\ \A i : i \notin {n.day, n.year} => Number(r, i, \hFF) = Number(p, i, \hFF)
  <1> DEFINE past   == IF month > (IF v = "LEGACY" THEN 7 ELSE 8) THEN 1 ELSE 0
             within == IF v = "LEGACY" THEN month - 8 * past ELSE month - 1 - 8 * past
             low    == ((year - 2000) * 2 + past) % 256
             high   == (within % 8) * 32
             day    == Numbers(v).day
             years  == Numbers(v).year
             q      == Write(p, years, \hFF, low)
             r      == Write(q, day, \hE0, high)
  <1>1. SetDateMonthAndYear(v, month, year, p) = r
    BY DEF SetDateMonthAndYear
  <1>2. past \in {0, 1} /\ within \in 0 .. 7
    OBVIOUS
  <1>3. month = IF v = "LEGACY" THEN within + 8 * past ELSE 1 + within + 8 * past
    OBVIOUS
  <1>4. day # years
    BY DEF Numbers
  <1> HIDE DEF past, within, day, years
  <1>5. low = (year - 2000) * 2 + past
    BY <1>2 DEF Years
  <1>6. low \in 0 .. 255 /\ low % 2 = past /\ low \div 2 = year - 2000
    BY <1>2, <1>5 DEF Years
  <1>7. high = within * 32
    BY <1>2
  <1>8. high \in 0 .. 255 /\ high \div 32 = within
    BY <1>2, <1>7
  <1>9. Fits(low, \hFF)
    BY <1>6, OctetFits DEF Fits, Octet
  <1>10. Fits(high, \hE0)
    <2>1. BitsOf[high] \subseteq BitsOf[\hE0]
      BY <1>2, <1>7, BitsOfDate
    <2>2. QED
      BY <1>8, <2>1 DEF Fits, Octet
  <1>11. low \in Octet
    BY <1>6 DEF Octet
  <1> HIDE DEF low, high, q, r
  <1>12. Number(r, day, \hE0) = high
    BY <1>10, ReadsWritten DEF r
  <1>13. Number(r, years, \h01) = low % 2 /\ Number(r, years, \hFF) = low
    <2>1. Number(r, years, \h01) = Number(q, years, \h01)
      BY <1>4, <1>10, ReadsOther DEF r
    <2>2. Number(r, years, \hFF) = Number(q, years, \hFF)
      BY <1>4, <1>10, ReadsOther DEF r
    <2>3. Number(q, years, \h01) = low % 2
      BY <1>11, ReadsLowestBit DEF q
    <2>4. Number(q, years, \hFF) = low
      BY <1>9, ReadsWritten DEF q
    <2>5. QED
      BY <2>1, <2>2, <2>3, <2>4
  <1>14. Number(r, day, \h1F) = Number(p, day, \h1F)
    <2>1. BitsOf[\hE0] \cap BitsOf[\h1F] = {}
      BY BitsOfMasks
    <2>2. Number(r, day, \h1F) = Number(q, day, \h1F)
      BY <1>10, <2>1, ReadsOther DEF r
    <2>3. Number(q, day, \h1F) = Number(p, day, \h1F)
      BY <1>4, <1>9, ReadsOther DEF q
    <2>4. QED
      BY <2>2, <2>3
  <1>15. ASSUME NEW i, i \notin {day, years}
         PROVE  Number(r, i, \hFF) = Number(p, i, \hFF)
    <2>1. Number(r, i, \hFF) = Number(q, i, \hFF)
      BY <1>10, <1>15, ReadsOther DEF r
    <2>2. Number(q, i, \hFF) = Number(p, i, \hFF)
      BY <1>9, <1>15, ReadsOther DEF q
    <2>3. QED
      BY <2>1, <2>2
  <1>16. month = LET m == Number(r, day, \hE0) \div 32 + 8 * Number(r, years, \h01)
                 IN IF v = "LEGACY" THEN m ELSE 1 + m
    BY <1>2, <1>3, <1>6, <1>8, <1>12, <1>13
  <1>17. year = 2000 + Number(r, years, \hFF) \div 2
    <2>1. year \in Int
      BY DEF Years
    <2>2. QED
      BY <1>6, <1>13, <2>1
  <1>18. QED
    BY <1>1, <1>14, <1>15, <1>16, <1>17 DEF day, years

\* Every time, set in any frame, is what the getters then answer.
LEMMA TimeReadBack ==
    ASSUME NEW v \in AllVersions, NEW t \in Clock, NEW p
    PROVE  GetTime(v, SetTime(v, t, p)) =
               [t EXCEPT !.seconds = IF v = "ODYSSEE" THEN 0 ELSE t.seconds]
  <1> DEFINE n       == Numbers(v)
             hours   == Write(p, n.hours, \hFF, t.hours)
             minutes == Write(hours, n.minutes, \hFF, t.minutes)
             seconds == IF v = "ODYSSEE" THEN minutes
                        ELSE Write(minutes, n.seconds, \hFF, t.seconds)
             day     == Write(seconds, n.day, \h1F, t.day)
             last    == SetDateMonthAndYear(v, t.month, t.year, day)
             month   == Number(last, n.day, \hE0) \div 32 + 8 * Number(last, n.year, \h01)
  <1>1. SetTime(v, t, p) = last
    BY DEF SetTime
  <1>2. t.hours \in Octet /\ t.minutes \in Octet /\ t.seconds \in Octet /\ t.day \in Octet
    BY DEF Clock, Octet
  <1>3. Fits(t.hours, \hFF) /\ Fits(t.minutes, \hFF) /\ Fits(t.seconds, \hFF)
    BY <1>2, OctetFits DEF Fits
  <1>4. Fits(t.day, \h1F)
    <2>1. t.day \in 0 .. 31
      BY DEF Clock
    <2>2. QED
      BY <1>2, <2>1, BitsOfDate DEF Fits
  <1>5. t.month \in 1 .. 12 /\ t.year \in Years
    BY DEF Clock
  <1>6. /\ n.hours # n.minutes /\ n.hours \notin {n.day, n.year} /\ n.minutes \notin {n.day, n.year}
        /\ n.seconds \notin {n.day, n.year, n.minutes, n.hours}
    BY DEF Numbers
  <1> HIDE DEF n
  <1>7. Number(last, n.minutes, \hFF) = t.minutes
    <2>1. Number(minutes, n.minutes, \hFF) = t.minutes
      BY <1>3, ReadsWritten
    <2> HIDE DEF minutes
    <2>2. Number(seconds, n.minutes, \hFF) = Number(minutes, n.minutes, \hFF)
      BY <1>3, <1>6, ReadsOther
    <2> HIDE DEF seconds
    <2>3. Number(day, n.minutes, \hFF) = Number(seconds, n.minutes, \hFF)
      BY <1>4, <1>6, ReadsOther
    <2> HIDE DEF day
    <2>4. Number(last, n.minutes, \hFF) = Number(day, n.minutes, \hFF)
      BY <1>5, <1>6, DateReadBack DEF n
    <2>5. QED
      BY <2>1, <2>2, <2>3, <2>4
  <1>8. Number(last, n.hours, \hFF) = t.hours
    <2>1. Number(hours, n.hours, \hFF) = t.hours
      BY <1>3, ReadsWritten
    <2> HIDE DEF hours
    <2>2. Number(minutes, n.hours, \hFF) = Number(hours, n.hours, \hFF)
      BY <1>3, <1>6, ReadsOther
    <2> HIDE DEF minutes
    <2>3. Number(seconds, n.hours, \hFF) = Number(minutes, n.hours, \hFF)
      BY <1>3, <1>6, ReadsOther
    <2> HIDE DEF seconds
    <2>4. Number(day, n.hours, \hFF) = Number(seconds, n.hours, \hFF)
      BY <1>4, <1>6, ReadsOther
    <2> HIDE DEF day
    <2>5. Number(last, n.hours, \hFF) = Number(day, n.hours, \hFF)
      BY <1>5, <1>6, DateReadBack DEF n
    <2>6. QED
      BY <2>1, <2>2, <2>3, <2>4, <2>5
  <1>9. v # "ODYSSEE" => Number(last, n.seconds, \hFF) = t.seconds
    <2> SUFFICES ASSUME v # "ODYSSEE"
                 PROVE  Number(last, n.seconds, \hFF) = t.seconds
      OBVIOUS
    <2> HIDE DEF minutes
    <2>1. Number(seconds, n.seconds, \hFF) = t.seconds
      BY <1>3, ReadsWritten
    <2> HIDE DEF seconds
    <2>2. Number(day, n.seconds, \hFF) = Number(seconds, n.seconds, \hFF)
      BY <1>4, <1>6, ReadsOther
    <2> HIDE DEF day
    <2>3. Number(last, n.seconds, \hFF) = Number(day, n.seconds, \hFF)
      BY <1>5, <1>6, DateReadBack DEF n
    <2>4. QED
      BY <2>1, <2>2, <2>3
  <1>10. Number(last, n.day, \h1F) = t.day
    <2> HIDE DEF seconds
    <2>1. Number(day, n.day, \h1F) = t.day
      BY <1>4, ReadsWritten
    <2> HIDE DEF day
    <2>2. Number(last, n.day, \h1F) = Number(day, n.day, \h1F)
      BY <1>5, DateReadBack DEF n
    <2>3. QED
      BY <2>1, <2>2
  <1> HIDE DEF day
  <1>11. /\ t.month = (IF v = "LEGACY" THEN month ELSE 1 + month)
         /\ t.year = 2000 + Number(last, n.year, \hFF) \div 2
    BY <1>5, DateReadBack DEF n
  <1> HIDE DEF last
  <1>12. GetTime(v, last) =
             [minutes |-> Number(last, n.minutes, \hFF),
              hours   |-> Number(last, n.hours, \hFF),
              day     |-> Number(last, n.day, \h1F),
              month   |-> IF v = "LEGACY" THEN month ELSE 1 + month,
              year    |-> 2000 + Number(last, n.year, \hFF) \div 2,
              seconds |-> IF v = "ODYSSEE" THEN 0 ELSE Number(last, n.seconds, \hFF)]
    BY DEF GetTime, n
  <1>13. GetTime(v, last) =
             [minutes |-> t.minutes, hours |-> t.hours, day |-> t.day, month |-> t.month,
              year |-> t.year, seconds |-> IF v = "ODYSSEE" THEN 0 ELSE t.seconds]
    BY <1>7, <1>8, <1>9, <1>10, <1>11, <1>12
  <1>14. [minutes |-> t.minutes, hours |-> t.hours, day |-> t.day, month |-> t.month,
          year |-> t.year, seconds |-> IF v = "ODYSSEE" THEN 0 ELSE t.seconds]
         = [t EXCEPT !.seconds = IF v = "ODYSSEE" THEN 0 ELSE t.seconds]
    BY DEF Clock
  <1>15. QED
    BY <1>1, <1>13, <1>14

-----------------------------------------------------------------------------
(* The proxy's state                                                       *)

\* Whatever messages arrive, an override is none or a value of its attribute's
\* type, and the time, once set, is one of a clock.
Inv ==
    /\ version \in Versions
    /\ override \in Overridden
    /\ hmiFlags \in PVFlags
    /\ time \in Clock \cup {None}

\* messageReceived makes a value of the attribute of every option.
LEMMA SelectedTyped ==
    ASSUME NEW topic \in DOMAIN Attribute, NEW option, override \in Overridden
    PROVE  [override EXCEPT ![topic] = Selected(topic, option)] \in Overridden
  <1>1. CASE topic \in Flags
    <2>1. Selected(topic, option) \in BOOLEAN \cup {None}
      BY <1>1 DEF Selected
    <2>2. QED
      BY <1>1, <2>1 DEF Overridden, Flags
  <1>2. CASE topic \notin Flags
    <2> DEFINE meant == { v \in DOMAIN Strings[topic] : Strings[topic][v] = option }
    <2>1. Selected(topic, option) = IF meant = {} THEN None ELSE CHOOSE v \in meant : TRUE
      BY <1>2 DEF Selected
    <2>2. Selected(topic, option) \in DOMAIN Strings[topic] \cup {None}
      <3>1. CASE meant = {}
        BY <2>1, <3>1
      <3>2. CASE meant # {}
        BY <2>1, <3>2
      <3>3. QED
        BY <3>1, <3>2
    <2> HIDE DEF meant
    <2> DEFINE value == Selected(topic, option)
    <2>3. topic \in {"configInstallation", "operationMode", "operationType",
                     "configFanExhaust", "configAirduct"}
      BY <1>2 DEF Attribute, Flags
    <2>4. CASE topic = "configInstallation"
      <3>1. value \in Installations \cup {None}
        BY <2>2, <2>4 DEF Strings, Installations
      <3>2. QED
        BY <2>4, <3>1 DEF Overridden
    <2>5. CASE topic = "operationMode"
      <3>1. value \in Modes \cup {None}
        BY <2>2, <2>5 DEF Strings, Modes
      <3>2. QED
        BY <2>5, <3>1 DEF Overridden
    <2>6. CASE topic = "operationType"
      <3>1. value \in Types \cup {None}
        BY <2>2, <2>6 DEF Strings, Types
      <3>2. QED
        BY <2>6, <3>1 DEF Overridden
    <2>7. CASE topic = "configFanExhaust"
      <3>1. value \in {"STOP", "LOW_SPEED", "HIGH_SPEED", None}
        BY <2>2, <2>7 DEF Strings
      <3>2. QED
        BY <2>7, <3>1 DEF Overridden
    <2>8. CASE topic = "configAirduct"
      <3>1. value \in {"INT_INT", "INT_EXT", "EXT_EXT", None}
        BY <2>2, <2>8 DEF Strings
      <3>2. QED
        BY <2>8, <3>1 DEF Overridden
    <2>9. QED
      BY <2>3, <2>4, <2>5, <2>6, <2>7, <2>8
  <1>3. QED
    BY <1>1, <1>2

\* The version is one of the three the code knows.
LEMMA KnownVersion == Inv => version \in AllVersions
  BY OverrideBytesAssumption DEF Inv, AllVersions

\* Nothing is overridden at first.
LEMMA InvInit == Init => Inv
  BY OverrideBytesAssumption DEF Init, Inv, Topics, Overridden, PVFlags

\* Whatever message, frame or time comes next, all values stay of their types.
LEMMA InvNext == Inv /\ [Next]_vars => Inv'
  <1> SUFFICES ASSUME Inv, [Next]_vars
               PROVE  Inv'
    OBVIOUS
  <1>1. ASSUME NEW topic \in DOMAIN Attribute, OnOption(topic)
        PROVE  Inv'
    BY <1>1, SelectedTyped DEF OnOption, Inv
  <1>2. CASE OnWaterTempTarget
    BY <1>2 DEF OnWaterTempTarget, Inv, Overridden
  <1>3. CASE OnResetOverrides
    <2>1. [topic \in Topics |-> None] \in Overridden
      BY DEF Topics, Overridden
    <2>2. QED
      BY <1>3, <2>1 DEF OnResetOverrides, Inv
  <1>4. ASSUME NEW flag \in {"heatPump", "heatElement"}, NEW enabled \in BOOLEAN,
               OnPVModeEnabled(flag, enabled)
        PROVE  Inv'
    BY <1>4 DEF OnPVModeEnabled, Inv, PVFlags
  <1>5. CASE MainOnPVModeEnabled
    BY <1>5 DEF MainOnPVModeEnabled, Inv
  <1>6. CASE UpdateTime
    BY <1>6, OverrideBytesAssumption DEF UpdateTime, Inv
  <1>7. ASSUME NEW frame, SendHmiFrame(frame)
        PROVE  Inv'
    BY <1>7 DEF SendHmiFrame, Inv
  <1>8. CASE UNCHANGED vars
    BY <1>8 DEF vars, Inv
  <1>9. QED
    BY <1>1, <1>2, <1>3, <1>4, <1>5, <1>6, <1>7, <1>8 DEF Next

\* Whatever a frame of the HMI holds, in every version of the protocol, with any
\* overrides, PV flags and time: the controller gets all of its bits but those
\* of what getOverrides says is overridden, and of the mode and the type, which
\* ODYSSEE keeps in one byte, each keeps its value without an override of its own.
THEOREM OnlyOverriddenAreWritten == Spec => OnlyOverriddenChanges
  <1> DEFINE Kept(frame) ==
                /\ frame \ OverriddenBits = sent' \ OverriddenBits
                /\ \A topic \in {"operationMode", "operationType"} \ OverriddenTopics :
                      ByteUnknown(frame) \/ Shown(topic, sent') = Shown(topic, frame)
  <1>1. Inv => \A frame \in Frames[version] : SendHmiFrame(frame) => Kept(frame)
    <2> SUFFICES ASSUME Inv, NEW frame \in Frames[version], SendHmiFrame(frame)
                 PROVE  Kept(frame)
      OBVIOUS
    <2>1. sent' = ApplyHMIOverrides(frame)
      BY DEF SendHmiFrame
    <2>2. Same(frame, sent', OverriddenBits)
      BY <2>1, KnownVersion, ApplyWithin DEF Inv
    <2>3. ASSUME NEW topic \in {"operationMode", "operationType"} \ OverriddenTopics
          PROVE  ByteUnknown(frame) \/ Shown(topic, sent') = Shown(topic, frame)
      BY <2>1, <2>3, KnownVersion, ApplyKeeps DEF Inv
    <2>4. QED
      BY <2>2, <2>3 DEF Same
  <1>2. QED
    BY <1>1, InvInit, InvNext, PTL DEF Spec, OnlyOverriddenChanges

\* The time AquaMQTT sets, in every month of 2000 to 2127 and in any frame, is
\* the time the controller reads, whatever else is overridden.
THEOREM TimeIsTold == Spec => TimeIsShown
  <1>1. Inv => \A frame \in Frames[version] : time # None /\ SendHmiFrame(frame) =>
            GetTime(version, sent') =
                [time EXCEPT !.seconds = IF version = "ODYSSEE" THEN 0 ELSE time.seconds]
    <2> SUFFICES ASSUME Inv, time # None, NEW frame, SendHmiFrame(frame)
                 PROVE  GetTime(version, sent') =
                    [time EXCEPT !.seconds = IF version = "ODYSSEE" THEN 0 ELSE time.seconds]
      OBVIOUS
    <2>1. time \in Clock /\ version \in AllVersions
      BY KnownVersion DEF Inv
    <2>2. PICK p : sent' = SetTime(version, time, p)
      BY DEF SendHmiFrame, ApplyHMIOverrides
    <2>3. QED
      BY <2>1, <2>2, TimeReadBack
  <1>2. QED
    BY <1>1, InvInit, InvNext, PTL DEF Spec, TimeIsShown

-----------------------------------------------------------------------------
(* What Decode sees of a setter                                            *)

\* The attribute a byte of frame 194 belongs to; mode and type are one, and so
\* are time and date.
Owner(v, i) ==
    IF v = "LEGACY"
    THEN CASE i \in {1, 2}   -> "WATER_TARGET_TEMPERATURE"
           [] i = 3          -> "OPERATION_MODE"
           [] i = 5          -> "CONFIG_AIRDUCT"
           [] i = 6          -> "EMERGENCY_MODE_ENABLED"
           [] i = 7          -> "STATE_INSTALLATION_MODE"
           [] i = 8          -> "CONFIG_FAN_EXHAUST"
           [] i = 9          -> "HEATING_ELEMENT_ALLOWED"
           [] OTHER          -> "TIME"
    ELSE CASE i = 1          -> "WATER_TARGET_TEMPERATURE"
           [] i = 2          -> "OPERATION_MODE"
           [] i = 4          -> "CONFIG_AIRDUCT"
           [] i = 5          -> "EMERGENCY_MODE_ENABLED"
           [] i = 6          -> "STATE_INSTALLATION_MODE"
           [] i = 7          -> "CONFIG_FAN_EXHAUST"
           [] i = 8          -> "HEATING_ELEMENT_ALLOWED"
           [] OTHER          -> "TIME"

\* Bits of one attribute.
Of(v, attr, bits) == \A bit \in bits : Owner(v, bit[1]) = attr

\* What is read of an attribute belongs to it.
LEMMA ReadsOwned ==
    ASSUME NEW v \in AllVersions
    PROVE  /\ Of(v, "WATER_TARGET_TEMPERATURE", ReadsOf(v, "WATER_TARGET_TEMPERATURE"))
           /\ Of(v, "OPERATION_MODE", ReadsOf(v, "OPERATION_MODE"))
           /\ Of(v, "OPERATION_MODE", ReadsOf(v, "OPERATION_TYPE"))
           /\ Of(v, "CONFIG_AIRDUCT", ReadsOf(v, "CONFIG_AIRDUCT"))
           /\ Of(v, "EMERGENCY_MODE_ENABLED", ReadsOf(v, "EMERGENCY_MODE_ENABLED"))
           /\ Of(v, "STATE_INSTALLATION_MODE", ReadsOf(v, "STATE_INSTALLATION_MODE"))
           /\ Of(v, "CONFIG_FAN_EXHAUST", ReadsOf(v, "CONFIG_FAN_EXHAUST"))
           /\ Of(v, "HEATING_ELEMENT_ALLOWED", ReadsOf(v, "HEATING_ELEMENT_ALLOWED"))
           /\ Of(v, "TIME", TimeBits(v))
  <1>1. \A attr, i, n : Owner(v, i) = attr => Of(v, attr, Mask(i, n))
    BY DEF Of, Mask
  <1>2. \A attr, I : (\A i \in I : Owner(v, i) = attr) => Of(v, attr, Bytes(I))
    BY DEF Of, Bytes
  <1>3. \A attr : Of(v, attr, {})
    BY DEF Of
  <1>4. Of(v, "WATER_TARGET_TEMPERATURE", ReadsOf(v, "WATER_TARGET_TEMPERATURE"))
    <2>1. ReadsOf(v, "WATER_TARGET_TEMPERATURE") = Bytes(IF v = "LEGACY" THEN {1, 2} ELSE {1})
      BY DEF AllVersions, ReadsOf, HMIMessage, LegacyReads, NextReads, OdysseeReads
    <2>2. \A i \in (IF v = "LEGACY" THEN {1, 2} ELSE {1}) :
              Owner(v, i) = "WATER_TARGET_TEMPERATURE"
      BY DEF Owner
    <2>3. QED
      BY <2>1, <2>2, <1>2
  <1>5. Of(v, "OPERATION_MODE", ReadsOf(v, "OPERATION_MODE"))
    <2>1. CASE v = "ODYSSEE"
      BY <2>1, <1>2, OdysseeModeBits DEF Owner
    <2>2. CASE v # "ODYSSEE"
      <3>1. ReadsOf(v, "OPERATION_MODE") = Mask(IF v = "LEGACY" THEN 3 ELSE 2, \h0F)
        BY <2>2 DEF AllVersions, ReadsOf, HMIMessage, LegacyReads, NextReads
      <3>2. Owner(v, IF v = "LEGACY" THEN 3 ELSE 2) = "OPERATION_MODE"
        BY DEF Owner
      <3>3. QED
        BY <3>1, <3>2, <1>1
    <2>3. QED
      BY <2>1, <2>2
  <1>6. Of(v, "OPERATION_MODE", ReadsOf(v, "OPERATION_TYPE"))
    <2>1. ReadsOf(v, "OPERATION_TYPE") =
              Mask(IF v = "LEGACY" THEN 3 ELSE 2, IF v = "LEGACY" THEN \h40 ELSE \hF0)
      BY DEF AllVersions, ReadsOf, HMIMessage, LegacyReads, NextReads, OdysseeReads
    <2>2. Owner(v, IF v = "LEGACY" THEN 3 ELSE 2) = "OPERATION_MODE"
      BY DEF Owner
    <2>3. QED
      BY <2>1, <2>2, <1>1
  <1>7. Of(v, "CONFIG_AIRDUCT", ReadsOf(v, "CONFIG_AIRDUCT"))
    <2>1. ReadsOf(v, "CONFIG_AIRDUCT") = Mask(IF v = "LEGACY" THEN 5 ELSE 4, \hF0)
      BY DEF AllVersions, ReadsOf, HMIMessage, LegacyReads, NextReads, OdysseeReads
    <2>2. Owner(v, IF v = "LEGACY" THEN 5 ELSE 4) = "CONFIG_AIRDUCT"
      BY DEF Owner
    <2>3. QED
      BY <2>1, <2>2, <1>1
  <1>8. Of(v, "EMERGENCY_MODE_ENABLED", ReadsOf(v, "EMERGENCY_MODE_ENABLED"))
    <2>1. ReadsOf(v, "EMERGENCY_MODE_ENABLED") = Mask(IF v = "LEGACY" THEN 6 ELSE 5, \h01)
      BY DEF AllVersions, ReadsOf, HMIMessage, LegacyReads, NextReads, OdysseeReads
    <2>2. Owner(v, IF v = "LEGACY" THEN 6 ELSE 5) = "EMERGENCY_MODE_ENABLED"
      BY DEF Owner
    <2>3. QED
      BY <2>1, <2>2, <1>1
  <1>9. Of(v, "STATE_INSTALLATION_MODE", ReadsOf(v, "STATE_INSTALLATION_MODE"))
    <2>1. ReadsOf(v, "STATE_INSTALLATION_MODE") \in
              {{}, Mask(IF v = "LEGACY" THEN 7 ELSE 6, \h33)}
      BY DEF AllVersions, ReadsOf, HMIMessage, LegacyReads, NextReads, OdysseeReads
    <2>2. Owner(v, IF v = "LEGACY" THEN 7 ELSE 6) = "STATE_INSTALLATION_MODE"
      BY DEF Owner
    <2>3. QED
      BY <2>1, <2>2, <1>1, <1>3
  <1>10. Of(v, "CONFIG_FAN_EXHAUST", ReadsOf(v, "CONFIG_FAN_EXHAUST"))
    <2>1. ReadsOf(v, "CONFIG_FAN_EXHAUST") \in {{}, Mask(IF v = "LEGACY" THEN 8 ELSE 7, \h03)}
      BY DEF AllVersions, ReadsOf, HMIMessage, LegacyReads, NextReads, OdysseeReads
    <2>2. Owner(v, IF v = "LEGACY" THEN 8 ELSE 7) = "CONFIG_FAN_EXHAUST"
      BY DEF Owner
    <2>3. QED
      BY <2>1, <2>2, <1>1, <1>3
  <1>11. Of(v, "HEATING_ELEMENT_ALLOWED", ReadsOf(v, "HEATING_ELEMENT_ALLOWED"))
    <2>1. ReadsOf(v, "HEATING_ELEMENT_ALLOWED") \in
              {{}, Mask(IF v = "LEGACY" THEN 9 ELSE 8, \h04)}
      BY DEF AllVersions, ReadsOf, HMIMessage, LegacyReads, NextReads, OdysseeReads
    <2>2. Owner(v, IF v = "LEGACY" THEN 9 ELSE 8) = "HEATING_ELEMENT_ALLOWED"
      BY DEF Owner
    <2>3. QED
      BY <2>1, <2>2, <1>1, <1>3
  <1>12. Of(v, "TIME", TimeBits(v))
    <2>1. ASSUME NEW attr \in TimeAndDate
          PROVE  \A bit \in ReadsOf(v, attr) : bit[1] \in 16 .. 21
      BY DEF AllVersions, TimeAndDate, ReadsOf, HMIMessage, LegacyReads, NextReads,
             OdysseeReads, Mask, Bytes
    <2>2. \A i \in 16 .. 21 : Owner(v, i) = "TIME"
      BY DEF Owner
    <2>3. QED
      BY <2>1, <2>2 DEF Of, TimeBits
  <1>13. QED
    BY <1>4, <1>5, <1>6, <1>7, <1>8, <1>9, <1>10, <1>11, <1>12

\* The attributes Decode gets from codes.
Coded(v) ==
    {"OPERATION_MODE", "OPERATION_TYPE", "EMERGENCY_MODE_ENABLED"}
        \cup (IF v = "ODYSSEE" THEN {}
              ELSE {"STATE_INSTALLATION_MODE", "HEATING_ELEMENT_ALLOWED"})

\* Without the bits a getter reads, it answers the same.
LEMMA GetKept ==
    ASSUME NEW v \in AllVersions, NEW attr \in Coded(v), NEW p, NEW q, NEW bits,
           Same(p, q, bits), ReadsOf(v, attr) \cap bits = {}
    PROVE  Get(v, attr, p) = Get(v, attr, q)
  <1>1. CASE v = "ODYSSEE" /\ attr = "OPERATION_MODE"
    <2>1. Masked(p, 2, \hFF) = Masked(q, 2, \hFF)
      BY <1>1, OdysseeModeBits, WholeByte, MaskedSame
    <2>2. QED
      BY <1>1, <2>1, GettersOfBits DEF Get
  <1>2. CASE ~(v = "ODYSSEE" /\ attr = "OPERATION_MODE")
    <2> DEFINE field == Fields(v)[attr]
    <2>1. ReadsOf(v, attr) = Mask(field.byte, field.reads)
      <3>1. CASE v = "ODYSSEE" /\ attr = "OPERATION_TYPE"
        BY <3>1 DEF ReadsOf, HMIMessage, OdysseeReads, Fields, OdysseeFields, Field
      <3>2. CASE ~(v = "ODYSSEE" /\ attr = "OPERATION_TYPE")
        <4>1. attr \in DOMAIN Fields(v)
          BY <1>2, <3>2 DEF Coded, AllVersions, Fields, LegacyFields, NextFields, OdysseeFields
        <4>2. QED
          BY <3>2, <4>1, FieldsContained
      <3>3. QED
        BY <3>1, <3>2
    <2> HIDE DEF field
    <2>2. Masked(p, field.byte, field.reads) = Masked(q, field.byte, field.reads)
      BY <2>1, MaskedSame
    <2>3. Decoded(p, field) = Decoded(q, field)
      BY <2>2, GettersOfBits
    <2>4. CASE attr = "STATE_INSTALLATION_MODE"
      <3>1. Fields(v).STATE_INSTALLATION_MODE = field
        BY <2>4 DEF field
      <3>2. GetInstallation(v, p) = GetInstallation(v, q)
        BY <2>2, <2>3, <3>1 DEF GetInstallation
      <3>3. QED
        BY <2>4, <3>2 DEF Get
    <2>5. CASE attr # "STATE_INSTALLATION_MODE"
      BY <1>2, <2>3, <2>5 DEF Get, field
    <2>6. QED
      BY <2>4, <2>5
  <1>3. QED
    BY <1>1, <1>2

\* Without the bytes of the temperature it is what it was.
LEMMA TemperatureKept ==
    ASSUME NEW v \in AllVersions, NEW p, NEW q, NEW bits, Same(p, q, bits),
           ReadsOf(v, "WATER_TARGET_TEMPERATURE") \cap bits = {}
    PROVE  GetTemperature(v, p) = GetTemperature(v, q)
  <1>1. Mask(1, \hFF) \cap bits = {} /\ (v = "LEGACY" => Mask(2, \hFF) \cap bits = {})
    <2>1. ReadsOf(v, "WATER_TARGET_TEMPERATURE") = Bytes(IF v = "LEGACY" THEN {1, 2} ELSE {1})
      BY DEF AllVersions, ReadsOf, HMIMessage, LegacyReads, NextReads, OdysseeReads
    <2>2. QED
      BY <2>1, WholeByte DEF Bytes
  <1>2. Number(p, 1, \hFF) = Number(q, 1, \hFF)
    BY <1>1, MaskedSame DEF Number
  <1>3. v = "LEGACY" => Number(p, 2, \hFF) = Number(q, 2, \hFF)
    BY <1>1, MaskedSame DEF Number
  <1>4. QED
    BY <1>2, <1>3 DEF GetTemperature

\* The attributes of Overrides.tla are what Decode answers.
LEMMA DecodeFields ==
    ASSUME NEW v, NEW p
    PROVE  Decode(v, p) = [installation      |-> Decode(v, p).installation,
                           operationMode     |-> Decode(v, p).operationMode,
                           operationType     |-> Decode(v, p).operationType,
                           targetTemperature |-> Decode(v, p).targetTemperature,
                           heatingElement    |-> Decode(v, p).heatingElement,
                           emergencyMode     |-> Decode(v, p).emergencyMode]
  BY DEF Decode

\* A setter of one attribute leaves what Decode answers of the others.
LEMMA DecodeKept ==
    ASSUME NEW v \in AllVersions, NEW attr, NEW bits, Of(v, attr, bits), NEW p, NEW q,
           Same(p, q, bits)
    PROVE  /\ attr # "STATE_INSTALLATION_MODE" =>
                 Decode(v, q).installation = Decode(v, p).installation
           /\ attr # "OPERATION_MODE" =>
                 /\ Decode(v, q).operationMode = Decode(v, p).operationMode
                 /\ Decode(v, q).operationType = Decode(v, p).operationType
           /\ attr # "WATER_TARGET_TEMPERATURE" =>
                 Decode(v, q).targetTemperature = Decode(v, p).targetTemperature
           /\ attr # "HEATING_ELEMENT_ALLOWED" =>
                 Decode(v, q).heatingElement = Decode(v, p).heatingElement
           /\ attr # "EMERGENCY_MODE_ENABLED" =>
                 Decode(v, q).emergencyMode = Decode(v, p).emergencyMode
  <1>1. \A other, reads : Of(v, other, reads) /\ other # attr => reads \cap bits = {}
    BY DEF Of
  <1>2. attr # "STATE_INSTALLATION_MODE" =>
            Decode(v, q).installation = Decode(v, p).installation
    <2> SUFFICES ASSUME attr # "STATE_INSTALLATION_MODE", v # "ODYSSEE"
                 PROVE  Get(v, "STATE_INSTALLATION_MODE", q) = Get(v, "STATE_INSTALLATION_MODE", p)
      BY DEF Decode
    <2>1. ReadsOf(v, "STATE_INSTALLATION_MODE") \cap bits = {}
      BY <1>1, ReadsOwned
    <2>2. QED
      BY <2>1, GetKept DEF Coded
  <1>3. attr # "OPERATION_MODE" => Decode(v, q).operationMode = Decode(v, p).operationMode
    <2> SUFFICES ASSUME attr # "OPERATION_MODE"
                 PROVE  Get(v, "OPERATION_MODE", q) = Get(v, "OPERATION_MODE", p)
      BY DEF Decode
    <2>1. ReadsOf(v, "OPERATION_MODE") \cap bits = {}
      BY <1>1, ReadsOwned
    <2>2. QED
      BY <2>1, GetKept DEF Coded
  <1>4. attr # "OPERATION_MODE" => Decode(v, q).operationType = Decode(v, p).operationType
    <2> SUFFICES ASSUME attr # "OPERATION_MODE"
                 PROVE  Get(v, "OPERATION_TYPE", q) = Get(v, "OPERATION_TYPE", p)
      BY DEF Decode
    <2>1. ReadsOf(v, "OPERATION_TYPE") \cap bits = {}
      BY <1>1, ReadsOwned
    <2>2. QED
      BY <2>1, GetKept DEF Coded
  <1>5. attr # "WATER_TARGET_TEMPERATURE" =>
            Decode(v, q).targetTemperature = Decode(v, p).targetTemperature
    <2> SUFFICES ASSUME attr # "WATER_TARGET_TEMPERATURE"
                 PROVE  GetTemperature(v, q) = GetTemperature(v, p)
      BY DEF Decode
    <2>1. ReadsOf(v, "WATER_TARGET_TEMPERATURE") \cap bits = {}
      BY <1>1, ReadsOwned
    <2>2. QED
      BY <2>1, TemperatureKept
  <1>6. attr # "HEATING_ELEMENT_ALLOWED" =>
            Decode(v, q).heatingElement = Decode(v, p).heatingElement
    <2>1. CASE v = "ODYSSEE"
      BY <2>1 DEF Decode
    <2>2. ASSUME attr # "HEATING_ELEMENT_ALLOWED", v # "ODYSSEE"
          PROVE  Decode(v, q).heatingElement = Decode(v, p).heatingElement
      <3>1. ReadsOf(v, "HEATING_ELEMENT_ALLOWED") \cap bits = {}
        BY <2>2, <1>1, ReadsOwned
      <3>2. Get(v, "HEATING_ELEMENT_ALLOWED", q) = Get(v, "HEATING_ELEMENT_ALLOWED", p)
        BY <2>2, <3>1, GetKept DEF Coded
      <3>3. QED
        BY <3>2 DEF Decode
    <2>3. QED
      BY <2>1, <2>2
  <1>7. attr # "EMERGENCY_MODE_ENABLED" =>
            Decode(v, q).emergencyMode = Decode(v, p).emergencyMode
    <2> SUFFICES ASSUME attr # "EMERGENCY_MODE_ENABLED"
                 PROVE  Get(v, "EMERGENCY_MODE_ENABLED", q) = Get(v, "EMERGENCY_MODE_ENABLED", p)
      BY DEF Decode
    <2>1. ReadsOf(v, "EMERGENCY_MODE_ENABLED") \cap bits = {}
      BY <1>1, ReadsOwned
    <2>2. QED
      BY <2>1, GetKept DEF Coded
  <1>8. QED
    BY <1>2, <1>3, <1>4, <1>5, <1>6, <1>7

\* A field whose setter writes all the bits its getter reads, each value with a
\* code of its own.
ReadsBack(field) ==
    /\ field.writes = field.reads
    /\ \A value \in DOMAIN field.code : BitsOf[field.code[value]] \subseteq BitsOf[field.writes]
    /\ \A value, other \in DOMAIN field.code :
          BitsOf[field.code[value]] = BitsOf[field.code[other]] => value = other

\* The value of the code that is written is the value that is read.
LEMMA DecodedWritten ==
    ASSUME NEW field, ReadsBack(field), NEW value \in DOMAIN field.code, NEW p
    PROVE  Decoded(Write(p, field.byte, field.writes, field.code[value]), field) = value
  <1> DEFINE q     == Write(p, field.byte, field.writes, field.code[value])
             known == { v \in DOMAIN field.code :
                          BitsOf[field.code[v]] = Masked(q, field.byte, field.reads) }
  <1>1. Masked(q, field.byte, field.reads) = BitsOf[field.code[value]]
    BY MaskedWritten DEF ReadsBack
  <1>2. value \in known /\ \A v \in known : v = value
    BY <1>1 DEF ReadsBack
  <1>3. QED
    BY <1>2 DEF Decoded

\* All fields of Overrides.tla are read back, but for those of the byte of ODYSSEE.
LEMMA FieldsReadBack ==
    ASSUME NEW v \in AllVersions, NEW attr \in Coded(v),
           ~(v = "ODYSSEE" /\ attr \in {"OPERATION_MODE", "OPERATION_TYPE"})
    PROVE  attr \in DOMAIN Fields(v) /\ ReadsBack(Fields(v)[attr])
  <1>1. CASE v = "LEGACY"
    <2>1. Fields(v) = LegacyFields
      BY <1>1 DEF Fields
    <2>2. ReadsBack(LegacyFields.OPERATION_MODE)
      BY BitsOfMasks, BitsOfCodes DEF LegacyFields, Field, ReadsBack
    <2>3. ReadsBack(LegacyFields.OPERATION_TYPE)
      BY BitsOfMasks, BitsOfCodes DEF LegacyFields, Field, ReadsBack
    <2>4. ReadsBack(LegacyFields.STATE_INSTALLATION_MODE)
      BY BitsOfMasks, BitsOfCodes DEF LegacyFields, Field, ReadsBack
    <2>5. ReadsBack(LegacyFields.EMERGENCY_MODE_ENABLED)
      BY BitsOfMasks, BitsOfCodes DEF LegacyFields, Field, Flag, ReadsBack
    <2>6. ReadsBack(LegacyFields.HEATING_ELEMENT_ALLOWED)
      BY BitsOfMasks, BitsOfCodes DEF LegacyFields, Field, Flag, ReadsBack
    <2>7. Coded(v) \subseteq DOMAIN LegacyFields
      BY <1>1 DEF Coded, LegacyFields
    <2>8. QED
      BY <1>1, <2>1, <2>2, <2>3, <2>4, <2>5, <2>6, <2>7 DEF Coded
  <1>2. CASE v = "NEXT"
    <2>1. Fields(v) = NextFields
      BY <1>2 DEF Fields
    <2>2. ReadsBack(NextFields.OPERATION_MODE)
      BY BitsOfMasks, BitsOfCodes DEF NextFields, Field, ReadsBack
    <2>3. ReadsBack(NextFields.OPERATION_TYPE)
      BY BitsOfMasks, BitsOfCodes DEF NextFields, Field, ReadsBack
    <2>4. ReadsBack(NextFields.STATE_INSTALLATION_MODE)
      BY BitsOfMasks, BitsOfCodes DEF NextFields, Field, ReadsBack
    <2>5. ReadsBack(NextFields.EMERGENCY_MODE_ENABLED)
      BY BitsOfMasks, BitsOfCodes DEF NextFields, Field, Flag, ReadsBack
    <2>6. ReadsBack(NextFields.HEATING_ELEMENT_ALLOWED)
      BY BitsOfMasks, BitsOfCodes DEF NextFields, Field, Flag, ReadsBack
    <2>7. Coded(v) \subseteq DOMAIN NextFields
      BY <1>2 DEF Coded, NextFields
    <2>8. QED
      BY <1>2, <2>1, <2>2, <2>3, <2>4, <2>5, <2>6, <2>7 DEF Coded
  <1>3. CASE v = "ODYSSEE"
    <2>1. Fields(v) = OdysseeFields
      BY <1>3 DEF Fields
    <2>2. ReadsBack(OdysseeFields.EMERGENCY_MODE_ENABLED)
      BY BitsOfMasks, BitsOfCodes DEF OdysseeFields, Field, Flag, ReadsBack
    <2>3. "EMERGENCY_MODE_ENABLED" \in DOMAIN OdysseeFields
      BY DEF OdysseeFields
    <2>4. QED
      BY <1>3, <2>1, <2>2, <2>3 DEF Coded
  <1>4. QED
    BY <1>1, <1>2, <1>3 DEF AllVersions

\* What is set is read back.
LEMMA GetWritten ==
    ASSUME NEW v \in AllVersions, NEW attr \in Coded(v),
           ~(v = "ODYSSEE" /\ attr \in {"OPERATION_MODE", "OPERATION_TYPE"}),
           NEW value \in DOMAIN Fields(v)[attr].code, NEW p
    PROVE  Get(v, attr, SetField(v, attr, value, p)) = value
  <1> DEFINE field == Fields(v)[attr]
             q     == SetField(v, attr, value, p)
  <1>1. attr \in DOMAIN Fields(v) /\ ReadsBack(field)
    BY FieldsReadBack
  <1>2. q = Write(p, field.byte, field.writes, field.code[value])
    BY <1>1 DEF SetField
  <1>3. Decoded(q, field) = value
    BY <1>1, <1>2, DecodedWritten
  <1>4. CASE attr # "STATE_INSTALLATION_MODE"
    <2>1. ~(attr = "OPERATION_MODE" /\ v = "ODYSSEE")
      OBVIOUS
    <2>2. Get(v, attr, q) = Decoded(q, Fields(v)[attr])
      BY <1>4, <2>1 DEF Get
    <2>3. QED
      BY <1>3, <2>2
  <1>5. CASE attr = "STATE_INSTALLATION_MODE"
    <2>1. v # "ODYSSEE"
      BY <1>5 DEF Coded
    <2> DEFINE code == field.code
               bits == Masked(q, field.byte, field.reads)
    <2>2. /\ code.HP_ONLY = \h00 /\ code.HP_AND_SOLAR = \h02
          /\ code.HP_AND_EXT_PRIO_HP = \h01 /\ code.HP_AND_EXT_OPT_HP = \h11
          /\ code.HP_AND_EXT_OPT_EXT = \h21 /\ code.HP_AND_EXT_PRIO_EXT = \h31
          /\ DOMAIN code = Installations
      BY <1>5, <2>1 DEF AllVersions, Fields, LegacyFields, NextFields, Field, Installations
    <2>3. bits = BitsOf[code[value]]
      BY <1>1, <1>2, MaskedWritten DEF ReadsBack
    <2>4. Fields(v).STATE_INSTALLATION_MODE = field
      BY <1>5
    <2>5. value \in Installations
      BY <2>2
    <2> HIDE DEF field, q
    <2>6. GetInstallation(v, q) =
              CASE 1 \in bits             -> "HP_AND_SOLAR"
                [] bits \cap {0, 1} = {} -> "HP_ONLY"
                [] OTHER                  -> Decoded(q, field)
      BY <2>4 DEF GetInstallation
    <2> HIDE DEF bits
    <2>7. CASE value = "HP_AND_SOLAR"
      <3>1. bits = {1}
        BY <2>2, <2>3, <2>7, BitsOfCodes
      <3>2. bits \cap {0, 1} # {}
        BY <3>1
      <3>3. GetInstallation(v, q) = "HP_AND_SOLAR"
        BY <2>6, <3>1, <3>2
      <3>4. QED
        BY <1>5, <2>7, <3>3 DEF Get, q
    <2>8. CASE value = "HP_ONLY"
      <3>1. bits = {}
        BY <2>2, <2>3, <2>8, BitsOfMasks
      <3>2. GetInstallation(v, q) = "HP_ONLY"
        BY <2>6, <3>1
      <3>3. QED
        BY <1>5, <2>8, <3>2 DEF Get, q
    <2>9. CASE value \notin {"HP_ONLY", "HP_AND_SOLAR"}
      <3>1. bits \in {{0}, {0, 4}, {0, 5}, {0, 4, 5}}
        BY <2>2, <2>3, <2>5, <2>9, BitsOfMasks, BitsOfCodes DEF Installations
      <3>2. 1 \notin bits /\ bits \cap {0, 1} # {}
        BY <3>1
      <3>3. GetInstallation(v, q) = Decoded(q, field)
        BY <2>6, <3>2
      <3>4. QED
        BY <1>3, <1>5, <3>3 DEF Get, q
    <2>10. QED
      BY <2>7, <2>8, <2>9
  <1>6. QED
    BY <1>4, <1>5

\* The setters, and what they are in Overrides.tla.
LEMMA InstallationImplements ==
    ASSUME version \in AllVersions, NEW value \in Installations, NEW p
    PROVE  Decode(version, SetInstallation(value, p)) =
               Abstract!SetInstallation(Decode(version, p), value)
  <1> DEFINE q == SetInstallation(value, p)
  <1>1. CASE version = "ODYSSEE"
    <2>1. q = p
      BY <1>1 DEF SetInstallation, SetField, Fields, OdysseeFields
    <2>2. QED
      BY <1>1, <2>1 DEF Abstract!SetInstallation
  <1>2. CASE version # "ODYSSEE"
    <2> DEFINE bits == ReadsOf(version, "STATE_INSTALLATION_MODE")
    <2>1. Same(p, q, bits)
      BY SetFieldWithin DEF SetInstallation
    <2>2. Of(version, "STATE_INSTALLATION_MODE", bits)
      BY ReadsOwned
    <2>3. Get(version, "STATE_INSTALLATION_MODE", q) = value
      <3>1. DOMAIN Fields(version).STATE_INSTALLATION_MODE.code = Installations
        BY <1>2 DEF AllVersions, Fields, LegacyFields, NextFields, Field, Installations
      <3>2. QED
        BY <1>2, <3>1, GetWritten DEF SetInstallation, Coded
    <2>4. Decode(version, q).installation = value
      BY <1>2, <2>3 DEF Decode
    <2> HIDE DEF q, bits
    <2>5. /\ Decode(version, q).operationMode = Decode(version, p).operationMode
          /\ Decode(version, q).operationType = Decode(version, p).operationType
          /\ Decode(version, q).targetTemperature = Decode(version, p).targetTemperature
          /\ Decode(version, q).heatingElement = Decode(version, p).heatingElement
          /\ Decode(version, q).emergencyMode = Decode(version, p).emergencyMode
      BY <2>1, <2>2, DecodeKept
    <2>6. Decode(version, q) = [Decode(version, p) EXCEPT !.installation = value]
      BY <2>4, <2>5, DecodeFields
    <2>7. QED
      BY <1>2, <2>6 DEF Abstract!SetInstallation, q
  <1>3. QED
    BY <1>1, <1>2

\* The temperature: tenths in legacy, whole degrees otherwise.
LEMMA TemperatureImplements ==
    ASSUME version \in AllVersions, NEW value \in Temperatures, NEW p
    PROVE  Decode(version, SetTemperature(version, value, p)) =
               Abstract!SetTargetTemperature(Decode(version, p), value)
  <1> DEFINE q    == SetTemperature(version, value, p)
             bits == ReadsOf(version, "WATER_TARGET_TEMPERATURE")
             low  == Tenths(value) % 256
             high == Tenths(value) \div 256
             tens == value \div 10
  <1>1. Same(p, q, bits)
    BY SetTemperatureWithin
  <1>2. Of(version, "WATER_TARGET_TEMPERATURE", bits)
    BY ReadsOwned
  <1>3. low \in Octet /\ high \in Octet /\ tens \in Octet
    BY TemperatureBytes
  <1>4. low + 256 * high = Tenths(value)
    <2>1. Tenths(value) \in Nat
      BY DEF Temperatures, Tenths, ABSENCE_WATER_TEMPERATURE, MAX_WATER_TEMPERATURE
    <2>2. QED
      BY <2>1
  <1>5. q = IF version = "LEGACY" THEN Write(Write(p, 1, \hFF, low), 2, \hFF, high)
            ELSE Write(p, 1, \hFF, tens)
    BY DEF SetTemperature
  <1> DEFINE temperature == IF version = "LEGACY" THEN Tenths(value) ELSE 10 * tens
  <1>6. GetTemperature(version, q) = temperature
    <2> HIDE DEF low, high, tens, q, bits
    <2>1. Fits(low, \hFF) /\ Fits(high, \hFF) /\ Fits(tens, \hFF)
      BY <1>3, OctetFits DEF Fits
    <2>2. CASE version = "LEGACY"
      <3> DEFINE r == Write(p, 1, \hFF, low)
      <3>1. Number(r, 1, \hFF) = low
        BY <2>1, ReadsWritten
      <3> HIDE DEF r
      <3>2. q = Write(r, 2, \hFF, high)
        BY <1>5, <2>2 DEF r
      <3>3. Number(q, 2, \hFF) = high
        BY <2>1, <3>2, ReadsWritten
      <3>4. Number(q, 1, \hFF) = Number(r, 1, \hFF)
        BY <2>1, <3>2, ReadsOther
      <3>5. QED
        BY <1>4, <2>2, <3>1, <3>3, <3>4 DEF GetTemperature
    <2>3. CASE version # "LEGACY"
      <3>1. Number(q, 1, \hFF) = tens
        BY <1>5, <2>1, <2>3, ReadsWritten
      <3>2. QED
        BY <2>3, <3>1 DEF GetTemperature
    <2>4. QED
      BY <2>2, <2>3
  <1>7. Decode(version, q).targetTemperature = temperature
    BY <1>6 DEF Decode
  <1> HIDE DEF q, bits, temperature
  <1>8. /\ Decode(version, q).installation = Decode(version, p).installation
        /\ Decode(version, q).operationMode = Decode(version, p).operationMode
        /\ Decode(version, q).operationType = Decode(version, p).operationType
        /\ Decode(version, q).heatingElement = Decode(version, p).heatingElement
        /\ Decode(version, q).emergencyMode = Decode(version, p).emergencyMode
    BY <1>1, <1>2, DecodeKept
  <1>9. Decode(version, q) = [Decode(version, p) EXCEPT !.targetTemperature = temperature]
    BY <1>7, <1>8, DecodeFields
  <1>10. QED
    BY <1>9 DEF Abstract!SetTargetTemperature, Abstract!HMI!Tenths, Abstract!HMI!FallsShort,
                Tenths, FallsShort, temperature, q

\* The emergency mode, refused without the element.
LEMMA EmergencyImplements ==
    ASSUME version \in AllVersions, NEW value \in BOOLEAN, NEW p
    PROVE  Decode(version, SetEmergency(version, value, p)) =
               Abstract!SetEmergencyMode(Decode(version, p), value)
  <1> DEFINE q    == SetEmergency(version, value, p)
             bits == ReadsOf(version, "EMERGENCY_MODE_ENABLED")
             refused == version # "ODYSSEE" /\ value /\ ~Get(version, "HEATING_ELEMENT_ALLOWED", p)
  <1>1. refused <=> version # "ODYSSEE" /\ value /\ ~Decode(version, p).heatingElement
    BY DEF Decode
  <1> HIDE DEF refused
  <1>2. CASE refused
    <2>1. q = p
      BY <1>2 DEF SetEmergency, refused
    <2>2. QED
      BY <1>1, <1>2, <2>1 DEF Abstract!SetEmergencyMode
  <1>3. CASE ~refused
    <2>1. q = SetField(version, "EMERGENCY_MODE_ENABLED", value, p)
      BY <1>3 DEF SetEmergency, refused
    <2>2. Same(p, q, bits)
      BY SetEmergencyWithin
    <2>3. Of(version, "EMERGENCY_MODE_ENABLED", bits)
      BY ReadsOwned
    <2>4. Decode(version, q).emergencyMode = value
      <3>1. DOMAIN Fields(version).EMERGENCY_MODE_ENABLED.code = BOOLEAN
        BY DEF AllVersions, Fields, LegacyFields, NextFields, OdysseeFields, Field, Flag
      <3>2. Get(version, "EMERGENCY_MODE_ENABLED", q) = value
        BY <2>1, <3>1, GetWritten DEF Coded
      <3>3. QED
        BY <3>2 DEF Decode
    <2> HIDE DEF q, bits
    <2>5. /\ Decode(version, q).installation = Decode(version, p).installation
          /\ Decode(version, q).operationMode = Decode(version, p).operationMode
          /\ Decode(version, q).operationType = Decode(version, p).operationType
          /\ Decode(version, q).targetTemperature = Decode(version, p).targetTemperature
          /\ Decode(version, q).heatingElement = Decode(version, p).heatingElement
      BY <2>2, <2>3, DecodeKept
    <2>6. Decode(version, q) = [Decode(version, p) EXCEPT !.emergencyMode = value]
      BY <2>4, <2>5, DecodeFields
    <2>7. Abstract!SetEmergencyMode(Decode(version, p), value) =
              [Decode(version, p) EXCEPT !.emergencyMode = value]
      BY <1>1, <1>3 DEF Abstract!SetEmergencyMode
    <2>8. QED
      BY <2>6, <2>7 DEF q
  <1>4. QED
    BY <1>2, <1>3

\* The element, refused in emergency mode, and none in ODYSSEE.
LEMMA ElementImplements ==
    ASSUME version \in AllVersions, NEW value \in BOOLEAN, NEW p
    PROVE  Decode(version, SetElement(version, value, p)) =
               Abstract!SetHeatingElement(Decode(version, p), value)
  <1> DEFINE q    == SetElement(version, value, p)
             bits == ReadsOf(version, "HEATING_ELEMENT_ALLOWED")
             refused == version = "ODYSSEE" \/ (~value /\ Get(version, "EMERGENCY_MODE_ENABLED", p))
  <1>1. refused <=> version = "ODYSSEE" \/ (~value /\ Decode(version, p).emergencyMode)
    BY DEF Decode
  <1> HIDE DEF refused
  <1>2. CASE refused
    <2>1. q = p
      BY <1>2 DEF SetElement, SetField, Fields, OdysseeFields, refused
    <2>2. QED
      BY <1>1, <1>2, <2>1 DEF Abstract!SetHeatingElement
  <1>3. CASE ~refused
    <2>1. q = SetField(version, "HEATING_ELEMENT_ALLOWED", value, p) /\ version # "ODYSSEE"
      BY <1>3 DEF SetElement, refused
    <2>2. Same(p, q, bits)
      BY SetElementWithin
    <2>3. Of(version, "HEATING_ELEMENT_ALLOWED", bits)
      BY ReadsOwned
    <2>4. Decode(version, q).heatingElement = value
      <3>1. DOMAIN Fields(version).HEATING_ELEMENT_ALLOWED.code = BOOLEAN
        BY <2>1 DEF AllVersions, Fields, LegacyFields, NextFields, Field, Flag
      <3>2. Get(version, "HEATING_ELEMENT_ALLOWED", q) = value
        BY <2>1, <3>1, GetWritten DEF Coded
      <3>3. QED
        BY <2>1, <3>2 DEF Decode
    <2> HIDE DEF q, bits
    <2>5. /\ Decode(version, q).installation = Decode(version, p).installation
          /\ Decode(version, q).operationMode = Decode(version, p).operationMode
          /\ Decode(version, q).operationType = Decode(version, p).operationType
          /\ Decode(version, q).targetTemperature = Decode(version, p).targetTemperature
          /\ Decode(version, q).emergencyMode = Decode(version, p).emergencyMode
      BY <2>2, <2>3, DecodeKept
    <2>6. Decode(version, q) = [Decode(version, p) EXCEPT !.heatingElement = value]
      BY <2>4, <2>5, DecodeFields
    <2>7. Abstract!SetHeatingElement(Decode(version, p), value) =
              [Decode(version, p) EXCEPT !.heatingElement = value]
      BY <1>1, <1>3 DEF Abstract!SetHeatingElement
    <2>8. QED
      BY <2>6, <2>7 DEF q
  <1>4. QED
    BY <1>2, <1>3

\* LEGACY and NEXT have mode and type in one byte, but not in the same bits.
LEMMA ModeApartFromType ==
    ASSUME NEW v \in AllVersions, v # "ODYSSEE"
    PROVE  ReadsOf(v, "OPERATION_TYPE") \cap ReadsOf(v, "OPERATION_MODE") = {}
  <1> DEFINE byte == IF v = "LEGACY" THEN 3 ELSE 2
  <1>1. /\ ReadsOf(v, "OPERATION_MODE") = Mask(byte, \h0F)
        /\ ReadsOf(v, "OPERATION_TYPE") = Mask(byte, IF v = "LEGACY" THEN \h40 ELSE \hF0)
    BY DEF AllVersions, ReadsOf, HMIMessage, LegacyReads, NextReads
  <1>2. QED
    BY <1>1, BitsOfMasks DEF Mask

\* A frame that differs in mode and type alone.
LEMMA ModeAndTypeReplaced ==
    ASSUME NEW f, NEW g, NEW mode, NEW type,
           f = [installation |-> f.installation, operationMode |-> f.operationMode,
                operationType |-> f.operationType, targetTemperature |-> f.targetTemperature,
                heatingElement |-> f.heatingElement, emergencyMode |-> f.emergencyMode],
           g = [installation |-> g.installation, operationMode |-> g.operationMode,
                operationType |-> g.operationType, targetTemperature |-> g.targetTemperature,
                heatingElement |-> g.heatingElement, emergencyMode |-> g.emergencyMode],
           g.operationMode = mode, g.operationType = type,
           g.installation = f.installation, g.targetTemperature = f.targetTemperature,
           g.heatingElement = f.heatingElement, g.emergencyMode = f.emergencyMode
    PROVE  g = [f EXCEPT !.operationMode = mode, !.operationType = type]
  <1> DEFINE r == [f EXCEPT !.operationMode = mode]
             s == [r EXCEPT !.operationType = type]
  <1>1. r = [installation |-> f.installation, operationMode |-> mode,
                operationType |-> f.operationType, targetTemperature |-> f.targetTemperature,
                heatingElement |-> f.heatingElement, emergencyMode |-> f.emergencyMode]
    OBVIOUS
  <1> HIDE DEF r
  <1>2. s = [installation |-> f.installation, operationMode |-> mode,
                operationType |-> type, targetTemperature |-> f.targetTemperature,
                heatingElement |-> f.heatingElement, emergencyMode |-> f.emergencyMode]
    BY <1>1
  <1>3. s = [f EXCEPT !.operationMode = mode, !.operationType = type]
    BY DEF r
  <1>4. g = s
    BY <1>2
  <1> HIDE DEF s
  <1>5. QED
    BY <1>3, <1>4

\* The mode, which ODYSSEE writes with the type.
LEMMA ModeImplements ==
    ASSUME version \in AllVersions, NEW value \in Modes, NEW p
    PROVE  Decode(version, SetMode(version, value, p)) =
               Abstract!SetOperationMode(Decode(version, p), value)
  <1> DEFINE q    == SetMode(version, value, p)
             bits == ReadsOf(version, "OPERATION_MODE")
             type == Decode(version, p).operationType
             unknown == version = "ODYSSEE" /\ type = "UNKNOWN"
             newMode == IF unknown THEN "AUTO" ELSE value
             newType == IF unknown THEN "OFF_PEAK_HOURS" ELSE type
  <1>1. Same(p, q, bits) /\ Of(version, "OPERATION_MODE", bits)
    BY SetModeWithin, ReadsOwned
  <1>2. /\ Decode(version, q).operationMode = newMode
        /\ Decode(version, q).operationType = newType
    <2>1. type = Get(version, "OPERATION_TYPE", p)
      BY DEF Decode
    <2>2. CASE version = "ODYSSEE"
      <3> DEFINE known == IF type = "UNKNOWN" THEN "OFF_PEAK_HOURS" ELSE type
                 mode  == IF type = "UNKNOWN" THEN "AUTO" ELSE value
      <3>1. known \in Types /\ mode \in Modes
        BY <2>1, TypeTyped DEF Types, Modes
      <3>2. q = Write(p, 2, \hFF, ValueByModeAndType(value, type))
        BY <2>1, <2>2 DEF SetMode
      <3>3. ValueByModeAndType(value, type) = ModeAndType[known][mode]
        <4>1. CASE type = "UNKNOWN"
          BY <4>1 DEF ValueByModeAndType, ModeAndType
        <4>2. CASE type # "UNKNOWN"
          BY <4>2 DEF ValueByModeAndType, Modes
        <4>3. QED
          BY <4>1, <4>2
      <3> HIDE DEF known, mode, type, q
      <3>4. Masked(q, 2, \hFF) = BitsOf[ModeAndType[known][mode]]
        BY <3>1, <3>2, <3>3, CodeInByte, MaskedWritten
      <3>5. Get("ODYSSEE", "OPERATION_MODE", q) = mode /\ Get("ODYSSEE", "OPERATION_TYPE", q) = known
        BY <3>1, <3>4, OdysseeReadsBack
      <3>6. QED
        BY <2>2, <3>5 DEF Decode, known, mode
    <2>3. CASE version # "ODYSSEE"
      <3>1. DOMAIN Fields(version).OPERATION_MODE.code = Modes
        BY <2>3 DEF AllVersions, Fields, LegacyFields, NextFields, Field, Modes
      <3>2. Get(version, "OPERATION_MODE", q) = value
        BY <2>3, <3>1, GetWritten DEF SetMode, Coded
      <3>3. Get(version, "OPERATION_TYPE", q) = Get(version, "OPERATION_TYPE", p)
        <4>1. ReadsOf(version, "OPERATION_TYPE") \cap bits = {}
          BY <2>3, ModeApartFromType
        <4>2. QED
          BY <1>1, <4>1, GetKept DEF Coded
      <3>4. QED
        BY <2>1, <2>3, <3>2, <3>3 DEF Decode
    <2>4. QED
      BY <2>2, <2>3
  <1> HIDE DEF q, bits, newMode, newType
  <1>3. /\ Decode(version, q).installation = Decode(version, p).installation
        /\ Decode(version, q).targetTemperature = Decode(version, p).targetTemperature
        /\ Decode(version, q).heatingElement = Decode(version, p).heatingElement
        /\ Decode(version, q).emergencyMode = Decode(version, p).emergencyMode
    BY <1>1, DecodeKept
  <1>4. value # "UNKNOWN"
    BY DEF Modes
  <1>5. Decode(version, q) =
            [Decode(version, p) EXCEPT !.operationMode = newMode, !.operationType = newType]
    <2> DEFINE f == Decode(version, p)
               g == Decode(version, q)
    <2>1. f = [installation |-> f.installation, operationMode |-> f.operationMode,
           operationType |-> f.operationType, targetTemperature |-> f.targetTemperature,
           heatingElement |-> f.heatingElement, emergencyMode |-> f.emergencyMode]
      BY DecodeFields
    <2>2. g = [installation |-> g.installation, operationMode |-> g.operationMode,
           operationType |-> g.operationType, targetTemperature |-> g.targetTemperature,
           heatingElement |-> g.heatingElement, emergencyMode |-> g.emergencyMode]
      BY DecodeFields
    <2>3. /\ g.operationMode = newMode /\ g.operationType = newType
        /\ g.installation = f.installation /\ g.targetTemperature = f.targetTemperature
        /\ g.heatingElement = f.heatingElement /\ g.emergencyMode = f.emergencyMode
      BY <1>2, <1>3
    <2> HIDE DEF f, g
    <2>4. g = [f EXCEPT !.operationMode = newMode, !.operationType = newType]
      BY <2>1, <2>2, <2>3, ModeAndTypeReplaced
    <2>5. QED
      BY <2>4 DEF f, g
  <1>6. QED
    BY <1>4, <1>5 DEF Abstract!SetOperationMode, Abstract!SetModeAndType, q, newMode, newType

\* The type, which ODYSSEE writes with the mode.
LEMMA TypeImplements ==
    ASSUME version \in AllVersions, NEW value \in Types, NEW p
    PROVE  Decode(version, SetType(version, value, p)) =
               Abstract!SetOperationType(Decode(version, p), value)
  <1> DEFINE q    == SetType(version, value, p)
             bits == TypeBits(version)
             mode == Decode(version, p).operationMode
             unknown == version = "ODYSSEE" /\ mode = "UNKNOWN"
             newMode == IF unknown THEN "AUTO" ELSE mode
             newType == IF unknown THEN "OFF_PEAK_HOURS" ELSE value
  <1>1. CASE version # "ODYSSEE" /\ value = "OFF_PEAK_HOURS"
    <2>1. value \notin DOMAIN Fields(version).OPERATION_TYPE.code
      BY <1>1 DEF AllVersions, Fields, LegacyFields, NextFields, Field
    <2>2. q = p
      BY <1>1, <2>1 DEF SetType, SetField
    <2>3. QED
      BY <1>1, <2>2 DEF Abstract!SetOperationType
  <1>2. CASE ~(version # "ODYSSEE" /\ value = "OFF_PEAK_HOURS")
    <2>1. Same(p, q, bits) /\ Of(version, "OPERATION_MODE", bits)
      BY SetTypeWithin, ReadsOwned DEF TypeBits
    <2>2. /\ Decode(version, q).operationMode = newMode
          /\ Decode(version, q).operationType = newType
      <3>1. mode = Get(version, "OPERATION_MODE", p)
        BY DEF Decode
      <3>2. CASE version = "ODYSSEE"
        <4> DEFINE known == IF mode = "UNKNOWN" THEN "AUTO" ELSE mode
                   type  == IF mode = "UNKNOWN" THEN "OFF_PEAK_HOURS" ELSE value
        <4>1. known \in Modes /\ type \in Types
          BY <3>1, ModeTyped DEF Types, Modes
        <4>2. q = Write(p, 2, \hFF, ValueByModeAndType(mode, value))
          BY <3>1, <3>2 DEF SetType
        <4>3. ValueByModeAndType(mode, value) = ModeAndType[type][known]
          <5>1. CASE mode = "UNKNOWN"
            BY <5>1 DEF ValueByModeAndType, ModeAndType
          <5>2. CASE mode # "UNKNOWN"
            BY <5>2 DEF ValueByModeAndType, Types
          <5>3. QED
            BY <5>1, <5>2
        <4> HIDE DEF known, mode, type, q
        <4>4. Masked(q, 2, \hFF) = BitsOf[ModeAndType[type][known]]
          BY <4>1, <4>2, <4>3, CodeInByte, MaskedWritten
        <4>5. Get("ODYSSEE", "OPERATION_MODE", q) = known /\ Get("ODYSSEE", "OPERATION_TYPE", q) = type
          BY <4>1, <4>4, OdysseeReadsBack
        <4>6. QED
          BY <3>2, <4>5 DEF Decode, known, type
      <3>3. CASE version # "ODYSSEE"
        <4>1. value \in DOMAIN Fields(version).OPERATION_TYPE.code
          BY <1>2, <3>3 DEF AllVersions, Fields, LegacyFields, NextFields, Field, Types
        <4>2. Get(version, "OPERATION_TYPE", q) = value
          BY <3>3, <4>1, GetWritten DEF SetType, Coded
        <4>3. Get(version, "OPERATION_MODE", q) = Get(version, "OPERATION_MODE", p)
          <5>1. ReadsOf(version, "OPERATION_MODE") \cap bits = {}
            BY <3>3, ModeApartFromType DEF TypeBits
          <5>2. QED
            BY <2>1, <5>1, GetKept DEF Coded
        <4>4. QED
          BY <3>1, <3>3, <4>2, <4>3 DEF Decode
      <3>4. QED
        BY <3>2, <3>3
    <2> HIDE DEF q, bits, newMode, newType
    <2>3. /\ Decode(version, q).installation = Decode(version, p).installation
          /\ Decode(version, q).targetTemperature = Decode(version, p).targetTemperature
          /\ Decode(version, q).heatingElement = Decode(version, p).heatingElement
          /\ Decode(version, q).emergencyMode = Decode(version, p).emergencyMode
      BY <2>1, DecodeKept
    <2>4. value # "UNKNOWN"
      BY DEF Types
    <2>5. Decode(version, q) =
              [Decode(version, p) EXCEPT !.operationMode = newMode, !.operationType = newType]
      <3> DEFINE f == Decode(version, p)
                 g == Decode(version, q)
      <3>1. f = [installation |-> f.installation, operationMode |-> f.operationMode,
             operationType |-> f.operationType, targetTemperature |-> f.targetTemperature,
             heatingElement |-> f.heatingElement, emergencyMode |-> f.emergencyMode]
        BY DecodeFields
      <3>2. g = [installation |-> g.installation, operationMode |-> g.operationMode,
             operationType |-> g.operationType, targetTemperature |-> g.targetTemperature,
             heatingElement |-> g.heatingElement, emergencyMode |-> g.emergencyMode]
        BY DecodeFields
      <3>3. /\ g.operationMode = newMode /\ g.operationType = newType
          /\ g.installation = f.installation /\ g.targetTemperature = f.targetTemperature
          /\ g.heatingElement = f.heatingElement /\ g.emergencyMode = f.emergencyMode
        BY <2>2, <2>3
      <3> HIDE DEF f, g
      <3>4. g = [f EXCEPT !.operationMode = newMode, !.operationType = newType]
        BY <3>1, <3>2, <3>3, ModeAndTypeReplaced
      <3>5. QED
        BY <3>4 DEF f, g
    <2>6. QED
      BY <1>2, <2>4, <2>5
         DEF Abstract!SetOperationType, Abstract!SetModeAndType, q, newMode, newType
  <1>3. QED
    BY <1>1, <1>2

\* Decode knows nothing of air duct, fan, time and date.
LEMMA DecodeSame ==
    ASSUME NEW v \in AllVersions, NEW attr \in {"CONFIG_AIRDUCT", "CONFIG_FAN_EXHAUST", "TIME"},
           NEW bits, Of(v, attr, bits), NEW p, NEW q, Same(p, q, bits)
    PROVE  Decode(v, q) = Decode(v, p)
  <1> DEFINE f == Decode(v, p)
             g == Decode(v, q)
  <1>1. f = [installation |-> f.installation, operationMode |-> f.operationMode,
             operationType |-> f.operationType, targetTemperature |-> f.targetTemperature,
             heatingElement |-> f.heatingElement, emergencyMode |-> f.emergencyMode]
    BY DecodeFields
  <1>2. g = [installation |-> g.installation, operationMode |-> g.operationMode,
             operationType |-> g.operationType, targetTemperature |-> g.targetTemperature,
             heatingElement |-> g.heatingElement, emergencyMode |-> g.emergencyMode]
    BY DecodeFields
  <1>3. /\ g.operationMode = f.operationMode /\ g.operationType = f.operationType
        /\ g.installation = f.installation /\ g.targetTemperature = f.targetTemperature
        /\ g.heatingElement = f.heatingElement /\ g.emergencyMode = f.emergencyMode
    BY DecodeKept
  <1> HIDE DEF f, g
  <1>4. g = f
    BY <1>1, <1>2, <1>3
  <1>5. QED
    BY <1>4 DEF f, g

\* The overrides as Overrides.tla has them.
LEMMA OverrideImplements ==
    ASSUME version \in AllVersions, override \in Overridden, NEW p
    PROVE  /\ Decode(version, AfterTemperature(p)) =
                  Abstract!OverrideTemperature(Decode(version, p))
           /\ Decode(version, AfterInstallation(p)) =
                  Abstract!OverrideInstallation(Decode(version, AfterTemperature(p)))
           /\ Decode(version, AfterAirduct(p)) = Decode(version, AfterInstallation(p))
           /\ Decode(version, AfterMode(p)) =
                  Abstract!OverrideMode(Decode(version, AfterAirduct(p)))
           /\ Decode(version, AfterType(p)) =
                  Abstract!OverrideType(Decode(version, AfterMode(p)))
           /\ Decode(version, AfterElement(p)) =
                  Abstract!OverrideElement(Decode(version, AfterType(p)))
           /\ Decode(version, AfterEmergency(p)) =
                  Abstract!OverrideEmergency(Decode(version, AfterElement(p)))
  <1>1. Decode(version, AfterTemperature(p)) =
            Abstract!OverrideTemperature(Decode(version, p))
    <2> DEFINE value == override.waterTempTarget
    <2>1. CASE value # None /\ value \in Temperatures
      <3>1. AfterTemperature(p) = SetTemperature(version, value, p)
        BY <2>1 DEF AfterTemperature, OverrideTemperature, Temperatures
      <3>2. Abstract!OverrideTemperature(Decode(version, p)) =
                Abstract!SetTargetTemperature(Decode(version, p), value)
        BY <2>1 DEF Abstract!OverrideTemperature, Temperatures, ABSENCE_WATER_TEMPERATURE,
                    MAX_WATER_TEMPERATURE, Abstract!ABSENCE_WATER_TEMPERATURE,
                    Abstract!MAX_WATER_TEMPERATURE
      <3>3. QED
        BY <2>1, <3>1, <3>2, TemperatureImplements
    <2>2. CASE ~(value # None /\ value \in Temperatures)
      BY <2>2 DEF AfterTemperature, OverrideTemperature, Temperatures,
                  Abstract!OverrideTemperature, ABSENCE_WATER_TEMPERATURE,
                  MAX_WATER_TEMPERATURE, Abstract!ABSENCE_WATER_TEMPERATURE,
                  Abstract!MAX_WATER_TEMPERATURE
    <2>3. QED
      BY <2>1, <2>2
  <1>2. Decode(version, AfterInstallation(p)) =
            Abstract!OverrideInstallation(Decode(version, AfterTemperature(p)))
    <2>1. override.configInstallation \in Installations \cup {None}
      BY DEF Overridden
    <2>2. QED
      BY <2>1, InstallationImplements
         DEF AfterInstallation, Abstract!OverrideInstallation, Abstract!Or
  <1>3. Decode(version, AfterAirduct(p)) = Decode(version, AfterInstallation(p))
    <2>1. Decode(version, AfterFan(p)) = Decode(version, AfterInstallation(p))
      <3>1. CASE override.configFanExhaust = None
        BY <3>1 DEF AfterFan
      <3>2. CASE override.configFanExhaust # None
        <4>1. Same(AfterInstallation(p), AfterFan(p), ReadsOf(version, "CONFIG_FAN_EXHAUST"))
          BY <3>2, SetFieldWithin DEF AfterFan
        <4>2. QED
          BY <4>1, ReadsOwned, DecodeSame
      <3>3. QED
        BY <3>1, <3>2
    <2>2. Decode(version, AfterAirduct(p)) = Decode(version, AfterFan(p))
      <3>1. CASE override.configAirduct = None
        BY <3>1 DEF AfterAirduct
      <3>2. CASE override.configAirduct # None
        <4>1. Same(AfterFan(p), AfterAirduct(p), ReadsOf(version, "CONFIG_AIRDUCT"))
          BY <3>2, SetFieldWithin DEF AfterAirduct
        <4>2. QED
          BY <4>1, ReadsOwned, DecodeSame
      <3>3. QED
        BY <3>1, <3>2
    <2>3. QED
      BY <2>1, <2>2
  <1>4. Decode(version, AfterMode(p)) =
            Abstract!OverrideMode(Decode(version, AfterAirduct(p)))
    <2> DEFINE q    == AfterAirduct(p)
               mode == override.operationMode
               r    == SetMode(version, mode, q)
    <2>1. CASE mode = None
      BY <2>1, NoneIsNoMode DEF AfterMode, OverrideMode, Abstract!OverrideMode, Modes
    <2>2. CASE mode # None
      <3>1. mode \in Modes
        BY <2>2 DEF Overridden
      <3>2. Decode(version, r) = Abstract!SetOperationMode(Decode(version, q), mode)
        BY <3>1, ModeImplements
      <3>3. /\ MAX_WATER_TEMPERATURE \in Temperatures
            /\ ABSENCE_WATER_TEMPERATURE \in Temperatures
            /\ Abstract!MAX_WATER_TEMPERATURE = MAX_WATER_TEMPERATURE
            /\ Abstract!ABSENCE_WATER_TEMPERATURE = ABSENCE_WATER_TEMPERATURE
        BY DEF Temperatures, MAX_WATER_TEMPERATURE, ABSENCE_WATER_TEMPERATURE,
               Abstract!MAX_WATER_TEMPERATURE, Abstract!ABSENCE_WATER_TEMPERATURE
      <3>4. CASE mode = "BOOST"
        <4>1. AfterMode(p) = SetTemperature(version, MAX_WATER_TEMPERATURE, r)
          BY <2>2, <3>4 DEF AfterMode, OverrideMode
        <4>2. Abstract!OverrideMode(Decode(version, q)) =
                  Abstract!SetTargetTemperature(
                      Abstract!SetOperationMode(Decode(version, q), mode), MAX_WATER_TEMPERATURE)
          BY <2>2, <3>3, <3>4 DEF Abstract!OverrideMode
        <4>3. QED
          BY <3>2, <3>3, <4>1, <4>2, TemperatureImplements
      <3>5. CASE mode = "ABSENCE"
        <4>1. AfterMode(p) = SetTemperature(version, ABSENCE_WATER_TEMPERATURE, r)
          BY <2>2, <3>5 DEF AfterMode, OverrideMode
        <4>2. Abstract!OverrideMode(Decode(version, q)) =
                  Abstract!SetTargetTemperature(
                      Abstract!SetOperationMode(Decode(version, q), mode), ABSENCE_WATER_TEMPERATURE)
          BY <2>2, <3>3, <3>5 DEF Abstract!OverrideMode
        <4>3. QED
          BY <3>2, <3>3, <4>1, <4>2, TemperatureImplements
      <3>6. CASE mode \notin {"BOOST", "ABSENCE"}
        BY <2>2, <3>2, <3>6 DEF AfterMode, OverrideMode, Abstract!OverrideMode
      <3>7. QED
        BY <3>4, <3>5, <3>6
    <2>3. QED
      BY <2>1, <2>2
  <1>5. Decode(version, AfterType(p)) = Abstract!OverrideType(Decode(version, AfterMode(p)))
    <2>1. override.operationType \in Types \cup {None}
      BY DEF Overridden
    <2>2. QED
      BY <2>1, TypeImplements DEF AfterType, Abstract!OverrideType, Abstract!Or
  <1>6. Decode(version, AfterElement(p)) =
            Abstract!OverrideElement(Decode(version, AfterType(p)))
    <2>1. override.heatingElementEnabled \in BOOLEAN \cup {None}
      BY DEF Overridden
    <2>2. QED
      BY <2>1, ElementImplements DEF AfterElement, Abstract!OverrideElement, Abstract!Or
  <1>7. Decode(version, AfterEmergency(p)) =
            Abstract!OverrideEmergency(Decode(version, AfterElement(p)))
    <2>1. override.emergencyModeEnabled \in BOOLEAN \cup {None}
      BY DEF Overridden
    <2>2. QED
      BY <2>1, EmergencyImplements DEF AfterEmergency, Abstract!OverrideEmergency, Abstract!Or
  <1>8. QED
    BY <1>1, <1>2, <1>3, <1>4, <1>5, <1>6, <1>7

\* Without PV mode.
LEMMA StandardImplements ==
    ASSUME version \in AllVersions, override \in Overridden, NEW p
    PROVE  Decode(version, Standard(p)) = Abstract!Standard(Decode(version, p))
  BY StandardSteps, OverrideImplements DEF Abstract!Standard

\* All three PV modes start alike.
LEMMA PVModeImplements ==
    ASSUME version \in AllVersions, NEW mode \in Modes, NEW p
    PROVE  Decode(version, PVMode(mode, p)) = Abstract!PVMode(Decode(version, p), mode)
  <1> DEFINE q == SetInstallation("HP_ONLY", p)
             r == SetType(version, "ALWAYS_ON", q)
             s == SetMode(version, mode, r)
  <1>1. Decode(version, q) = Abstract!SetInstallation(Decode(version, p), "HP_ONLY")
    BY InstallationImplements DEF Installations
  <1>2. Decode(version, r) = Abstract!SetOperationType(Decode(version, q), "ALWAYS_ON")
    BY TypeImplements DEF Types
  <1>3. Decode(version, s) = Abstract!SetOperationMode(Decode(version, r), mode)
    BY ModeImplements
  <1>4. Decode(version, SetTemperature(version, MAX_WATER_TEMPERATURE, s)) =
            Abstract!SetTargetTemperature(Decode(version, s), MAX_WATER_TEMPERATURE)
    BY TemperatureImplements
       DEF Temperatures, MAX_WATER_TEMPERATURE, ABSENCE_WATER_TEMPERATURE
  <1>5. Abstract!MAX_WATER_TEMPERATURE = MAX_WATER_TEMPERATURE
    BY DEF MAX_WATER_TEMPERATURE, Abstract!MAX_WATER_TEMPERATURE
  <1>6. PVMode(mode, p) = SetTemperature(version, MAX_WATER_TEMPERATURE, s)
    BY DEF PVMode
  <1> HIDE DEF q, r, s
  <1>7. QED
    BY <1>1, <1>2, <1>3, <1>4, <1>5, <1>6 DEF Abstract!PVMode

\* Whatever is in use, what is done to the bytes is what Overrides.tla does to values.
LEMMA ApplyImplements ==
    ASSUME version \in AllVersions, override \in Overridden, hmiFlags \in PVFlags,
           time \in Clock \cup {None}, NEW p
    PROVE  Decode(version, ApplyHMIOverrides(p)) = Abstract!ApplyHMIOverrides(Decode(version, p))
  <1> DEFINE q  == CASE hmiFlags.heatPump /\ hmiFlags.heatElement   -> PVFull(p)
                     [] hmiFlags.heatPump /\ ~hmiFlags.heatElement  -> PVHeatPumpOnly(p)
                     [] ~hmiFlags.heatPump /\ hmiFlags.heatElement  -> PVHeatElementOnly(p)
                     [] ~hmiFlags.heatPump /\ ~hmiFlags.heatElement -> Standard(p)
  <1>1. /\ "BOOST" \in Modes /\ "ECO_ACTIVE" \in Modes /\ "ECO_INACTIVE" \in Modes
        /\ hmiFlags.heatPump \in BOOLEAN /\ hmiFlags.heatElement \in BOOLEAN
    BY DEF Modes, PVFlags
  <1>2. Decode(version, q) = Abstract!ApplyHMIOverrides(Decode(version, p))
    <2>1. CASE hmiFlags.heatPump /\ hmiFlags.heatElement
      <3>1. Decode(version, PVFull(p)) = Abstract!PVFull(Decode(version, p))
        BY <1>1, PVModeImplements DEF PVFull, Abstract!PVFull
      <3>2. q = PVFull(p)
        BY <2>1
      <3> HIDE DEF q
      <3>3. QED
        BY <2>1, <3>1, <3>2 DEF Abstract!ApplyHMIOverrides
    <2>2. CASE hmiFlags.heatPump /\ ~hmiFlags.heatElement
      <3> DEFINE mode == IF version = "ODYSSEE" THEN "ECO_ACTIVE" ELSE "ECO_INACTIVE"
                 r    == PVMode(mode, p)
                 s    == SetEmergency(version, FALSE, r)
                 t    == SetElement(version, FALSE, s)
      <3>1. Decode(version, r) = Abstract!PVMode(Decode(version, p), mode)
        BY <1>1, PVModeImplements
      <3>2. Decode(version, s) = Abstract!SetEmergencyMode(Decode(version, r), FALSE)
        BY EmergencyImplements
      <3>3. Decode(version, t) = Abstract!SetHeatingElement(Decode(version, s), FALSE)
        BY ElementImplements
      <3>4. q = t
        BY <2>2 DEF PVHeatPumpOnly
      <3> HIDE DEF q, s, r, t
      <3>5. QED
        BY <2>2, <3>1, <3>2, <3>3, <3>4
           DEF Abstract!ApplyHMIOverrides, Abstract!PVHeatPumpOnly
    <2>3. CASE ~hmiFlags.heatPump /\ hmiFlags.heatElement
      <3> DEFINE r == PVMode("ECO_INACTIVE", p)
                 s == SetEmergency(version, TRUE, r)
                 t == SetElement(version, TRUE, s)
      <3>1. Decode(version, r) = Abstract!PVMode(Decode(version, p), "ECO_INACTIVE")
        BY <1>1, PVModeImplements
      <3>2. Decode(version, s) = Abstract!SetEmergencyMode(Decode(version, r), TRUE)
        BY EmergencyImplements
      <3>3. Decode(version, t) = Abstract!SetHeatingElement(Decode(version, s), TRUE)
        BY ElementImplements
      <3>4. q = t
        BY <2>3 DEF PVHeatElementOnly
      <3> HIDE DEF q, s, r, t
      <3>5. QED
        BY <2>3, <3>1, <3>2, <3>3, <3>4
           DEF Abstract!ApplyHMIOverrides, Abstract!PVHeatElementOnly
    <2>4. CASE ~hmiFlags.heatPump /\ ~hmiFlags.heatElement
      <3>1. q = Standard(p)
        BY <2>4
      <3> HIDE DEF q
      <3>2. QED
        BY <2>4, <3>1, StandardImplements DEF Abstract!ApplyHMIOverrides
    <2>5. QED
      BY <1>1, <2>1, <2>2, <2>3, <2>4
  <1>3. Decode(version, ApplyHMIOverrides(p)) = Decode(version, q)
    <2> HIDE DEF q
    <2>1. CASE time = None
      BY <2>1 DEF ApplyHMIOverrides, q
    <2>2. CASE time # None
      <3>1. ApplyHMIOverrides(p) = SetTime(version, time, q)
        BY <2>2 DEF ApplyHMIOverrides, q
      <3>2. Same(q, SetTime(version, time, q), TimeBits(version))
        BY <2>2, SetTimeWithin
      <3>3. QED
        BY <3>1, <3>2, ReadsOwned, DecodeSame
    <2>3. QED
      BY <2>1, <2>2
  <1> HIDE DEF q
  <1>4. QED
    BY <1>2, <1>3

-----------------------------------------------------------------------------
(* The bytes implement the values                                          *)

\* The overrides Overrides.tla has.
Mapped ==
    [installation      |-> override.configInstallation,
     operationMode     |-> override.operationMode,
     operationType     |-> override.operationType,
     targetTemperature |-> override.waterTempTarget,
     heatingElement    |-> override.heatingElementEnabled,
     emergencyMode     |-> override.emergencyModeEnabled]

MappedAttrs == {"installation", "operationMode", "operationType", "targetTemperature",
                "heatingElement", "emergencyMode"}

\* There are no more than six of them.
LEMMA AtMostSix == Abstract!Cardinality(Abstract!InForce') <= 6
  <1>1. \A S : Abstract!Cardinality(S) = Cardinality(S)
    BY DEF Abstract!Cardinality, Cardinality
  <1>2. IsFiniteSet(MappedAttrs) /\ Cardinality(MappedAttrs) <= 6 /\ Cardinality(MappedAttrs) \in Nat
    <2> DEFINE a == {} \cup {"installation"}
               b == a \cup {"operationMode"}
               c == b \cup {"operationType"}
               d == c \cup {"targetTemperature"}
               e == d \cup {"heatingElement"}
               f == e \cup {"emergencyMode"}
    <2>1. MappedAttrs = f
      BY DEF MappedAttrs
    <2>2. IsFiniteSet(a) /\ Cardinality(a) \in 0 .. 1
      BY FS_EmptySet, FS_AddElement
    <2> HIDE DEF a
    <2>3. IsFiniteSet(b) /\ Cardinality(b) \in 0 .. 2
      BY <2>2, FS_AddElement
    <2> HIDE DEF b
    <2>4. IsFiniteSet(c) /\ Cardinality(c) \in 0 .. 3
      BY <2>3, FS_AddElement
    <2> HIDE DEF c
    <2>5. IsFiniteSet(d) /\ Cardinality(d) \in 0 .. 4
      BY <2>4, FS_AddElement
    <2> HIDE DEF d
    <2>6. IsFiniteSet(e) /\ Cardinality(e) \in 0 .. 5
      BY <2>5, FS_AddElement
    <2> HIDE DEF e
    <2>7. IsFiniteSet(f) /\ Cardinality(f) \in 0 .. 6
      BY <2>6, FS_AddElement
    <2> HIDE DEF f
    <2>8. QED
      BY <2>1, <2>7
  <1>3. Abstract!InForce' \subseteq MappedAttrs
    BY DEF Abstract!InForce, MappedAttrs
  <1>4. Cardinality(Abstract!InForce') <= Cardinality(MappedAttrs)
    BY <1>2, <1>3, FS_Subset
  <1>5. Cardinality(Abstract!InForce') \in Nat
    BY <1>2, <1>3, FS_Subset, FS_CardinalityType
  <1>6. QED
    BY <1>1, <1>2, <1>4, <1>5

\* The values Overrides.tla has an override take.
MappedValues ==
    [installation      |-> DOMAIN LegacyFields.STATE_INSTALLATION_MODE.code,
     operationMode     |-> DOMAIN Strings.operationMode,
     operationType     |-> DOMAIN Strings.operationType,
     targetTemperature |-> TargetTemperatures,
     heatingElement    |-> BOOLEAN,
     emergencyMode     |-> BOOLEAN]

\* An override that is set or ended is so in Overrides.tla.
LEMMA MappedSet ==
    ASSUME received = None, UNCHANGED <<version, hmiFlags, mainFlags, received, sent>>,
           NEW attr \in MappedAttrs, NEW value \in MappedValues[attr] \cup {None},
           Mapped' = [Mapped EXCEPT ![attr] = value]
    PROVE  Abstract!OnOverride
  <1>1. UNCHANGED Decode(version, sent)
    BY DEF Decode
  <1>2. CASE attr = "installation"
    <2>1. value \in DOMAIN LegacyFields.STATE_INSTALLATION_MODE.code \cup {None}
      BY <1>2 DEF MappedValues
    <2>2. Mapped' = [Mapped EXCEPT !.installation = value]
      BY <1>2
    <2>3. QED
      BY <1>1, <2>1, <2>2, AtMostSix DEF Abstract!OnOverride, Mapped
  <1>3. CASE attr = "operationMode"
    <2>1. value \in DOMAIN Strings.operationMode \cup {None}
      BY <1>3 DEF MappedValues
    <2>2. Mapped' = [Mapped EXCEPT !.operationMode = value]
      BY <1>3
    <2>3. QED
      BY <1>1, <2>1, <2>2, AtMostSix DEF Abstract!OnOverride, Mapped
  <1>4. CASE attr = "operationType"
    <2>1. value \in DOMAIN Strings.operationType \cup {None}
      BY <1>4 DEF MappedValues
    <2>2. Mapped' = [Mapped EXCEPT !.operationType = value]
      BY <1>4
    <2>3. QED
      BY <1>1, <2>1, <2>2, AtMostSix DEF Abstract!OnOverride, Mapped
  <1>5. CASE attr = "targetTemperature"
    <2>1. value \in TargetTemperatures \cup {None}
      BY <1>5 DEF MappedValues
    <2>2. Mapped' = [Mapped EXCEPT !.targetTemperature = value]
      BY <1>5
    <2>3. QED
      BY <1>1, <2>1, <2>2, AtMostSix DEF Abstract!OnOverride, Mapped
  <1>6. CASE attr = "heatingElement"
    <2>1. value \in BOOLEAN \cup {None}
      BY <1>6 DEF MappedValues
    <2>2. Mapped' = [Mapped EXCEPT !.heatingElement = value]
      BY <1>6
    <2>3. QED
      BY <1>1, <2>1, <2>2, AtMostSix DEF Abstract!OnOverride, Mapped
  <1>7. CASE attr = "emergencyMode"
    <2>1. value \in BOOLEAN \cup {None}
      BY <1>7 DEF MappedValues
    <2>2. Mapped' = [Mapped EXCEPT !.emergencyMode = value]
      BY <1>7
    <2>3. QED
      BY <1>1, <2>1, <2>2, AtMostSix DEF Abstract!OnOverride, Mapped
  <1>8. QED
    BY <1>2, <1>3, <1>4, <1>5, <1>6, <1>7 DEF MappedAttrs

\* Air duct and fan are the two overrides Overrides.tla has not.
MappedAttr ==
    [configInstallation    |-> "installation",
     operationMode         |-> "operationMode",
     operationType         |-> "operationType",
     waterTempTarget       |-> "targetTemperature",
     heatingElementEnabled |-> "heatingElement",
     emergencyModeEnabled  |-> "emergencyMode"]

\* To set one override is to set one or none in Overrides.tla.
LEMMA MappedOne ==
    ASSUME override \in Overridden, NEW topic \in Topics, NEW value,
           override' = [override EXCEPT ![topic] = value]
    PROVE  IF topic \in DOMAIN MappedAttr
           THEN Mapped' = [Mapped EXCEPT ![MappedAttr[topic]] = value] ELSE Mapped' = Mapped
  <1>1. DOMAIN override = Topics
    BY DEF Overridden, Topics
  <1>2. \A other \in Topics : override'[other] = IF other = topic THEN value ELSE override[other]
    BY <1>1
  <1>3. Mapped' = [installation      |-> IF topic = "configInstallation" THEN value
                                         ELSE override.configInstallation,
                   operationMode     |-> IF topic = "operationMode" THEN value
                                         ELSE override.operationMode,
                   operationType     |-> IF topic = "operationType" THEN value
                                         ELSE override.operationType,
                   targetTemperature |-> IF topic = "waterTempTarget" THEN value
                                         ELSE override.waterTempTarget,
                   heatingElement    |-> IF topic = "heatingElementEnabled" THEN value
                                         ELSE override.heatingElementEnabled,
                   emergencyMode     |-> IF topic = "emergencyModeEnabled" THEN value
                                         ELSE override.emergencyModeEnabled]
    BY <1>2 DEF Mapped, Topics
  <1>4. CASE topic = "configInstallation"
    BY <1>3, <1>4 DEF Mapped, MappedAttr
  <1>5. CASE topic = "operationMode"
    BY <1>3, <1>5 DEF Mapped, MappedAttr
  <1>6. CASE topic = "operationType"
    BY <1>3, <1>6 DEF Mapped, MappedAttr
  <1>7. CASE topic = "waterTempTarget"
    BY <1>3, <1>7 DEF Mapped, MappedAttr
  <1>8. CASE topic = "heatingElementEnabled"
    BY <1>3, <1>8 DEF Mapped, MappedAttr
  <1>9. CASE topic = "emergencyModeEnabled"
    BY <1>3, <1>9 DEF Mapped, MappedAttr
  <1>10. CASE topic \in {"configFanExhaust", "configAirduct"}
    BY <1>3, <1>10 DEF Mapped, MappedAttr
  <1>11. QED
    BY <1>4, <1>5, <1>6, <1>7, <1>8, <1>9, <1>10 DEF Topics

\* Options, temperatures, and the end of an override.
LEMMA OptionImplements ==
    ASSUME Inv, NEW topic \in DOMAIN Attribute, OnOption(topic)
    PROVE  Abstract!OnOverride \/ Mapped' = Mapped
  <1>1. PICK option : override' = [override EXCEPT ![topic] = Selected(topic, option)]
    BY DEF OnOption
  <1> DEFINE value == Selected(topic, option)
  <1>2. [override EXCEPT ![topic] = value] \in Overridden
    BY SelectedTyped DEF Inv
  <1>3. DOMAIN override = Topics /\ topic \in Topics /\ override \in Overridden
    BY DEF Inv, Overridden, Topics, Attribute
  <1>4. override'[topic] = value /\ override' \in Overridden
    BY <1>1, <1>2, <1>3
  <1> HIDE DEF value
  <1>5. CASE topic \notin DOMAIN MappedAttr
    BY <1>1, <1>3, <1>5, MappedOne DEF value
  <1>6. CASE topic \in DOMAIN MappedAttr
    <2> DEFINE attr == MappedAttr[topic]
    <2>1. Mapped' = [Mapped EXCEPT ![attr] = value]
      BY <1>1, <1>3, <1>6, MappedOne DEF value
    <2>2. attr \in MappedAttrs
      BY <1>6 DEF MappedAttr, MappedAttrs
    <2>3. value \in MappedValues[attr] \cup {None}
      BY <1>4, <1>6 DEF Overridden, MappedAttr, MappedValues, Modes, Types, Installations,
                        Strings, LegacyFields, Field
    <2>4. received = None /\ UNCHANGED <<version, hmiFlags, mainFlags, received, sent>>
      BY DEF OnOption
    <2> HIDE DEF attr
    <2>5. QED
      BY <2>1, <2>2, <2>3, <2>4, MappedSet
  <1>7. QED
    BY <1>5, <1>6

\* A temperature that is asked for, or none.
LEMMA TargetImplements ==
    ASSUME Inv, OnWaterTempTarget
    PROVE  Abstract!OnOverride
  <1>1. PICK value \in TargetTemperatures \cup {None} :
            override' = [override EXCEPT !.waterTempTarget = value]
    BY DEF OnWaterTempTarget
  <1>2. Mapped' = [Mapped EXCEPT !.targetTemperature = value]
    BY <1>1, MappedOne DEF Inv, Topics, MappedAttr
  <1>3. value \in MappedValues["targetTemperature"] \cup {None}
    BY DEF MappedValues
  <1>4. received = None /\ UNCHANGED <<version, hmiFlags, mainFlags, received, sent>>
    BY DEF OnWaterTempTarget
  <1>5. QED
    BY <1>2, <1>3, <1>4, MappedSet DEF MappedAttrs

\* The setters do to the bytes of any frame, in every version of the protocol,
\* what Overrides.tla says they do to the values: what is proved there of the
\* controller's frame holds of the bytes.
THEOREM BytesImplementValues == Spec => ImplementsOverrides
<1> DEFINE Image == <<version, Mapped, hmiFlags, mainFlags, received, Decode(version, sent)>>
<1>1. Init => Abstract!Init
  <2> SUFFICES ASSUME Init
               PROVE  Abstract!Init
    OBVIOUS
  <2>1. Decode(version, sent) \in DecodedFrames
    BY DEF Init, DecodedFrames
  <2>2. Mapped = Abstract!NoOverride
    BY DEF Init, Topics, Mapped, Abstract!NoOverride
  <2>3. QED
    BY <2>1, <2>2 DEF Init, Abstract!Init, Mapped
<1>2. Inv /\ [Next]_vars => [Abstract!Next]_Image
  <2> SUFFICES ASSUME Inv, [Next]_vars
               PROVE  Abstract!Next \/ UNCHANGED Image
    OBVIOUS
  <2>1. ASSUME NEW topic \in DOMAIN Attribute, OnOption(topic)
        PROVE  Abstract!Next \/ UNCHANGED Image
    <3>1. UNCHANGED <<version, hmiFlags, mainFlags, received, Decode(version, sent)>>
      BY <2>1 DEF OnOption, Decode
    <3>2. QED
      BY <2>1, <3>1, OptionImplements DEF Abstract!Next
  <2>2. CASE OnWaterTempTarget
    BY <2>2, TargetImplements DEF Abstract!Next
  <2>3. CASE OnResetOverrides
    <3>1. Mapped' = Abstract!NoOverride
      BY <2>3 DEF OnResetOverrides, Topics, Mapped, Abstract!NoOverride
    <3>2. QED
      BY <2>3, <3>1 DEF OnResetOverrides, Abstract!OnResetOverrides, Abstract!Next, Mapped, Decode
  <2>4. ASSUME NEW flag \in {"heatPump", "heatElement"}, NEW enabled \in BOOLEAN,
               OnPVModeEnabled(flag, enabled)
        PROVE  Abstract!Next
    <3>1. UNCHANGED Mapped /\ UNCHANGED Decode(version, sent)
      BY <2>4 DEF OnPVModeEnabled, Mapped, Decode
    <3>2. QED
      BY <2>4, <3>1 DEF OnPVModeEnabled, Abstract!OnPVModeEnabled, Abstract!Next, Mapped
  <2>5. CASE MainOnPVModeEnabled
    <3>1. UNCHANGED Mapped /\ UNCHANGED Decode(version, sent)
      BY <2>5 DEF MainOnPVModeEnabled, Mapped, Decode
    <3>2. QED
      BY <2>5, <3>1 DEF MainOnPVModeEnabled, Abstract!MainOnPVModeEnabled, Abstract!Next, Mapped
  <2>6. CASE UpdateTime
    BY <2>6 DEF UpdateTime, Mapped, Decode
  <2>7. ASSUME NEW frame \in Frames[version], SendHmiFrame(frame)
        PROVE  Abstract!Next
    <3>1. UNCHANGED <<version, Mapped, hmiFlags, mainFlags, received>>
      BY <2>7 DEF SendHmiFrame, Mapped
    <3>2. Decode(version, frame) \in DecodedFrames
      BY DEF Inv, DecodedFrames
    <3>3. Decode(version, sent)' = Abstract!ApplyHMIOverrides(Decode(version, frame))
      <4>1. Decode(version, ApplyHMIOverrides(frame)) =
                Abstract!ApplyHMIOverrides(Decode(version, frame))
        BY KnownVersion, ApplyImplements DEF Inv
      <4>2. Decode(version, sent)' = Decode(version, ApplyHMIOverrides(frame))
        BY <2>7 DEF SendHmiFrame, Decode
      <4>3. QED
        BY <4>1, <4>2
    <3>4. QED
      BY <3>1, <3>2, <3>3 DEF Abstract!SendHmiFrame, Abstract!Next, Mapped
  <2>8. CASE UNCHANGED vars
    BY <2>8 DEF vars, Mapped, Decode
  <2>9. QED
    BY <2>1, <2>2, <2>3, <2>4, <2>5, <2>6, <2>7, <2>8 DEF Next
<1>3. QED
  BY <1>1, <1>2, InvInit, InvNext, PTL
     DEF Spec, ImplementsOverrides, Abstract!Spec, Abstract!vars, Image, Mapped

-----------------------------------------------------------------------------
(* What is selected is shown                                               *)

IsFrame(f) ==
    f = [installation |-> f.installation, operationMode |-> f.operationMode,
         operationType |-> f.operationType, targetTemperature |-> f.targetTemperature,
         heatingElement |-> f.heatingElement, emergencyMode |-> f.emergencyMode]

\* The value of a temperature that is set.
Stored(value) == IF version = "LEGACY" THEN Tenths(value) ELSE 10 * (value \div 10)

\* The setters of Overrides.tla, field by field.
LEMMA SetterFields ==
    ASSUME NEW f, IsFrame(f), NEW value
    PROVE  /\ Abstract!SetInstallation(f, value) =
                  [installation |-> IF version = "ODYSSEE" THEN f.installation ELSE value,
                   operationMode |-> f.operationMode, operationType |-> f.operationType,
                   targetTemperature |-> f.targetTemperature,
                   heatingElement |-> f.heatingElement, emergencyMode |-> f.emergencyMode]
           /\ Abstract!SetTargetTemperature(f, value) =
                  [installation |-> f.installation,
                   operationMode |-> f.operationMode, operationType |-> f.operationType,
                   targetTemperature |-> Stored(value),
                   heatingElement |-> f.heatingElement, emergencyMode |-> f.emergencyMode]
           /\ Abstract!SetHeatingElement(f, value) =
                  [installation |-> f.installation,
                   operationMode |-> f.operationMode, operationType |-> f.operationType,
                   targetTemperature |-> f.targetTemperature,
                   heatingElement |-> IF version = "ODYSSEE" \/ (~value /\ f.emergencyMode)
                                      THEN f.heatingElement ELSE value,
                   emergencyMode |-> f.emergencyMode]
           /\ Abstract!SetEmergencyMode(f, value) =
                  [installation |-> f.installation,
                   operationMode |-> f.operationMode, operationType |-> f.operationType,
                   targetTemperature |-> f.targetTemperature,
                   heatingElement |-> f.heatingElement,
                   emergencyMode |-> IF version # "ODYSSEE" /\ value /\ ~f.heatingElement
                                     THEN f.emergencyMode ELSE value]
  <1>1. \A x : [f EXCEPT !.installation = x] =
                  [installation |-> x,
                   operationMode |-> f.operationMode, operationType |-> f.operationType,
                   targetTemperature |-> f.targetTemperature,
                   heatingElement |-> f.heatingElement, emergencyMode |-> f.emergencyMode]
    BY DEF IsFrame
  <1>2. \A x : [f EXCEPT !.targetTemperature = x] =
                  [installation |-> f.installation,
                   operationMode |-> f.operationMode, operationType |-> f.operationType,
                   targetTemperature |-> x,
                   heatingElement |-> f.heatingElement, emergencyMode |-> f.emergencyMode]
    BY DEF IsFrame
  <1>3. \A x : [f EXCEPT !.heatingElement = x] =
                  [installation |-> f.installation,
                   operationMode |-> f.operationMode, operationType |-> f.operationType,
                   targetTemperature |-> f.targetTemperature,
                   heatingElement |-> x, emergencyMode |-> f.emergencyMode]
    BY DEF IsFrame
  <1>4. \A x : [f EXCEPT !.emergencyMode = x] =
                  [installation |-> f.installation,
                   operationMode |-> f.operationMode, operationType |-> f.operationType,
                   targetTemperature |-> f.targetTemperature,
                   heatingElement |-> f.heatingElement, emergencyMode |-> x]
    BY DEF IsFrame
  <1>5. Abstract!HMI!Tenths(value) = Tenths(value)
    BY DEF Abstract!HMI!Tenths, Abstract!HMI!FallsShort, Tenths, FallsShort
  <1>6. /\ Abstract!SetInstallation(f, value) =
               IF version = "ODYSSEE" THEN f ELSE [f EXCEPT !.installation = value]
        /\ Abstract!SetTargetTemperature(f, value) = [f EXCEPT !.targetTemperature = Stored(value)]
        /\ Abstract!SetHeatingElement(f, value) =
               IF version = "ODYSSEE" \/ (~value /\ f.emergencyMode) THEN f
               ELSE [f EXCEPT !.heatingElement = value]
        /\ Abstract!SetEmergencyMode(f, value) =
               IF version # "ODYSSEE" /\ value /\ ~f.heatingElement THEN f
               ELSE [f EXCEPT !.emergencyMode = value]
    BY <1>5 DEF Abstract!SetInstallation, Abstract!SetTargetTemperature,
                Abstract!SetHeatingElement, Abstract!SetEmergencyMode, Stored
  <1>7. Abstract!SetInstallation(f, value) =
                  [installation |-> IF version = "ODYSSEE" THEN f.installation ELSE value,
                   operationMode |-> f.operationMode, operationType |-> f.operationType,
                   targetTemperature |-> f.targetTemperature,
                   heatingElement |-> f.heatingElement, emergencyMode |-> f.emergencyMode]
    BY <1>1, <1>6 DEF IsFrame
  <1>8. Abstract!SetTargetTemperature(f, value) =
                  [installation |-> f.installation,
                   operationMode |-> f.operationMode, operationType |-> f.operationType,
                   targetTemperature |-> Stored(value),
                   heatingElement |-> f.heatingElement, emergencyMode |-> f.emergencyMode]
    BY <1>2, <1>6
  <1>9. Abstract!SetHeatingElement(f, value) =
                  [installation |-> f.installation,
                   operationMode |-> f.operationMode, operationType |-> f.operationType,
                   targetTemperature |-> f.targetTemperature,
                   heatingElement |-> IF version = "ODYSSEE" \/ (~value /\ f.emergencyMode)
                                      THEN f.heatingElement ELSE value,
                   emergencyMode |-> f.emergencyMode]
    <2>1. CASE version = "ODYSSEE" \/ (~value /\ f.emergencyMode)
      BY <1>6, <2>1 DEF IsFrame
    <2>2. CASE ~(version = "ODYSSEE" \/ (~value /\ f.emergencyMode))
      BY <1>3, <1>6, <2>2
    <2>3. QED
      BY <2>1, <2>2
  <1>10. Abstract!SetEmergencyMode(f, value) =
                  [installation |-> f.installation,
                   operationMode |-> f.operationMode, operationType |-> f.operationType,
                   targetTemperature |-> f.targetTemperature,
                   heatingElement |-> f.heatingElement,
                   emergencyMode |-> IF version # "ODYSSEE" /\ value /\ ~f.heatingElement
                                     THEN f.emergencyMode ELSE value]
    <2>1. CASE version # "ODYSSEE" /\ value /\ ~f.heatingElement
      BY <1>6, <2>1 DEF IsFrame
    <2>2. CASE ~(version # "ODYSSEE" /\ value /\ ~f.heatingElement)
      BY <1>4, <1>6, <2>2
    <2>3. QED
      BY <2>1, <2>2
  <1>11. QED
    BY <1>7, <1>8, <1>9, <1>10

\* Mode and type, of which ODYSSEE must know both.
LEMMA ModeAndTypeFields ==
    ASSUME NEW f, IsFrame(f), NEW mode, NEW type
    PROVE  Abstract!SetModeAndType(f, mode, type) =
               [installation |-> f.installation,
                operationMode |-> IF version = "ODYSSEE" /\ "UNKNOWN" \in {mode, type}
                                  THEN "AUTO" ELSE mode,
                operationType |-> IF version = "ODYSSEE" /\ "UNKNOWN" \in {mode, type}
                                  THEN "OFF_PEAK_HOURS" ELSE type,
                targetTemperature |-> f.targetTemperature,
                heatingElement |-> f.heatingElement, emergencyMode |-> f.emergencyMode]
  <1>1. \A x, y : [f EXCEPT !.operationMode = x, !.operationType = y] =
                      [installation |-> f.installation, operationMode |-> x, operationType |-> y,
                       targetTemperature |-> f.targetTemperature,
                       heatingElement |-> f.heatingElement, emergencyMode |-> f.emergencyMode]
    <2> SUFFICES ASSUME NEW x, NEW y
                 PROVE  [f EXCEPT !.operationMode = x, !.operationType = y] =
                      [installation |-> f.installation, operationMode |-> x, operationType |-> y,
                       targetTemperature |-> f.targetTemperature,
                       heatingElement |-> f.heatingElement, emergencyMode |-> f.emergencyMode]
      OBVIOUS
    <2> DEFINE g == [installation |-> f.installation, operationMode |-> x, operationType |-> y,
                     targetTemperature |-> f.targetTemperature,
                     heatingElement |-> f.heatingElement, emergencyMode |-> f.emergencyMode]
    <2>1. /\ g = [installation |-> g.installation, operationMode |-> g.operationMode,
                  operationType |-> g.operationType, targetTemperature |-> g.targetTemperature,
                  heatingElement |-> g.heatingElement, emergencyMode |-> g.emergencyMode]
          /\ g.operationMode = x /\ g.operationType = y
          /\ g.installation = f.installation /\ g.targetTemperature = f.targetTemperature
          /\ g.heatingElement = f.heatingElement /\ g.emergencyMode = f.emergencyMode
      OBVIOUS
    <2> HIDE DEF g
    <2>2. g = [f EXCEPT !.operationMode = x, !.operationType = y]
      BY <2>1, ModeAndTypeReplaced DEF IsFrame
    <2>3. QED
      BY <2>2 DEF g
  <1>2. QED
    BY <1>1 DEF Abstract!SetModeAndType

\* Both are known, or need not be.
Known(f) == version # "ODYSSEE" \/ "UNKNOWN" \notin {f.operationMode, f.operationType}

\* What the overrides leave in a frame of values.
LEMMA StandardValues ==
    ASSUME override \in Overridden, NEW f, IsFrame(f)
    PROVE  LET h == Abstract!Standard(f) IN
           /\ override.configInstallation # None /\ version # "ODYSSEE" =>
                 h.installation = override.configInstallation
           /\ override.operationMode # None /\ Known(f) =>
                 h.operationMode = override.operationMode
           /\ (override.operationType # None /\ Known(f)
                  /\ (version = "ODYSSEE" \/ override.operationType # "OFF_PEAK_HOURS")) =>
                 h.operationType = override.operationType
           /\ override.heatingElementEnabled # None /\ version # "ODYSSEE" =>
                 \/ h.heatingElement = override.heatingElementEnabled
                 \/ override.heatingElementEnabled = FALSE /\ f.emergencyMode
           /\ override.emergencyModeEnabled # None =>
                 \/ h.emergencyMode = override.emergencyModeEnabled
                 \/ override.emergencyModeEnabled = TRUE /\ version # "ODYSSEE" /\ ~h.heatingElement
           /\ (override.waterTempTarget # None /\ override.waterTempTarget \in Temperatures
                  /\ override.operationMode \notin {"BOOST", "ABSENCE"}) =>
                 h.targetTemperature = Stored(override.waterTempTarget)
  <1> DEFINE t == Abstract!OverrideTemperature(f)
             i == Abstract!OverrideInstallation(t)
             m == Abstract!OverrideMode(i)
             y == Abstract!OverrideType(m)
             e == Abstract!OverrideElement(y)
             h == Abstract!OverrideEmergency(e)
  <1>1. /\ IsFrame(t)
        /\ t.operationMode = f.operationMode /\ t.operationType = f.operationType
        /\ t.emergencyMode = f.emergencyMode
        /\ override.waterTempTarget # None /\ override.waterTempTarget \in Temperatures =>
              t.targetTemperature = Stored(override.waterTempTarget)
    <2>1. t = IF override.waterTempTarget # None /\ override.waterTempTarget \in Temperatures
              THEN Abstract!SetTargetTemperature(f, override.waterTempTarget) ELSE f
      BY DEF Abstract!OverrideTemperature, Temperatures, ABSENCE_WATER_TEMPERATURE,
             MAX_WATER_TEMPERATURE, Abstract!ABSENCE_WATER_TEMPERATURE,
             Abstract!MAX_WATER_TEMPERATURE
    <2> HIDE DEF t
    <2>2. CASE override.waterTempTarget # None /\ override.waterTempTarget \in Temperatures
      BY <2>1, <2>2, SetterFields DEF IsFrame
    <2>3. CASE ~(override.waterTempTarget # None /\ override.waterTempTarget \in Temperatures)
      BY <2>1, <2>3
    <2>4. QED
      BY <2>2, <2>3
  <1>2. /\ IsFrame(i)
        /\ i.operationMode = f.operationMode /\ i.operationType = f.operationType
        /\ i.emergencyMode = f.emergencyMode /\ i.targetTemperature = t.targetTemperature
        /\ override.configInstallation # None /\ version # "ODYSSEE" =>
              i.installation = override.configInstallation
    <2>1. i = IF override.configInstallation = None THEN t
              ELSE Abstract!SetInstallation(t, override.configInstallation)
      BY DEF Abstract!OverrideInstallation, Abstract!Or
    <2> HIDE DEF t, i
    <2>2. CASE override.configInstallation = None
      BY <1>1, <2>1, <2>2
    <2>3. CASE override.configInstallation # None
      BY <1>1, <2>1, <2>3, SetterFields DEF IsFrame
    <2>4. QED
      BY <2>2, <2>3
  <1>3. /\ IsFrame(m)
        /\ m.emergencyMode = f.emergencyMode /\ m.installation = i.installation
        /\ override.operationMode \notin {"BOOST", "ABSENCE"} =>
              m.targetTemperature = t.targetTemperature
        /\ Known(f) => /\ m.operationMode = IF override.operationMode = None THEN f.operationMode
                                             ELSE override.operationMode
                       /\ m.operationType = f.operationType
    <2> DEFINE mode == override.operationMode
               s == Abstract!SetModeAndType(i, mode, i.operationType)
    <2> HIDE DEF t, i
    <2>1. CASE mode = None
      <3>1. m = i
        BY <2>1, NoneIsNoMode DEF Abstract!OverrideMode, Modes
      <3> HIDE DEF m
      <3>2. QED
        BY <1>2, <2>1, <3>1
    <2>2. CASE mode # None
      <3>1. mode # "UNKNOWN"
        BY <2>2 DEF Overridden, Modes
      <3>2. /\ IsFrame(s) /\ s.emergencyMode = f.emergencyMode /\ s.installation = i.installation
            /\ s.targetTemperature = t.targetTemperature
            /\ Known(f) => s.operationMode = mode /\ s.operationType = f.operationType
        <4>1. Known(f) => ~(version = "ODYSSEE" /\ "UNKNOWN" \in {mode, i.operationType})
          BY <1>2, <3>1 DEF Known
        <4> HIDE DEF s
        <4>2. s = [installation |-> i.installation,
                   operationMode |-> IF version = "ODYSSEE" /\ "UNKNOWN" \in {mode, i.operationType}
                                     THEN "AUTO" ELSE mode,
                   operationType |-> IF version = "ODYSSEE" /\ "UNKNOWN" \in {mode, i.operationType}
                                     THEN "OFF_PEAK_HOURS" ELSE i.operationType,
                   targetTemperature |-> i.targetTemperature,
                   heatingElement |-> i.heatingElement, emergencyMode |-> i.emergencyMode]
          BY <1>2, ModeAndTypeFields DEF s
        <4>3. QED
          BY <1>2, <4>1, <4>2 DEF IsFrame
      <3>3. CASE mode \in {"BOOST", "ABSENCE"}
        <4>1. PICK value : m = Abstract!SetTargetTemperature(s, value)
          <5>1. CASE mode = "BOOST"
            BY <2>2, <5>1 DEF Abstract!OverrideMode, Abstract!SetOperationMode
          <5>2. CASE mode = "ABSENCE"
            BY <2>2, <5>2 DEF Abstract!OverrideMode, Abstract!SetOperationMode
          <5>3. QED
            BY <3>3, <5>1, <5>2
        <4> HIDE DEF s, m
        <4>2. m = [installation |-> s.installation,
                   operationMode |-> s.operationMode, operationType |-> s.operationType,
                   targetTemperature |-> Stored(value),
                   heatingElement |-> s.heatingElement, emergencyMode |-> s.emergencyMode]
          BY <3>2, <4>1, SetterFields
        <4>3. /\ IsFrame(m)
              /\ m.emergencyMode = s.emergencyMode /\ m.installation = s.installation
              /\ m.operationMode = s.operationMode /\ m.operationType = s.operationType
          BY <4>2 DEF IsFrame
        <4>4. QED
          BY <2>2, <3>2, <3>3, <4>3
      <3>4. CASE mode \notin {"BOOST", "ABSENCE"}
        <4>1. m = s
          BY <2>2, <3>4 DEF Abstract!OverrideMode, Abstract!SetOperationMode
        <4> HIDE DEF s, m
        <4>2. QED
          BY <2>2, <3>2, <4>1
      <3>5. QED
        BY <3>3, <3>4
    <2>3. QED
      BY <2>1, <2>2
  <1>4. /\ IsFrame(y)
        /\ y.emergencyMode = f.emergencyMode /\ y.installation = i.installation
        /\ y.targetTemperature = m.targetTemperature
        /\ Known(f) => y.operationMode = m.operationMode
        /\ (override.operationType # None /\ Known(f)
               /\ (version = "ODYSSEE" \/ override.operationType # "OFF_PEAK_HOURS")) =>
              y.operationType = override.operationType
    <2> DEFINE type == override.operationType
               s == Abstract!SetModeAndType(m, m.operationMode, type)
    <2>0. y = IF type = None \/ (version # "ODYSSEE" /\ type = "OFF_PEAK_HOURS") THEN m ELSE s
      BY DEF Abstract!OverrideType, Abstract!Or, Abstract!SetOperationType
    <2> HIDE DEF t, i, m, y
    <2>1. CASE type = None \/ (version # "ODYSSEE" /\ type = "OFF_PEAK_HOURS")
      <3> HIDE DEF s
      <3>1. QED
        BY <1>3, <2>0, <2>1
    <2>2. CASE ~(type = None \/ (version # "ODYSSEE" /\ type = "OFF_PEAK_HOURS"))
      <3>1. type # "UNKNOWN"
        BY <2>2 DEF Overridden, Types
      <3>2. Known(f) => ~(version = "ODYSSEE" /\ "UNKNOWN" \in {m.operationMode, type})
        <4>1. override.operationMode # "UNKNOWN" \/ override.operationMode = None
          BY DEF Overridden, Modes
        <4>2. QED
          BY <1>3, <3>1, <4>1 DEF Known
      <3> HIDE DEF s
      <3>3. s = [installation |-> m.installation,
                 operationMode |-> IF version = "ODYSSEE" /\ "UNKNOWN" \in {m.operationMode, type}
                                   THEN "AUTO" ELSE m.operationMode,
                 operationType |-> IF version = "ODYSSEE" /\ "UNKNOWN" \in {m.operationMode, type}
                                   THEN "OFF_PEAK_HOURS" ELSE type,
                 targetTemperature |-> m.targetTemperature,
                 heatingElement |-> m.heatingElement, emergencyMode |-> m.emergencyMode]
        BY <1>3, ModeAndTypeFields DEF s
      <3>4. QED
        BY <1>3, <2>0, <2>2, <3>2, <3>3 DEF IsFrame
    <2>3. QED
      BY <2>1, <2>2
  <1>5. /\ IsFrame(e)
        /\ e.installation = i.installation /\ e.targetTemperature = m.targetTemperature
        /\ e.operationMode = y.operationMode /\ e.operationType = y.operationType
        /\ override.heatingElementEnabled # None /\ version # "ODYSSEE" =>
              \/ e.heatingElement = override.heatingElementEnabled
              \/ override.heatingElementEnabled = FALSE /\ f.emergencyMode
    <2> DEFINE value == override.heatingElementEnabled
    <2>1. e = IF value = None THEN y ELSE Abstract!SetHeatingElement(y, value)
      BY DEF Abstract!OverrideElement, Abstract!Or
    <2> HIDE DEF t, i, m, y, e
    <2>2. CASE value = None
      BY <1>4, <2>1, <2>2
    <2>3. CASE value # None
      <3>1. value \in BOOLEAN
        BY <2>3 DEF Overridden
      <3>2. e = [installation |-> y.installation,
                 operationMode |-> y.operationMode, operationType |-> y.operationType,
                 targetTemperature |-> y.targetTemperature,
                 heatingElement |-> IF version = "ODYSSEE" \/ (~value /\ y.emergencyMode)
                                    THEN y.heatingElement ELSE value,
                 emergencyMode |-> y.emergencyMode]
        BY <1>4, <2>1, <2>3, SetterFields
      <3>3. /\ IsFrame(e)
            /\ e.installation = i.installation /\ e.targetTemperature = m.targetTemperature
            /\ e.operationMode = y.operationMode /\ e.operationType = y.operationType
        BY <1>4, <3>2 DEF IsFrame
      <3>4. e.heatingElement = IF version = "ODYSSEE" \/ (~value /\ y.emergencyMode)
                               THEN y.heatingElement ELSE value
        BY <3>2
      <3>5. version # "ODYSSEE" =>
                e.heatingElement = value \/ (value = FALSE /\ f.emergencyMode)
        BY <1>4, <3>1, <3>4
      <3>6. QED
        BY <3>3, <3>5
    <2>4. QED
      BY <2>2, <2>3
  <1>6. /\ h.installation = i.installation /\ h.targetTemperature = m.targetTemperature
        /\ h.operationMode = y.operationMode /\ h.operationType = y.operationType
        /\ h.heatingElement = e.heatingElement
        /\ override.emergencyModeEnabled # None =>
              \/ h.emergencyMode = override.emergencyModeEnabled
              \/ override.emergencyModeEnabled = TRUE /\ version # "ODYSSEE" /\ ~h.heatingElement
    <2> DEFINE value == override.emergencyModeEnabled
    <2>1. h = IF value = None THEN e ELSE Abstract!SetEmergencyMode(e, value)
      BY DEF Abstract!OverrideEmergency, Abstract!Or
    <2> HIDE DEF t, i, m, y, e, h
    <2>2. CASE value = None
      BY <1>5, <2>1, <2>2
    <2>3. CASE value # None
      <3>1. value \in BOOLEAN
        BY <2>3 DEF Overridden
      <3>2. h = [installation |-> e.installation,
                 operationMode |-> e.operationMode, operationType |-> e.operationType,
                 targetTemperature |-> e.targetTemperature,
                 heatingElement |-> e.heatingElement,
                 emergencyMode |-> IF version # "ODYSSEE" /\ value /\ ~e.heatingElement
                                   THEN e.emergencyMode ELSE value]
        BY <1>5, <2>1, <2>3, SetterFields
      <3>3. /\ h.installation = i.installation /\ h.targetTemperature = m.targetTemperature
            /\ h.operationMode = y.operationMode /\ h.operationType = y.operationType
            /\ h.heatingElement = e.heatingElement
        BY <1>5, <3>2
      <3>4. h.emergencyMode = IF version # "ODYSSEE" /\ value /\ ~e.heatingElement
                              THEN e.emergencyMode ELSE value
        BY <3>2
      <3>5. h.emergencyMode = value \/ (value = TRUE /\ version # "ODYSSEE" /\ ~h.heatingElement)
        BY <3>1, <3>3, <3>4
      <3>6. QED
        BY <3>3, <3>5
    <2>4. QED
      BY <2>2, <2>3
  <1>7. Abstract!Standard(f) = h
    BY DEF Abstract!Standard
  <1> HIDE DEF t, i, m, y, e, h
  <1>8. QED
    BY <1>1, <1>2, <1>3, <1>4, <1>5, <1>6, <1>7

\* The same in all bytes of an attribute.
SameOf(attr, p, q) ==
    \A bit : Owner(version, bit[1]) = attr => (bit \in p <=> bit \in q)

\* What is written to the bits of another attribute leaves it alone.
LEMMA OthersApart ==
    ASSUME NEW attr, NEW other, NEW bits, Of(version, other, bits), other # attr,
           NEW p, NEW q, Same(p, q, bits)
    PROVE  SameOf(attr, p, q)
  <1> SUFFICES ASSUME NEW bit, Owner(version, bit[1]) = attr
               PROVE  bit \in p <=> bit \in q
    BY DEF SameOf
  <1>1. bit \notin bits
    BY DEF Of
  <1>2. QED
    BY <1>1 DEF Same

\* One step after the other, for the two attributes Overrides.tla has not.
LEMMA StepsApart ==
    ASSUME version \in AllVersions, override \in Overridden, time \in Clock \cup {None}, NEW p,
           NEW attr \in {"CONFIG_AIRDUCT", "CONFIG_FAN_EXHAUST"}, NoFlag
    PROVE  /\ SameOf(attr, p, AfterInstallation(p))
           /\ attr = "CONFIG_AIRDUCT" => SameOf(attr, AfterInstallation(p), AfterFan(p))
           /\ attr = "CONFIG_FAN_EXHAUST" => SameOf(attr, AfterFan(p), AfterAirduct(p))
           /\ SameOf(attr, AfterAirduct(p), ApplyHMIOverrides(p))
  <1>0. \A q : SameOf(attr, q, q)
    BY DEF SameOf
  <1>1. \A q : \A value \in Temperatures : SameOf(attr, q, SetTemperature(version, value, q))
    BY SetTemperatureWithin, ReadsOwned, OthersApart
  <1>2. SameOf(attr, p, AfterTemperature(p))
    BY <1>0, <1>1 DEF AfterTemperature, OverrideTemperature, Temperatures
  <1>3. SameOf(attr, AfterTemperature(p), AfterInstallation(p))
    <2>1. \A q, value : Same(q, SetInstallation(value, q), ReadsOf(version, "STATE_INSTALLATION_MODE"))
      BY SetFieldWithin DEF SetInstallation
    <2>2. QED
      BY <1>0, <2>1, ReadsOwned, OthersApart DEF AfterInstallation
  <1>4. attr = "CONFIG_AIRDUCT" => SameOf(attr, AfterInstallation(p), AfterFan(p))
    <2>1. \A q, value : Same(q, SetField(version, "CONFIG_FAN_EXHAUST", value, q),
                             ReadsOf(version, "CONFIG_FAN_EXHAUST"))
      BY SetFieldWithin
    <2>2. QED
      BY <1>0, <2>1, ReadsOwned, OthersApart DEF AfterFan
  <1>5. attr = "CONFIG_FAN_EXHAUST" => SameOf(attr, AfterFan(p), AfterAirduct(p))
    <2>1. \A q, value : Same(q, SetField(version, "CONFIG_AIRDUCT", value, q),
                             ReadsOf(version, "CONFIG_AIRDUCT"))
      BY SetFieldWithin
    <2>2. QED
      BY <1>0, <2>1, ReadsOwned, OthersApart DEF AfterAirduct
  <1>6. SameOf(attr, AfterAirduct(p), AfterMode(p))
    <2> DEFINE q    == AfterAirduct(p)
               mode == override.operationMode
               r    == SetMode(version, mode, q)
    <2>1. CASE mode = None
      BY <1>0, <2>1, NoneIsNoMode DEF AfterMode, OverrideMode, Modes
    <2>2. CASE mode # None
      <3>1. mode \in Modes
        BY <2>2 DEF Overridden
      <3>2. SameOf(attr, q, r)
        BY <3>1, SetModeWithin, ReadsOwned, OthersApart
      <3>3. MAX_WATER_TEMPERATURE \in Temperatures /\ ABSENCE_WATER_TEMPERATURE \in Temperatures
        BY DEF Temperatures, MAX_WATER_TEMPERATURE, ABSENCE_WATER_TEMPERATURE
      <3>4. SameOf(attr, r, AfterMode(p))
        <4>1. CASE mode = "BOOST"
          BY <1>1, <2>2, <3>3, <4>1 DEF AfterMode, OverrideMode
        <4>2. CASE mode = "ABSENCE"
          BY <1>1, <2>2, <3>3, <4>2 DEF AfterMode, OverrideMode
        <4>3. CASE mode \notin {"BOOST", "ABSENCE"}
          BY <1>0, <2>2, <4>3 DEF AfterMode, OverrideMode
        <4>4. QED
          BY <4>1, <4>2, <4>3
      <3>5. QED
        BY <3>2, <3>4 DEF SameOf
    <2>3. QED
      BY <2>1, <2>2
  <1>7. SameOf(attr, AfterMode(p), AfterType(p))
    <2>1. override.operationType \in Types \cup {None}
      BY DEF Overridden
    <2>2. Of(version, "OPERATION_MODE", TypeBits(version))
      BY ReadsOwned DEF TypeBits
    <2>3. QED
      BY <1>0, <2>1, <2>2, SetTypeWithin, OthersApart DEF AfterType
  <1>8. SameOf(attr, AfterType(p), AfterElement(p))
    BY <1>0, SetElementWithin, ReadsOwned, OthersApart DEF AfterElement
  <1>9. SameOf(attr, AfterElement(p), AfterEmergency(p))
    BY <1>0, SetEmergencyWithin, ReadsOwned, OthersApart DEF AfterEmergency
  <1>10. SameOf(attr, AfterEmergency(p), ApplyHMIOverrides(p))
    <2>1. ApplyHMIOverrides(p) = IF time = None THEN AfterEmergency(p)
                                 ELSE SetTime(version, time, AfterEmergency(p))
      BY StandardSteps DEF ApplyHMIOverrides, NoFlag
    <2>2. time # None =>
              SameOf(attr, AfterEmergency(p), SetTime(version, time, AfterEmergency(p)))
      BY SetTimeWithin, ReadsOwned, OthersApart
    <2>3. QED
      BY <1>0, <2>1, <2>2
  <1>11. SameOf(attr, p, AfterInstallation(p))
    BY <1>2, <1>3 DEF SameOf
  <1>12. SameOf(attr, AfterAirduct(p), ApplyHMIOverrides(p))
    BY <1>6, <1>7, <1>8, <1>9, <1>10 DEF SameOf
  <1>13. QED
    BY <1>4, <1>5, <1>11, <1>12

\* What is the same in a field is read the same.
LEMMA DecodedSame ==
    ASSUME NEW attr, NEW field, Owner(version, field.byte) = attr, NEW p, NEW q, SameOf(attr, p, q)
    PROVE  Decoded(p, field) = Decoded(q, field)
  <1>1. Masked(p, field.byte, field.reads) = Masked(q, field.byte, field.reads)
    BY DEF SameOf, Masked
  <1>2. QED
    BY <1>1, GettersOfBits

\* The fan is read back.
LEMMA FanReadBack ==
    ASSUME version \in AllVersions, version # "ODYSSEE", override \in Overridden,
           time \in Clock \cup {None}, NoFlag, override.configFanExhaust # None, NEW p
    PROVE  Get(version, "CONFIG_FAN_EXHAUST", ApplyHMIOverrides(p)) = override.configFanExhaust
  <1> DEFINE field == Fields(version).CONFIG_FAN_EXHAUST
             value == override.configFanExhaust
             q     == AfterFan(p)
             r     == ApplyHMIOverrides(p)
  <1>1. /\ ReadsBack(field) /\ value \in DOMAIN field.code
        /\ Owner(version, field.byte) = "CONFIG_FAN_EXHAUST"
        /\ "CONFIG_FAN_EXHAUST" \in DOMAIN Fields(version)
    <2>1. value \in {"STOP", "LOW_SPEED", "HIGH_SPEED"}
      BY DEF Overridden
    <2>2. /\ field.reads = \h03 /\ field.writes = \h03
          /\ field.code = [STOP |-> 0, LOW_SPEED |-> 1, HIGH_SPEED |-> 2]
          /\ Owner(version, field.byte) = "CONFIG_FAN_EXHAUST"
          /\ "CONFIG_FAN_EXHAUST" \in DOMAIN Fields(version)
      <3>1. CASE version = "LEGACY"
        BY <3>1 DEF Fields, LegacyFields, Field, Owner
      <3>2. CASE version = "NEXT"
        BY <3>2 DEF Fields, NextFields, Field, Owner
      <3>3. QED
        BY <3>1, <3>2 DEF AllVersions
    <2> HIDE DEF field
    <2>3. ReadsBack(field)
      BY <2>2, BitsOfMasks, BitsOfCodes DEF ReadsBack
    <2>4. QED
      BY <2>1, <2>2, <2>3
  <1>2. q = Write(AfterInstallation(p), field.byte, field.writes, field.code[value])
    BY <1>1 DEF AfterFan, SetField
  <1>3. SameOf("CONFIG_FAN_EXHAUST", q, r)
    BY StepsApart DEF SameOf
  <1> HIDE DEF field, q, r
  <1>4. Decoded(q, field) = value
    BY <1>1, <1>2, DecodedWritten
  <1>5. Decoded(r, field) = value
    BY <1>1, <1>3, <1>4, DecodedSame
  <1>6. QED
    BY <1>5 DEF Get, field, r

\* The air duct is, without the two bits no setter clears.
LEMMA AirductReadBack ==
    ASSUME version \in AllVersions, override \in Overridden,
           time \in Clock \cup {None}, NoFlag, override.configAirduct # None, NEW p,
           p \cap Mask(Fields(version).CONFIG_AIRDUCT.byte, \hC0) = {}
    PROVE  Get(version, "CONFIG_AIRDUCT", ApplyHMIOverrides(p)) = override.configAirduct
  <1> DEFINE field == Fields(version).CONFIG_AIRDUCT
             value == override.configAirduct
             s     == AfterFan(p)
             q     == AfterAirduct(p)
             r     == ApplyHMIOverrides(p)
             i     == field.byte
             n     == field.code[value]
  <1>1. /\ field.reads = \hF0 /\ field.writes = \h30
        /\ field.code = [INT_INT |-> \h00, INT_EXT |-> \h10, EXT_EXT |-> \h20]
        /\ Owner(version, i) = "CONFIG_AIRDUCT"
        /\ "CONFIG_AIRDUCT" \in DOMAIN Fields(version)
    <2>1. CASE version = "LEGACY"
      BY <2>1 DEF Fields, LegacyFields, Field, Owner
    <2>2. CASE version = "NEXT"
      BY <2>2 DEF Fields, NextFields, Field, Owner
    <2>3. CASE version = "ODYSSEE"
      BY <2>3 DEF Fields, OdysseeFields, Field, Owner
    <2>4. QED
      BY <2>1, <2>2, <2>3 DEF AllVersions
  <1>2. value \in {"INT_INT", "INT_EXT", "EXT_EXT"}
    BY DEF Overridden
  <1>3. value \in DOMAIN field.code /\ n \in {\h00, \h10, \h20}
    BY <1>1, <1>2
  <1>4. q = Write(s, i, \h30, n)
    BY <1>1, <1>3 DEF AfterAirduct, SetField
  <1>5. SameOf("CONFIG_AIRDUCT", p, s) /\ SameOf("CONFIG_AIRDUCT", q, r)
    BY StepsApart DEF SameOf
  <1>6. /\ BitsOf[\hF0] = {4, 5, 6, 7} /\ BitsOf[\h30] = {4, 5} /\ BitsOf[\hC0] = {6, 7}
        /\ BitsOf[\h00] = {} /\ BitsOf[\h10] = {4} /\ BitsOf[\h20] = {5}
    BY BitsOfNumber DEF Bit, Digit
  <1> HIDE DEF field, value, s, q, r, i, n
  <1>7. <<i, 6>> \notin s /\ <<i, 7>> \notin s
    <2>1. <<i, 6>> \notin p /\ <<i, 7>> \notin p
      BY <1>6 DEF Mask, field, i
    <2>2. <<i, 6>>[1] = i /\ <<i, 7>>[1] = i
      OBVIOUS
    <2>3. QED
      BY <1>1, <1>5, <2>1, <2>2 DEF SameOf
  <1>8. Masked(q, i, \hF0) = BitsOf[n]
    BY <1>3, <1>4, <1>6, <1>7 DEF Masked, Write, Mask
  <1>9. Decoded(q, field) = value
    <2> DEFINE known == { v \in DOMAIN field.code : BitsOf[field.code[v]] = Masked(q, i, \hF0) }
    <2>1. value \in known
      BY <1>3, <1>8 DEF n
    <2>2. \A v \in known : v = value
      <3> SUFFICES ASSUME NEW v \in DOMAIN field.code, BitsOf[field.code[v]] = BitsOf[n]
                   PROVE  v = value
        BY <1>8
      <3>1. /\ BitsOf[field.code.INT_INT] = {} /\ BitsOf[field.code.INT_EXT] = {4}
            /\ BitsOf[field.code.EXT_EXT] = {5}
        BY <1>1, <1>6
      <3>2. v \in {"INT_INT", "INT_EXT", "EXT_EXT"}
        BY <1>1
      <3>3. BitsOf[field.code[v]] = BitsOf[field.code[value]]
        BY DEF n
      <3>4. QED
        BY <1>2, <3>1, <3>2, <3>3
    <2>3. Decoded(q, field) = IF known = {} THEN "UNKNOWN" ELSE CHOOSE v \in known : TRUE
      BY <1>1 DEF Decoded, i
    <2> HIDE DEF known
    <2>4. QED
      BY <2>1, <2>2, <2>3
  <1>10. Decoded(r, field) = value
    BY <1>1, <1>5, <1>9, DecodedSame DEF i
  <1>11. QED
    BY <1>10 DEF Get, field, r, value

-----------------------------------------------------------------------------
(* From an option to an option                                             *)

\* What Home Assistant offers is what the version has.
LEMMA OfferedOptions ==
    ASSUME version \in AllVersions, NEW topic \in DOMAIN Attribute, NEW option \in Offered(topic)
    PROVE  /\ topic \in {"configInstallation", "configFanExhaust", "heatingElementEnabled"} =>
                  version # "ODYSSEE"
           /\ topic = "operationType" /\ version # "ODYSSEE" => option # "OFF-PEAK HOURS"
           /\ topic \in Flags => option \in {"0", "1"}
  <1> DEFINE config == [mode |-> "MITM"]
  <1>1. PICK e \in Discovery!Selects(version, config) \cup Discovery!Switches(version, config) :
            topic \in e.writes /\ option \in e.options
    BY DEF Offered
  <1>2. \A name, options : Discovery!Control(config, name, options) =
            [reads |-> {<<"hmi", name>>}, writes |-> {name}, options |-> options]
    BY DEF Discovery!Control, Discovery!Entity, Discovery!IsMitm
  <1> HIDE DEF config
  <1>3. CASE e \in Discovery!Selects(version, config)
    <2>1. \/ e = Discovery!Control(config, "operationMode", Discovery!OperationModeOptions)
          \/ e = Discovery!Control(config, "operationType", Discovery!OperationTypeOptions(version))
          \/ e = Discovery!Control(config, "configAirduct", {"INT/INT", "INT/EXT", "EXT/EXT"})
          \/ /\ version # "ODYSSEE"
             /\ \E name \in {"configInstallation", "configFanExhaust"} : \E options :
                   e = Discovery!Control(config, name, options)
      BY <1>3 DEF Discovery!Selects, Discovery!Only
    <2>2. \/ e.writes = {"operationMode"}
          \/ /\ e.writes = {"operationType"}
             /\ e.options = Discovery!OperationTypeOptions(version)
          \/ e.writes = {"configAirduct"}
          \/ version # "ODYSSEE" /\ e.writes \in {{"configInstallation"}, {"configFanExhaust"}}
      <3>1. CASE e = Discovery!Control(config, "operationMode", Discovery!OperationModeOptions)
        BY <1>2, <3>1
      <3>2. CASE e = Discovery!Control(config, "operationType",
                                       Discovery!OperationTypeOptions(version))
        BY <1>2, <3>2
      <3>3. CASE e = Discovery!Control(config, "configAirduct", {"INT/INT", "INT/EXT", "EXT/EXT"})
        BY <1>2, <3>3
      <3>4. CASE /\ version # "ODYSSEE"
                 /\ \E name \in {"configInstallation", "configFanExhaust"} : \E options :
                       e = Discovery!Control(config, name, options)
        <4>1. PICK name \in {"configInstallation", "configFanExhaust"} : \E options :
                  e = Discovery!Control(config, name, options)
          BY <3>4
        <4>2. e.writes = {name}
          BY <1>2, <4>1
        <4>3. QED
          BY <3>4, <4>2
      <3>5. QED
        BY <2>1, <3>1, <3>2, <3>3, <3>4
    <2>3. "operationType" \in e.writes => e.options = Discovery!OperationTypeOptions(version)
      BY <2>2
    <2>4. version # "ODYSSEE" => "OFF-PEAK HOURS" \notin Discovery!OperationTypeOptions(version)
      BY DEF Discovery!OperationTypeOptions
    <2>5. QED
      BY <1>1, <2>2, <2>3, <2>4 DEF Flags
  <1>4. CASE e \in Discovery!Switches(version, config)
    <2>1. \/ \E flag \in {"flagPVModeHeatPump", "flagPVModeHeatElement"} :
                e = Discovery!Entity({<<"stats", flag>>}, {flag}, {"1", "0"})
          \/ e = Discovery!Control(config, "emergencyModeEnabled", {"1", "0"})
          \/ version # "ODYSSEE" /\ e = Discovery!Control(config, "heatingElementEnabled", {"1", "0"})
      BY <1>4 DEF Discovery!Switches, Discovery!Only
    <2>2. e.options = {"1", "0"}
      BY <1>2, <2>1 DEF Discovery!Entity
    <2>3. \/ e.writes \in {{"flagPVModeHeatPump"}, {"flagPVModeHeatElement"}}
          \/ e.writes = {"emergencyModeEnabled"}
          \/ version # "ODYSSEE" /\ e.writes = {"heatingElementEnabled"}
      BY <1>2, <2>1 DEF Discovery!Entity
    <2>4. QED
      BY <1>1, <2>2, <2>3 DEF Flags, Attribute
  <1>5. QED
    BY <1>1, <1>3, <1>4

\* What is shown for a flag.
LEMMA ShownFlag ==
    ASSUME NEW topic \in Flags, NEW payload
    PROVE  Shown(topic, payload) = IF Get(version, Attribute[topic], payload) THEN "1" ELSE "0"
  BY Zenon DEF Shown

\* A flag reads as a Boolean.
LEMMA FlagRead ==
    ASSUME NEW v \in AllVersions, NEW attr \in {"HEATING_ELEMENT_ALLOWED", "EMERGENCY_MODE_ENABLED"},
           attr \in DOMAIN Fields(v), NEW p
    PROVE  Get(v, attr, p) \in BOOLEAN
  <1> DEFINE field == Fields(v)[attr]
             bits  == Masked(p, field.byte, field.reads)
             known == { x \in DOMAIN field.code : BitsOf[field.code[x]] = bits }
  <1>1. /\ DOMAIN field.code = BOOLEAN
        /\ field.reads = \h01 \/ field.reads = \h04
        /\ \/ field.code[TRUE] = 0 /\ field.code[FALSE] = field.reads
           \/ field.code[TRUE] = field.reads /\ field.code[FALSE] = 0
    <2>1. CASE attr = "EMERGENCY_MODE_ENABLED"
      <3>1. \E byte : Fields(v).EMERGENCY_MODE_ENABLED = Flag(byte, \h01)
        <4>1. CASE v = "LEGACY"
          BY <4>1 DEF Fields, LegacyFields
        <4>2. CASE v = "NEXT"
          BY <4>2 DEF Fields, NextFields
        <4>3. CASE v = "ODYSSEE"
          BY <4>3 DEF Fields, OdysseeFields
        <4>4. QED
          BY <4>1, <4>2, <4>3 DEF AllVersions
      <3>2. PICK byte : field = Flag(byte, \h01)
        BY <2>1, <3>1
      <3> HIDE DEF field
      <3>3. QED
        BY <3>2 DEF Flag, Field
    <2>2. CASE attr = "HEATING_ELEMENT_ALLOWED"
      <3>1. CASE v = "LEGACY"
        <4>1. field = Flag(9, \h04)
          BY <2>2, <3>1 DEF Fields, LegacyFields
        <4> HIDE DEF field
        <4>2. QED
          BY <4>1 DEF Flag, Field
      <3>2. CASE v = "NEXT"
        <4>1. field = Field(8, \h04, \h04, [x \in BOOLEAN |-> IF x THEN 0 ELSE \h04])
          BY <2>2, <3>2 DEF Fields, NextFields
        <4> HIDE DEF field
        <4>2. QED
          BY <4>1 DEF Field
      <3>3. CASE v = "ODYSSEE"
        BY <2>2, <3>3 DEF Fields, OdysseeFields
      <3>4. QED
        BY <3>1, <3>2, <3>3 DEF AllVersions
    <2>3. QED
      BY <2>1, <2>2
  <1> HIDE DEF field
  <1>2. bits = {} \/ bits = BitsOf[field.reads]
    BY <1>1, BitsOfMasks DEF Masked
  <1> HIDE DEF bits
  <1>3. known # {}
    <2>1. BitsOf[field.code[TRUE]] = bits \/ BitsOf[field.code[FALSE]] = bits
      BY <1>1, <1>2, BitsOfMasks
    <2>2. QED
      BY <1>1, <2>1
  <1>4. Decoded(p, field) = CHOOSE x \in known : TRUE
    BY <1>3 DEF Decoded, bits
  <1>5. Decoded(p, field) \in BOOLEAN
    BY <1>1, <1>3, <1>4
  <1>6. QED
    BY <1>5 DEF Get, field

\* A value that is read is shown as the option that set it.
LEMMA SelectedShown ==
    ASSUME NEW topic \in DOMAIN Attribute, NEW option, NEW payload,
           Selected(topic, option) = override[topic], override[topic] # None,
           topic \in Flags => option \in {"0", "1"},
           Get(version, Attribute[topic], payload) = override[topic]
    PROVE  Shown(topic, payload) = option
  <1> DEFINE value == override[topic]
  <1>1. CASE topic \in Flags
    <2>1. value = (option = "1")
      BY <1>1 DEF Selected
    <2>2. Shown(topic, payload) = IF value THEN "1" ELSE "0"
      BY <1>1, ShownFlag
    <2>3. option = "0" \/ option = "1"
      BY <1>1
    <2> HIDE DEF value
    <2>4. CASE option = "1"
      BY <2>1, <2>2, <2>4
    <2>5. CASE option = "0"
      BY <2>1, <2>2, <2>5
    <2>6. QED
      BY <2>3, <2>4, <2>5
  <1>2. CASE topic \notin Flags
    <2> DEFINE meant == { v \in DOMAIN Strings[topic] : Strings[topic][v] = option }
    <2>1. value = IF meant = {} THEN None ELSE CHOOSE v \in meant : TRUE
      BY <1>2 DEF Selected
    <2>2. value \in meant
      BY <2>1
    <2>3. value # "UNKNOWN"
      <3>1. "UNKNOWN" \notin DOMAIN Strings[topic]
        <4>1. topic \in {"configInstallation", "operationMode", "operationType",
                         "configFanExhaust", "configAirduct"}
          BY <1>2 DEF Attribute, Flags
        <4>2. CASE topic = "configInstallation"
          BY <4>2 DEF Strings
        <4>3. CASE topic = "operationMode"
          BY <4>3 DEF Strings
        <4>4. CASE topic = "operationType"
          BY <4>4 DEF Strings
        <4>5. CASE topic = "configFanExhaust"
          BY <4>5 DEF Strings
        <4>6. CASE topic = "configAirduct"
          BY <4>6 DEF Strings
        <4>7. QED
          BY <4>1, <4>2, <4>3, <4>4, <4>5, <4>6
      <3>2. QED
        BY <2>2, <3>1
    <2>4. Shown(topic, payload) = Strings[topic][value]
      BY <1>2, <2>3 DEF Shown
    <2> HIDE DEF value
    <2>5. QED
      BY <2>2, <2>4
  <1>3. QED
    BY <1>1, <1>2

\* Without PV mode, what is sent is the values of Standard.
LEMMA SentValues ==
    ASSUME Inv, NoFlag, NEW frame, SendHmiFrame(frame)
    PROVE  Decode(version, sent') = Abstract!Standard(Decode(version, frame))
  <1>1. Decode(version, ApplyHMIOverrides(frame)) =
            Abstract!ApplyHMIOverrides(Decode(version, frame))
    BY KnownVersion, ApplyImplements DEF Inv
  <1>2. Abstract!ApplyHMIOverrides(Decode(version, frame)) = Abstract!Standard(Decode(version, frame))
    BY DEF Abstract!ApplyHMIOverrides, NoFlag
  <1>3. QED
    BY <1>1, <1>2 DEF SendHmiFrame

\* The versions that know the heating element.
LEMMA HeatingField ==
    ASSUME version \in AllVersions, version # "ODYSSEE"
    PROVE  "HEATING_ELEMENT_ALLOWED" \in DOMAIN Fields(version)
  BY DEF AllVersions, Fields, LegacyFields, NextFields

\* Every value that is not refused is read back.
LEMMA ValueReadBack ==
    ASSUME Inv, NoFlag, NEW frame, SendHmiFrame(frame), NEW topic \in DOMAIN Attribute,
           override[topic] # None, ~Refused(topic, frame),
           topic \in {"configInstallation", "configFanExhaust", "heatingElementEnabled"} =>
               version # "ODYSSEE",
           topic = "operationType" /\ version # "ODYSSEE" => override[topic] # "OFF_PEAK_HOURS"
    PROVE  Get(version, Attribute[topic], sent') = override[topic]
  <1> DEFINE f == Decode(version, frame)
             h == Decode(version, sent')
  <1>1. h = Abstract!Standard(f)
    BY SentValues
  <1>2. IsFrame(f)
    BY DecodeFields DEF IsFrame
  <1>3. version \in AllVersions /\ override \in Overridden /\ time \in Clock \cup {None}
    BY KnownVersion DEF Inv
  <1>4. sent' = ApplyHMIOverrides(frame)
    BY DEF SendHmiFrame
  <1>5. topic \in {"configInstallation", "operationMode", "operationType", "configFanExhaust",
                   "configAirduct", "heatingElementEnabled", "emergencyModeEnabled"}
    BY DEF Attribute
  <1>6. CASE topic = "configInstallation"
    <2>1. h.installation = override.configInstallation
      BY <1>1, <1>2, <1>3, <1>6, StandardValues
    <2>2. QED
      BY <1>6, <2>1 DEF Decode, Attribute
  <1>7. topic \in {"operationMode", "operationType"} => Known(f)
    BY DEF Refused, ByteUnknown, Known, Decode
  <1>8. CASE topic = "operationMode"
    <2>1. h.operationMode = override.operationMode
      BY <1>1, <1>2, <1>3, <1>7, <1>8, StandardValues
    <2>2. QED
      BY <1>8, <2>1 DEF Decode, Attribute
  <1>9. CASE topic = "operationType"
    <2>1. h.operationType = override.operationType
      BY <1>1, <1>2, <1>3, <1>7, <1>9, StandardValues
    <2>2. QED
      BY <1>9, <2>1 DEF Decode, Attribute
  <1>10. CASE topic = "heatingElementEnabled"
    <2>1. h.heatingElement = override.heatingElementEnabled
      <3>1. ~(override.heatingElementEnabled = FALSE /\ f.emergencyMode)
        BY <1>10 DEF Refused, Decode
      <3> HIDE DEF f, h
      <3>2. QED
        BY <1>1, <1>2, <1>3, <1>10, <3>1, StandardValues
    <2>2. h.heatingElement = Get(version, "HEATING_ELEMENT_ALLOWED", sent')
      <3>1. "HEATING_ELEMENT_ALLOWED" \in DOMAIN Fields(version)
        BY <1>3, <1>10, HeatingField
      <3>2. Get(version, "HEATING_ELEMENT_ALLOWED", sent') \in BOOLEAN
        BY <1>3, <3>1, FlagRead
      <3>3. QED
        BY <1>10, <3>2 DEF Decode
    <2>3. QED
      BY <1>10, <2>1, <2>2 DEF Attribute
  <1>11. CASE topic = "emergencyModeEnabled"
    <2>1. h.emergencyMode = override.emergencyModeEnabled
      <3>1. ~(override.emergencyModeEnabled = TRUE /\ version # "ODYSSEE" /\ ~h.heatingElement)
        <4> SUFFICES ASSUME override.emergencyModeEnabled = TRUE, version # "ODYSSEE",
                            ~h.heatingElement
                     PROVE  FALSE
          OBVIOUS
        <4>1. ~Get(version, "HEATING_ELEMENT_ALLOWED", sent')
          BY DEF Decode
        <4>2. Shown("heatingElementEnabled", sent') = "0"
          <5>1. /\ "heatingElementEnabled" \in Flags
                /\ Attribute["heatingElementEnabled"] = "HEATING_ELEMENT_ALLOWED"
            BY DEF Flags, Attribute
          <5>2. QED
            BY <4>1, <5>1, ShownFlag
        <4>3. QED
          BY <1>11, <4>2 DEF Refused
      <3> HIDE DEF f, h
      <3>2. QED
        BY <1>1, <1>2, <1>3, <1>11, <3>1, StandardValues
    <2>2. QED
      BY <1>11, <2>1 DEF Decode, Attribute
  <1>12. CASE topic = "configFanExhaust"
    BY <1>3, <1>4, <1>12, FanReadBack DEF Attribute
  <1>13. CASE topic = "configAirduct"
    BY <1>3, <1>4, <1>13, AirductReadBack DEF Attribute, Refused
  <1>14. QED
    BY <1>5, <1>6, <1>8, <1>9, <1>10, <1>11, <1>12, <1>13

\* What has no option of its own for a version is not selected.
LEMMA OfferedSelected ==
    ASSUME version \in AllVersions, NEW topic \in DOMAIN Attribute, NEW option \in Offered(topic),
           Selected(topic, option) = override[topic], override[topic] # None
    PROVE  topic = "operationType" /\ version # "ODYSSEE" => override[topic] # "OFF_PEAK_HOURS"
  <1> SUFFICES ASSUME topic = "operationType", version # "ODYSSEE",
                      override[topic] = "OFF_PEAK_HOURS"
               PROVE  FALSE
    OBVIOUS
  <1> DEFINE meant == { v \in DOMAIN Strings.operationType : Strings.operationType[v] = option }
  <1>1. override[topic] = IF meant = {} THEN None ELSE CHOOSE v \in meant : TRUE
    BY DEF Selected, Flags
  <1>2. override[topic] \in meant
    BY <1>1
  <1>3. option = "OFF-PEAK HOURS"
    <2>1. Strings.operationType["OFF_PEAK_HOURS"] = option
      BY <1>2
    <2>2. Strings.operationType["OFF_PEAK_HOURS"] = "OFF-PEAK HOURS"
      BY DEF Strings
    <2>3. QED
      BY <2>1, <2>2
  <1>4. QED
    BY <1>3, OfferedOptions

\* How much of a temperature is lost.
LEMMA LostTemperature ==
    ASSUME NEW value \in Temperatures
    PROVE  value - Stored(value) \in (IF version = "LEGACY" THEN {0, 1} ELSE 0 .. 9)
  <1>1. value \in Nat
    BY DEF Temperatures, ABSENCE_WATER_TEMPERATURE, MAX_WATER_TEMPERATURE
  <1>2. CASE version = "LEGACY"
    <2>1. value - Tenths(value) \in {0, 1}
      BY <1>1 DEF Tenths
    <2>2. QED
      BY <1>2, <2>1 DEF Stored
  <1>3. CASE version # "LEGACY"
    <2>1. value - 10 * (value \div 10) \in 0 .. 9
      BY <1>1
    <2>2. QED
      BY <1>3, <2>1 DEF Stored
  <1>4. QED
    BY <1>2, <1>3

\* For every frame, not only those of Frames: without a PV mode, an option Home
\* Assistant offers is what it shows for the frame that is sent, unless a setter
\* refuses it, and a temperature loses less than a degree.
THEOREM SelectionIsShown == Spec => SelectedIsShown
<1> DEFINE Step ==
        \A frame \in Frames[version] : NoFlag /\ InForce # {} /\ SendHmiFrame(frame) =>
            /\ \A topic \in InForce \ {"waterTempTarget"} :
                  \A option \in Offered(topic) : Selected(topic, option) = override[topic] =>
                      Refused(topic, frame) \/ Shown(topic, sent') = option
            /\ LET value == override.waterTempTarget
                   lost  == value - GetTemperature(version, sent')
               IN (value # None
                      /\ value \in ABSENCE_WATER_TEMPERATURE .. MAX_WATER_TEMPERATURE
                      /\ override.operationMode \notin {"BOOST", "ABSENCE"}) =>
                     lost \in (IF version = "LEGACY" THEN {0, 1} ELSE 0 .. 9)
<1>1. Inv => Step
  <2> SUFFICES ASSUME Inv, NEW frame \in Frames[version], NoFlag, SendHmiFrame(frame)
               PROVE  /\ \A topic \in InForce \ {"waterTempTarget"} :
                            \A option \in Offered(topic) :
                               Selected(topic, option) = override[topic] =>
                                  Refused(topic, frame) \/ Shown(topic, sent') = option
                      /\ LET value == override.waterTempTarget
                             lost  == value - GetTemperature(version, sent')
                         IN (value # None
                                /\ value \in ABSENCE_WATER_TEMPERATURE .. MAX_WATER_TEMPERATURE
                                /\ override.operationMode \notin {"BOOST", "ABSENCE"}) =>
                               lost \in (IF version = "LEGACY" THEN {0, 1} ELSE 0 .. 9)
    OBVIOUS
  <2>1. version \in AllVersions /\ override \in Overridden
    BY KnownVersion DEF Inv
  <2>2. ASSUME NEW topic \in InForce \ {"waterTempTarget"}, NEW option \in Offered(topic),
               Selected(topic, option) = override[topic], ~Refused(topic, frame)
        PROVE  Shown(topic, sent') = option
    <3>1. topic \in DOMAIN Attribute /\ override[topic] # None
      BY <2>2 DEF InForce, Topics, Attribute
    <3>2. Get(version, Attribute[topic], sent') = override[topic]
      <4>1. topic \in {"configInstallation", "configFanExhaust", "heatingElementEnabled"} =>
                version # "ODYSSEE"
        BY <2>1, <2>2, <3>1, OfferedOptions
      <4>2. topic = "operationType" /\ version # "ODYSSEE" => override[topic] # "OFF_PEAK_HOURS"
        BY <2>1, <2>2, <3>1, OfferedSelected
      <4>3. QED
        BY <2>2, <3>1, <4>1, <4>2, ValueReadBack
    <3>3. topic \in Flags => option \in {"0", "1"}
      BY <2>1, <2>2, <3>1, OfferedOptions
    <3>4. QED
      BY <2>2, <3>1, <3>2, <3>3, SelectedShown
  <2>3. ASSUME override.waterTempTarget # None, override.waterTempTarget \in Temperatures,
               override.operationMode \notin {"BOOST", "ABSENCE"}
        PROVE  override.waterTempTarget - GetTemperature(version, sent')
                   \in (IF version = "LEGACY" THEN {0, 1} ELSE 0 .. 9)
    <3> DEFINE f == Decode(version, frame)
               h == Decode(version, sent')
    <3>1. h = Abstract!Standard(f) /\ IsFrame(f)
      BY SentValues, DecodeFields DEF IsFrame
    <3>2. h.targetTemperature = GetTemperature(version, sent')
      BY DEF Decode
    <3> HIDE DEF f, h
    <3>3. h.targetTemperature = Stored(override.waterTempTarget)
      BY <2>1, <2>3, <3>1, StandardValues
    <3>4. QED
      BY <2>3, <3>2, <3>3, LostTemperature
  <2>4. QED
    BY <2>2, <2>3 DEF Temperatures
<1>2. QED
  <2>1. Inv /\ [Next]_vars => [Step]_vars
    BY <1>1
  <2>2. QED
    BY <2>1, InvInit, InvNext, PTL DEF Spec, SelectedIsShown
=============================================================================
