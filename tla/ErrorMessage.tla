---------------------------- MODULE ErrorMessage ----------------------------
(***************************************************************************)
(* message/<version>/ErrorMessage.cpp: the attributes of frame 74.  It is  *)
(* published as a whole, there is no compareWith.                          *)
(***************************************************************************)
EXTENDS MessageBits

LegacyReads ==
    [ERROR_REQUEST_ID   |-> Bytes({1}),
     ERROR_ERROR_CODE   |-> Bytes({2}),
     ERROR_TIME_MINUTES |-> Bytes({31}),
     ERROR_TIME_HOURS   |-> Bytes({32}),
     ERROR_DATE_DAY     |-> Mask(29, \h1F),
     ERROR_DATE_MONTH   |-> Mask(29, \hE0) \cup Mask(30, \h01),
     ERROR_DATE_YEAR    |-> Mask(30, \hFE),
     ERROR_TOTAL_HEATPUMP_HOURS         |-> Bytes({27, 28}),
     ERROR_TOTAL_HEATING_ELEMENT_HOURS  |-> Bytes({25, 26}),
     ERROR_WATER_TEMPERATURE            |-> Bytes({4, 5}),
     ERROR_AIR_TEMPERATURE              |-> Bytes({6, 7}),
     ERROR_EVAPORATOR_LOWER_TEMPERATURE |-> Bytes({8, 9}),
     ERROR_EVAPORATOR_UPPER_TEMPERATURE |-> Bytes({10, 11}),
     ERROR_COMPRESSOR_OUTLET_TEMPERATURE |-> {},
     ERROR_FAN_SPEED_PWM                |-> Bytes({21})]

LegacyHas == DOMAIN LegacyReads

\* Nothing but zeros behind the length in byte 0.
LegacyIsEmpty(payload) == \A bit \in payload : bit[1] = 0

-----------------------------------------------------------------------------
\* "there are no empty messages in next protocol", nor in odyssee

NextReads == [ERROR_REQUEST_ID |-> Bytes({1}), ERROR_ERROR_CODE |-> Bytes({2})]
NextHas == DOMAIN NextReads
NextIsEmpty(payload) == FALSE

OdysseeReads == [ERROR_REQUEST_ID |-> Bytes({1}), ERROR_ERROR_CODE |-> Bytes({2})]
OdysseeHas == DOMAIN OdysseeReads
OdysseeIsEmpty(payload) == FALSE

-----------------------------------------------------------------------------
\* createErrorMessageFromBuffer
ErrorMessage(version) ==
    CASE version = "NEXT"    -> [reads |-> NextReads, has |-> NextHas]
      [] version = "ODYSSEE" -> [reads |-> OdysseeReads, has |-> OdysseeHas]
      [] OTHER               -> [reads |-> LegacyReads, has |-> LegacyHas]

IsEmpty(version, payload) ==
    CASE version = "NEXT"    -> NextIsEmpty(payload)
      [] version = "ODYSSEE" -> OdysseeIsEmpty(payload)
      [] OTHER               -> LegacyIsEmpty(payload)

=============================================================================
