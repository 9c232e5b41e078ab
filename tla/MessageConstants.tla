-------------------------- MODULE MessageConstants --------------------------
(***************************************************************************)
(* The vocabulary of the heat pump's serial protocol, as in                *)
(* lib/AtlanticSerialProtocol/include/message/MessageConstants.h: frame    *)
(* identifiers, protocol versions, checksum kinds, and which payload       *)
(* length each identifier has in each version.                             *)
(*                                                                         *)
(* The lengths are a parameter.  CodeFrameTable is the table of the code;  *)
(* small instances use shorter frames.                                     *)
(***************************************************************************)
EXTENDS Naturals

HMI_MESSAGE_IDENTIFIER    == 194
MAIN_MESSAGE_IDENTIFIER   == 193
ENERGY_MESSAGE_IDENTIFIER == 67
ERROR_MESSAGE_IDENTIFIER  == 74
EXTRA_MESSAGE_IDENTIFIER  == 217

FrameIds == { HMI_MESSAGE_IDENTIFIER, MAIN_MESSAGE_IDENTIFIER,
              ENERGY_MESSAGE_IDENTIFIER, ERROR_MESSAGE_IDENTIFIER,
              EXTRA_MESSAGE_IDENTIFIER }

Protocols        == { "LEGACY", "NEXT", "ODYSSEE" }
ProtocolVersion  == Protocols \cup { "UNKNOWN" }
ProtocolChecksum == { "UNKNOWN", "CRC16", "XOR" }

\* Versions whose frames always end in the one byte XOR checksum.
XorOnlyProtocols == { "NEXT", "ODYSSEE" }

\* The <<identifier, payload length>> pairs a frame of each version can start
\* with.  The length byte counts as the first byte of the payload.
CONSTANT FrameTable

ASSUME FrameTableAssumption ==
    /\ FrameTable \in [Protocols -> SUBSET (FrameIds \X (1 .. 255))]
    /\ \A p, q \in Protocols :
          p # q => FrameTable[p] \cap FrameTable[q] = {}

CodeFrameTable ==
    [p \in Protocols |->
        CASE p = "LEGACY"  -> { <<194, 35>>, <<193, 37>>, <<67, 31>>, <<74, 35>> }
          [] p = "NEXT"    -> { <<194, 34>>, <<193, 35>>, <<67, 45>>, <<74, 65>> }
          [] p = "ODYSSEE" -> { <<194, 29>>, <<193, 29>>, <<67, 25>>, <<74, 68>>,
                                <<217, 31>> }]

AnyFrame == UNION { FrameTable[p] : p \in Protocols }

\* "This will work as long as they will always differ in length."
GetVersionByIdentifier(identifier, length) ==
    IF <<identifier, length>> \in AnyFrame
    THEN CHOOSE p \in Protocols : <<identifier, length>> \in FrameTable[p]
    ELSE "UNKNOWN"

=============================================================================
