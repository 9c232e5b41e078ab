------------------------------- MODULE MCMitm -------------------------------
(* Mitm with every kind of heat pump.                                      *)
EXTENDS Mitm

MCLines == { [version |-> "LEGACY", checksum |-> "CRC16"],
             [version |-> "ODYSSEE", checksum |-> "XOR"] }

MCPayload == 0 .. MaxRequestId

=============================================================================
