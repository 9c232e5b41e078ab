----------------------------- MODULE MCMQTTTask -----------------------------
(* MQTTTask with frames of two attributes.                                 *)
EXTENDS MQTTTask

MCLines == { [version |-> "NEXT", checksum |-> "XOR"] }

MCAttr == {"a", "b"}

\* The second frame of a kind changes one attribute, or none.
MCPayload == { p \in [MCAttr -> {1, 2}] : p.b = 2 }

MCOverridden(payload, o) == IF o = NoOverride THEN payload ELSE [payload EXCEPT !.a = o]

MCMainFrames == {MAIN_MESSAGE_IDENTIFIER, ERROR_MESSAGE_IDENTIFIER}

=============================================================================
