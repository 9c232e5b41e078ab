----------------------------- MODULE MCPublisher -----------------------------
(* Publisher with each version of the protocol, and the configurations that  *)
(* publish different topics.                                                 *)
EXTENDS Publisher

DefaultConfig ==
    [mode |-> "MITM", statistics |-> FALSE, timeAndDate |-> FALSE, filterNoise |-> TRUE,
     climateCard |-> TRUE]

ListenerConfig ==
    [mode |-> "LISTENER", statistics |-> TRUE, timeAndDate |-> TRUE, filterNoise |-> FALSE,
     climateCard |-> FALSE]

EverythingConfig ==
    [mode |-> "MITM", statistics |-> TRUE, timeAndDate |-> TRUE, filterNoise |-> TRUE,
     climateCard |-> TRUE]

Odd == { i \in 1 .. 40 : i % 2 = 1 }
Even == (1 .. 40) \ Odd

\* Of a value of two bytes, each byte changes without the other.
Changes == { Bytes(1 .. 40), Bytes(Even), Bytes(Odd) }
One     == { Bytes(Even) }

\* Frames of a kind; those of all others do not come.
Frames(v, kind, frames) == [k \in KindsOf(v) |-> IF k = kind THEN frames ELSE {}]

Setup(v, c, frames, errors, others) ==
    [version |-> v, config |-> c, frames |-> frames, errors |-> errors, others |-> others]

Versions == {"LEGACY", "NEXT", "ODYSSEE"}

\* Two error messages of one request, and an empty one.
MCErrors == { Mask(1, 3) \cup Bytes(Odd \ {1}), Mask(1, 3), {} }

\* A kind of frames that changes, with nothing else; one frame of a kind, with
\* all else that is published; frames of all kinds together, and errors.
MCSetups ==
    UNION { { Setup(v, ListenerConfig, Frames(v, kind, Changes), {}, FALSE) : kind \in KindsOf(v) } :
              v \in Versions }
    \cup { Setup("LEGACY", DefaultConfig, Frames("LEGACY", "MAIN", {Bytes(Even), Bytes(Odd)}), {}, FALSE) }
    \cup UNION { { Setup(v, ListenerConfig, Frames(v, kind, One), {}, TRUE) : kind \in KindsOf(v) } :
                    v \in Versions }
    \cup { Setup(v, EverythingConfig, Frames(v, "HMI", One), {}, TRUE) : v \in Versions }
    \cup { Setup("ODYSSEE", EverythingConfig, Frames("ODYSSEE", "MAIN", One), {}, TRUE) }
    \cup { Setup(v, DefaultConfig, [kind \in KindsOf(v) |-> IF kind \in {"HMI", "ENERGY"} THEN One ELSE {}],
                 MCErrors, FALSE) : v \in Versions }

\* A connection that breaks within a call cuts off half of the topics.
MCCuts ==
    {   ({"hmi"} \X DOMAIN HMISettings)
          \cup ({"main"} \X (DOMAIN MainSettings \cup {"waterTemp"}))
          \cup ({"energy"} \X (DOMAIN EnergyDiagnosis \cup {"powerHeatpump", "voltageGrid"}))
          \cup { <<"error", id, "time">> : id \in {{}, {0, 1}} }
          \cup { <<"stats", "rssiDb">> } }

=============================================================================
