----------------------------- MODULE MCOverrides -----------------------------
(* Overrides with frames and values of each kind that matters.              *)
EXTENDS Overrides

MCVersions == {"LEGACY", "NEXT", "ODYSSEE"}

MCInstallations == {"HP_ONLY", "HP_AND_SOLAR"}

MCOperationModes == {"ECO_ACTIVE", "ECO_INACTIVE", "BOOST", "ABSENCE", "AUTO"}

MCOperationTypes == {"ALWAYS_ON", "TIMER", "OFF_PEAK_HOURS"}

\* Out of the allowed range, and one with decimals.
MCTargetTemperatures == {635, 505}

\* Each combination of element and emergency mode an HMI sends, and a byte of
\* mode and type that AquaMQTT does not know.
MCHMIFrames ==
    { [installation |-> "HP_AND_SOLAR", operationMode |-> mode, operationType |-> "TIMER",
       targetTemperature |-> 500, heatingElement |-> e[1], emergencyMode |-> e[2]] :
      mode \in {"AUTO", "UNKNOWN"},
      e \in { <<TRUE, FALSE>>, <<TRUE, TRUE>>, <<FALSE, FALSE>> } }

=============================================================================
