SPECIFICATION Spec
CONSTANTS
  Versions <- MCVersions
  Installations <- MCInstallations
  OperationModes <- MCOperationModes
  OperationTypes <- MCOperationTypes
  TargetTemperatures <- MCTargetTemperatures
  HMIFrames <- MCHMIFrames
  None = None
  MaxOverrides = 2
INVARIANTS
  TypeOK
  EmergencyNeedsElement
  PVFlagsAgree
PROPERTIES
  PVHeatPumpOnlyAsDocumented
  ModeDecidesTemperature
