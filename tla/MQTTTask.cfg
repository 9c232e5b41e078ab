SPECIFICATION Spec
CONSTANTS
  FrameTable <- CodeFrameTable
  Lines <- MCLines
  Channels = {"HMI", "MAIN"}
  Attr <- MCAttr
  Payload <- MCPayload
  NoFrame = NoFrame
  Override = {None, 1}
  NoOverride = None
  Overridden <- MCOverridden
  MainFrames <- MCMainFrames
  MaxFrames = 2
  MaxControls = 1
  MaxLosses = 1
INVARIANTS
  TypeOK
  NoLostWakeup
PROPERTIES
  BrokerCatchesUp
