SPECIFICATION Spec
CONSTANTS
  Setups <- MCSetups
  Estimates = {0, 1}
  Initial = 0
  Cuts <- MCCuts
  MaxLosses = 1
  NoFrame = NoFrame
INVARIANTS
  TypeOK
  BrokerMirrorsLast
  EstimatesAreShown
  TablesAgree
  NoEntityIsEmpty
  EveryTopicIsAnnounced
PROPERTIES
  ImplementsMirror
