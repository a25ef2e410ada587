SPECIFICATION Spec
CONSTANTS
  Crankers = {c1, c2}
  Observers = {o1}
  FirstEpoch = 1
  LastEpoch = 2
  Duration = 1
  Window = 1
  StartDelay = 0
  MaxClock = 2
  Skews <- NoSkew
  RegistrySize <- ThreeGateways
  Batch = 2
  CloseBatch = 1
  Retention = 1
  FactorPeriod = 2
  MaxRegistryChanges = 0
  MaxOrphans = 1
  MaxBacklog = 0
  MaxErrors = 1
  MaxLost = 1
  NoEpoch = NoEpoch
SYMMETRY Symmetry
INVARIANTS TypeOK CreateDecisionSound CloseDecisionSound BatchNeverSkips
