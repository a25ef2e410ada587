SPECIFICATION Spec
CONSTANTS
  Crankers = {c1}
  Observers = {o1}
  FirstEpoch = 1
  LastEpoch = 4
  Duration = 2
  Window = 2
  StartDelay = 0
  MaxClock = 6
  Skews <- NoSkew
  RegistrySize <- OneGateway
  Batch = 2
  CloseBatch = 1
  Retention = 1
  FactorPeriod = 4
  MaxRegistryChanges = 0
  MaxOrphans = 0
  MaxBacklog = 0
  MaxErrors = 2
  MaxLost = 0
  NoEpoch = NoEpoch
INVARIANT CleanupKeepsUp
