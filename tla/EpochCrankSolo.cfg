SPECIFICATION FairSpec
CONSTANTS
  Crankers = {c1}
  Observers = {o1, o2}
  FirstEpoch = 1
  LastEpoch = 3
  Duration = 2
  Window = 1
  StartDelay = 1
  MaxClock = 6
  Skews <- NoSkew
  RegistrySize <- LeaveAndReturn
  Batch = 1
  CloseBatch = 1
  Retention = 1
  FactorPeriod = 4
  MaxRegistryChanges = 2
  MaxOrphans = 0
  MaxBacklog = 1
  MaxErrors = 0
  MaxLost = 0
  NoEpoch = NoEpoch
INVARIANTS SoloAccepted CleanupKeepsUp
PROPERTIES ImplementsLifecycle EveryEpochCreated EveryEpochDistributed
